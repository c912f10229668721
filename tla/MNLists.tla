------------------------------ MODULE MNLists ------------------------------
(***************************************************************************)
(* How a block changes the deterministic masternode list                   *)
(* (CDeterministicMNManager::BuildNewListFromBlock and CDeterministicMNList*)
(* in evo/deterministicmns.cpp, the checks of provider transactions in     *)
(* evo/providertx.cpp), and what of it is stored: the difference to the    *)
(* list before, and now and then the whole list.                           *)
(*                                                                         *)
(* A masternode is named by the hash of its registration, a number because *)
(* hashes are compared.  Of its state the module keeps what decides        *)
(* whether it is valid, when it is paid and which properties no other may  *)
(* share; payout scripts, the voting key and the reason of a revocation    *)
(* are left out.  A signature is valid: the transaction was signed with    *)
(* the key that the check looks up.                                        *)
(***************************************************************************)
EXTENDS Integers, Sequences, FiniteSets, SequencesExt, TLC

CONSTANTS ProTxs,        \* hashes of the registrations, a set of numbers
          Collateral,    \* Collateral[p]: the outpoint
          Internal,      \* registrations whose collateral is an output of their own
          Blacklisted,   \* blacklistedCollaterals
          Owner,         \* Owner[p]: keyIDOwner
          FirstKey,      \* FirstKey[p]: pubKeyOperator of the registration
          FirstAddr,     \* FirstAddr[p]: addr of the registration, or None
          Keys, Addrs,   \* operator keys and addresses
          None,
          Blocks,        \* bound: sequences of transactions a block may contain
          nMinimumConfirmations, MinPenalty, SNAPSHOT_LIST_PERIOD,
          MaxHeight      \* bound

Outpoints == {Collateral[p] : p \in ProTxs}
Owners == {Owner[p] : p \in ProTxs}
Properties == Outpoints \cup Owners \cup Keys \cup Addrs

Transactions ==
  [type : {"register", "revoke"}, mn : ProTxs]
    \cup [type : {"service"}, mn : ProTxs, addr : Addrs]
    \cup [type : {"registrar"}, mn : ProTxs, key : Keys]
    \cup [type : {"commitment"}, invalid : SUBSET ProTxs]
    \cup [type : {"spend"}, out : Outpoints]

ASSUME MNListsAssumption ==
  /\ ProTxs \subseteq Nat
  /\ Internal \subseteq ProTxs
  /\ FirstKey \in [ProTxs -> Keys]
  /\ FirstAddr \in [ProTxs -> Addrs \cup {None}]
  /\ None \notin Properties
  /\ Blocks \subseteq Seq(Transactions)
  /\ \A p \in Internal, q \in ProTxs : Collateral[p] = Collateral[q] => p = q

VARIABLES
  built,      \* the list that BuildNewListFromBlock made for the tip
  list,       \* what GetListForBlock returns for the tip, None when it aborts
  unspent,    \* outpoints of Outpoints in the UTXO set of the tip
  mined       \* registrations in the chain

vars == <<built, list, unspent, mined>>

\* CDeterministicMNList: mns is mnMap with the internal ids (mnInternalIdMap), and
\* props is mnUniquePropertyMap, with count 0 for a property that is not there.
EmptyList ==
  [nHeight |-> -1, total |-> 0, mns |-> <<>>,
   props |-> [v \in Properties |-> [mn |-> None, count |-> 0]]]

-----------------------------------------------------------------------------
\* CDeterministicMNList

HasMN(ml, p) == p \in DOMAIN ml.mns

HasUniqueProperty(ml, v) == v # None /\ ml.props[v].count # 0

IsMNValid(mn) == mn.nPoSeBanHeight = -1

\* AddUniqueProperty and DeleteUniqueProperty for the properties in a sequence;
\* None is a value that is not set.
AddProperties(props, p, values) ==
  FoldLeft(LAMBDA m, v : IF v = None THEN m ELSE [m EXCEPT ![v] = [mn |-> p, count |-> @.count + 1]],
           props, values)

DeleteProperties(props, values) ==
  FoldLeft(LAMBDA m, v : IF v = None THEN m
                         ELSE [m EXCEPT ![v] = IF @.count <= 1 THEN [mn |-> None, count |-> 0]
                                               ELSE [@ EXCEPT !.count = @ - 1]],
           props, values)

\* The properties of a masternode that no other may have.
Unique(mn) == <<mn.collateral, mn.addr, mn.owner, mn.key>>

AddMN(ml, p, mn) ==
  [ml EXCEPT !.mns = (p :> mn) @@ @,
             !.props = AddProperties(@, p, Unique(mn))]

RemoveMN(ml, p) ==
  [ml EXCEPT !.mns = [q \in DOMAIN @ \ {p} |-> @[q]],
             !.props = DeleteProperties(@, Unique(ml.mns[p]))]

\* Variant: the old value of a property that changes stays in the map.
UpdateKeepsOld(ml, p, mn) ==
  LET old == Unique(ml.mns[p])
      new == Unique(mn)
  IN  [ml EXCEPT !.mns = (p :> mn) @@ @,
                 !.props = AddProperties(@, p, SelectSeq(new, LAMBDA v : ~Contains(old, v)))]

\* UpdateMN, with UpdateUniqueProperty for each property that changes.
UpdateMN(ml, p, mn) ==
  LET old == Unique(ml.mns[p])
      new == Unique(mn)
      gone == SelectSeq(old, LAMBDA v : ~Contains(new, v))
      come == SelectSeq(new, LAMBDA v : ~Contains(old, v))
  IN  [ml EXCEPT !.mns = (p :> mn) @@ @,
                 !.props = AddProperties(DeleteProperties(@, gone), p, come)]

\* CompareByLastPaid
QueueHeight(mn) ==
  IF mn.nPoSeRevivedHeight > mn.nLastPaidHeight THEN mn.nPoSeRevivedHeight
  ELSE IF mn.nLastPaidHeight = 0 THEN mn.nRegisteredHeight ELSE mn.nLastPaidHeight

Before(ml, p, q) ==
  LET a == QueueHeight(ml.mns[p])
      b == QueueHeight(ml.mns[q])
  IN  a < b \/ (a = b /\ p < q)

ValidMNs(ml) == {p \in DOMAIN ml.mns : IsMNValid(ml.mns[p])}

\* Variant: the payee is the valid masternode that registered first.
FirstRegistered(ml) ==
  IF ValidMNs(ml) = {} THEN None
  ELSE CHOOSE p \in ValidMNs(ml) :
         \A q \in ValidMNs(ml) : ml.mns[p].internalId <= ml.mns[q].internalId

GetMNPayee(ml) ==
  IF ValidMNs(ml) = {} THEN None
  ELSE CHOOSE p \in ValidMNs(ml) : \A q \in ValidMNs(ml) \ {p} : Before(ml, p, q)

CalcMaxPoSePenalty(ml) ==
  IF Cardinality(DOMAIN ml.mns) > MinPenalty THEN Cardinality(DOMAIN ml.mns) ELSE MinPenalty

CalcPenalty(ml, percent) == (CalcMaxPoSePenalty(ml) * percent) \div 100

PoSePunish(ml, p, penalty) ==
  LET max == CalcMaxPoSePenalty(ml)
      mn == ml.mns[p]
      sum == mn.nPoSePenalty + penalty
      new == IF sum < max THEN sum ELSE max
  IN  UpdateMN(ml, p,
        [mn EXCEPT !.nPoSePenalty = new,
                   !.nPoSeBanHeight = IF new >= max /\ @ = -1 THEN ml.nHeight ELSE @])

\* Variant: a penalty of zero is decreased, too.
DecreaseAll(ml) ==
  [ml EXCEPT !.mns = [p \in DOMAIN @ |->
     IF IsMNValid(@[p]) THEN [@[p] EXCEPT !.nPoSePenalty = @ - 1] ELSE @[p]]]

\* DecreasePoSePenalties, with PoSeDecrease for each.
DecreasePoSePenalties(ml) ==
  [ml EXCEPT !.mns = [p \in DOMAIN @ |->
     IF IsMNValid(@[p]) /\ @[p].nPoSePenalty > 0
     THEN [@[p] EXCEPT !.nPoSePenalty = @ - 1] ELSE @[p]]]

-----------------------------------------------------------------------------
\* The checks of one transaction against the list of the previous block
\* (CheckSpecialTx).

CheckProRegTx(ml, utxo, p) ==
  \/ Collateral[p] \in Blacklisted
  \/ /\ p \in Internal \/ Collateral[p] \in utxo
     /\ HasUniqueProperty(ml, FirstAddr[p]) =>
          ml.mns[ml.props[FirstAddr[p]].mn].collateral = Collateral[p]
     /\ ~HasUniqueProperty(ml, Owner[p])
     /\ ~HasUniqueProperty(ml, FirstKey[p])

CheckProUpServTx(ml, p, addr) ==
  /\ HasMN(ml, p)
  /\ HasUniqueProperty(ml, addr) => ml.props[addr].mn = p
  /\ ml.mns[p].key # None

CheckProUpRegTx(ml, utxo, p, key) ==
  /\ HasMN(ml, p)
  /\ ml.mns[p].collateral \in utxo
  /\ HasUniqueProperty(ml, key) => ml.props[key].mn = p

CheckProUpRevTx(ml, p) == HasMN(ml, p) /\ ml.mns[p].key # None

\* CheckSpecialTx.  A registration is in the chain once.
CheckTx(ml, utxo, regs, tx) ==
  CASE tx.type = "register"   -> tx.mn \notin regs /\ CheckProRegTx(ml, utxo, tx.mn)
    [] tx.type = "service"    -> CheckProUpServTx(ml, tx.mn, tx.addr)
    [] tx.type = "registrar"  -> CheckProUpRegTx(ml, utxo, tx.mn, tx.key)
    [] tx.type = "revoke"     -> CheckProUpRevTx(ml, tx.mn)
    [] tx.type = "commitment" -> TRUE
    [] tx.type = "spend"      -> TRUE

-----------------------------------------------------------------------------
\* BuildNewListFromBlock: the effect of the transactions of a block, one after
\* the other.  None stands for a block that is refused.

\* The masternodes that are registered long enough get their confirmedHash.
ConfirmMNs(ml, h) ==
  [ml EXCEPT !.mns = [p \in DOMAIN @ |->
     [@[p] EXCEPT !.confirmed = @ \/ h - 1 - ml.mns[p].nRegisteredHeight >= nMinimumConfirmations]]]

NewMN(p, id, h) ==
  [internalId |-> id, collateral |-> Collateral[p], owner |-> Owner[p],
   key |-> FirstKey[p], addr |-> FirstAddr[p], confirmed |-> FALSE,
   nRegisteredHeight |-> h, nLastPaidHeight |-> 0, nPoSePenalty |-> 0, nPoSeRevivedHeight |-> -1,
   nPoSeBanHeight |-> IF FirstAddr[p] = None THEN h ELSE -1]

\* ProRegTx: a registration with the collateral of another masternode replaces it.
Register(ml, utxo, h, p) ==
  LET counted == [ml EXCEPT !.total = @ + 1]
      replaced == ml.props[Collateral[p]].mn
      cleared == IF replaced = None THEN counted ELSE RemoveMN(counted, replaced)
  IN  IF Collateral[p] \in Blacklisted THEN counted
      ELSE IF \/ (p \notin Internal /\ Collateral[p] \notin utxo)
              \/ (replaced # None /\ ml.mns[replaced].nRegisteredHeight = h)
              \/ \E v \in {FirstAddr[p], Owner[p], FirstKey[p]} : HasUniqueProperty(cleared, v)
           THEN None
           ELSE AddMN(cleared, p, NewMN(p, ml.total, h))

\* ProUpServTx: a banned masternode with an operator key is revived.
UpdateService(ml, h, p, addr) ==
  LET mn == [ml.mns[p] EXCEPT !.addr = addr]
  IN  IF (HasUniqueProperty(ml, addr) /\ ml.props[addr].mn # p) \/ ~HasMN(ml, p) THEN None
      ELSE UpdateMN(ml, p,
             IF IsMNValid(mn) \/ mn.key = None THEN mn
             ELSE [mn EXCEPT !.nPoSePenalty = 0, !.nPoSeBanHeight = -1, !.nPoSeRevivedHeight = h])

\* ResetOperatorFields and BanIfNotBanned
Dismissed(mn, h) ==
  [mn EXCEPT !.key = None, !.addr = None, !.nPoSeBanHeight = IF @ = -1 THEN h ELSE @]

\* ProUpRegTx: a new operator key resets what the operator had set.
UpdateRegistrar(ml, h, p, key) ==
  IF ~HasMN(ml, p) \/ (HasUniqueProperty(ml, key) /\ ml.props[key].mn # p) THEN None
  ELSE LET mn == ml.mns[p]
       IN  UpdateMN(ml, p, [(IF mn.key # key THEN Dismissed(mn, h) ELSE mn) EXCEPT !.key = key])

\* ProUpRevTx
Revoke(ml, h, p) ==
  IF ~HasMN(ml, p) THEN None ELSE UpdateMN(ml, p, Dismissed(ml.mns[p], h))

\* HandleQuorumCommitment: the members whose participation failed are punished.
HandleQuorumCommitment(ml, invalid) ==
  FoldSet(LAMBDA p, l : IF HasMN(l, p) THEN PoSePunish(l, p, CalcPenalty(l, 66)) ELSE l,
          ml, invalid)

ApplyTx(ml, utxo, h, tx) ==
  CASE tx.type = "register"   -> Register(ml, utxo, h, tx.mn)
    [] tx.type = "service"    -> UpdateService(ml, h, tx.mn, tx.addr)
    [] tx.type = "registrar"  -> UpdateRegistrar(ml, h, tx.mn, tx.key)
    [] tx.type = "revoke"     -> Revoke(ml, h, tx.mn)
    [] tx.type = "commitment" -> HandleQuorumCommitment(ml, tx.invalid)
    [] tx.type = "spend"      -> ml

\* Variant: the collateral is looked up with GetValidMNByCollateral.
SpendOfValid(ml, h, tx) ==
  LET p == ml.props[tx.out].mn
  IN  IF ml = None \/ tx.type # "spend" THEN ml
      ELSE IF p = None THEN ml
      ELSE IF ~IsMNValid(ml.mns[p]) THEN ml
      ELSE IF p \in Internal /\ ml.mns[p].nRegisteredHeight = h THEN None
      ELSE RemoveMN(ml, p)

\* The second pass: masternodes whose collateral is spent leave the list.
ApplySpend(ml, h, tx) ==
  LET p == ml.props[tx.out].mn
  IN  IF ml = None \/ tx.type # "spend" THEN ml
      ELSE IF p = None THEN ml
      ELSE IF p \in Internal /\ ml.mns[p].nRegisteredHeight = h THEN None
      ELSE RemoveMN(ml, p)

\* The payee of the block is the one the list before it names.
Paid(ml, h, payee) ==
  IF ml = None \/ payee = None THEN ml
  ELSE IF HasMN(ml, payee) THEN [ml EXCEPT !.mns[payee].nLastPaidHeight = h] ELSE ml

BuildNewListFromBlock(old, utxo, h, block) ==
  LET start == DecreasePoSePenalties(ConfirmMNs([old EXCEPT !.nHeight = h], h))
      changed == FoldLeft(LAMBDA l, tx : IF l = None THEN None ELSE ApplyTx(l, utxo, h, tx),
                          start, block)
      left == FoldLeft(LAMBDA l, tx : ApplySpend(l, h, tx), changed, block)
  IN  Paid(left, h, GetMNPayee(old))

-----------------------------------------------------------------------------
\* What is stored of a list

\* Variant: a diff without the penalties.
DiffWithoutPenalty(from, to) ==
  [added   |-> {p \in DOMAIN to.mns : ~HasMN(from, p)},
   updated |-> {p \in DOMAIN to.mns : HasMN(from, p) /\
                  [to.mns[p] EXCEPT !.nPoSePenalty = 0] # [from.mns[p] EXCEPT !.nPoSePenalty = 0]},
   removed |-> {from.mns[p].internalId : p \in {p \in DOMAIN from.mns : ~HasMN(to, p)}}]

\* BuildDiff.  Masternodes that change and that go are named by their internal
\* ids; here the ones that are added and that change stand for their new state.
BuildDiff(from, to) ==
  [added   |-> {p \in DOMAIN to.mns : ~HasMN(from, p)},
   updated |-> {p \in DOMAIN to.mns : HasMN(from, p) /\ to.mns[p] # from.mns[p]},
   removed |-> {from.mns[p].internalId : p \in {p \in DOMAIN from.mns : ~HasMN(to, p)}}]

\* The masternodes that a diff adds, in the order of their internal ids.
AddedInOrder(diff, to) ==
  SetToSortSeq(diff.added, LAMBDA p, q : to.mns[p].internalId < to.mns[q].internalId)

GetMNByInternalId(ml, id) == CHOOSE p \in DOMAIN ml.mns : ml.mns[p].internalId = id

\* ApplyDiff, with the states of to.
ApplyDiff(ml, diff, to) ==
  LET without == FoldSet(LAMBDA id, l : RemoveMN(l, GetMNByInternalId(l, id)), ml, diff.removed)
      with == FoldLeft(LAMBDA l, p : [AddMN(l, p, to.mns[p]) EXCEPT !.total = @ + 1],
                       without, AddedInOrder(diff, to))
      byId(l, p) == GetMNByInternalId(l, to.mns[p].internalId)
  IN  FoldSet(LAMBDA p, l : UpdateMN(l, byId(l, p), to.mns[p]),
              [with EXCEPT !.nHeight = to.nHeight], diff.updated)

\* Its assertion: the masternodes that are added get the next internal ids.
AddedIdsFollow(ml, diff, to) ==
  LET added == AddedInOrder(diff, to)
  IN  \A i \in DOMAIN added : to.mns[added[i]].internalId = ml.total + i - 1

HasChanges(diff) == diff.added # {} \/ diff.updated # {} \/ diff.removed # {}

IsSnapshot(ml, to) == to.nHeight % SNAPSHOT_LIST_PERIOD = 0 \/ ml.nHeight = -1

\* GetListForBlock for the tip, when the list of the block before it is cached: from
\* the snapshot or by the diff that ProcessBlock wrote.
GetListForBlock(ml, to) ==
  LET diff == BuildDiff(ml, to)
  IN  IF IsSnapshot(ml, to) THEN to
      ELSE IF HasChanges(diff) THEN ApplyDiff(ml, diff, to)
      ELSE [ml EXCEPT !.nHeight = to.nHeight]

\* ApplyDiff does not abort.
Loads(ml, to) == IsSnapshot(ml, to) \/ AddedIdsFollow(ml, BuildDiff(ml, to), to)

-----------------------------------------------------------------------------
Spent(block) == {block[i].out : i \in {i \in DOMAIN block : block[i].type = "spend"}}
Registered(block) == {block[i].mn : i \in {i \in DOMAIN block : block[i].type = "register"}}

\* ConnectBlock of a block with these transactions: an input is spent once, and is
\* in the UTXO set or an output of the block.  Afterwards the list is asked for,
\* at the latest by the next block.
ProcessBlock(block) ==
  LET h == built.nHeight + 1
      created == {Collateral[p] : p \in Registered(block) \cap Internal}
  IN
  /\ list # None
  /\ h <= MaxHeight
  /\ Spent(block) \subseteq unspent \cup created
  /\ \A i, j \in DOMAIN block : i # j => block[i] # block[j]
  /\ \A i \in DOMAIN block : CheckTx(list, unspent, mined, block[i])
  /\ built' = BuildNewListFromBlock(list, unspent, h, block)
  /\ built' # None
  /\ list' = IF Loads(list, built') THEN GetListForBlock(list, built') ELSE None
  /\ unspent' = (unspent \cup created) \ Spent(block)
  /\ mined' = mined \cup Registered(block)

\* Height 0 stands for the first block with a list, which changes nothing.
Init ==
  /\ built = [EmptyList EXCEPT !.nHeight = 0]
  /\ list = built
  /\ unspent = {Collateral[p] : p \in ProTxs \ Internal}
  /\ mined = {}

Next == \E block \in Blocks : ProcessBlock(block)

Spec == Init /\ [][Next]_vars

-----------------------------------------------------------------------------
TypeOK ==
  /\ DOMAIN built.mns \subseteq mined
  /\ mined \subseteq ProTxs
  /\ unspent \subseteq Outpoints
  /\ built.nHeight \in 0..MaxHeight
  /\ \A p \in DOMAIN built.mns :
       LET mn == built.mns[p] IN
       /\ mn.internalId \in 0..(built.total - 1)
       /\ mn.nRegisteredHeight \in 1..built.nHeight
       /\ mn.nLastPaidHeight \in 0..built.nHeight
       /\ mn.nPoSePenalty \in Nat
       /\ mn.key \in Keys \cup {None} /\ mn.addr \in Addrs \cup {None}

\* The map of unique properties holds exactly the collateral, address and keys
\* of the masternodes in the list, each for its one owner, so none of the
\* assertions of AddUniqueProperty and DeleteUniqueProperty fails; and no two
\* masternodes have the same internal id.
PropertiesOwned ==
  LET mns == built.mns
      ownersOf(v) == {p \in DOMAIN mns : Contains(Unique(mns[p]), v)}
  IN  /\ \A v \in Properties :
           built.props[v] = IF ownersOf(v) = {} THEN [mn |-> None, count |-> 0]
                            ELSE [mn |-> CHOOSE p \in ownersOf(v) : TRUE, count |-> 1]
      /\ \A v \in Properties : Cardinality(ownersOf(v)) <= 1
      /\ \A p, q \in DOMAIN mns : mns[p].internalId = mns[q].internalId => p = q

\* The diff that ProcessBlock writes leads from the list of the block before to
\* the list it was built from, whatever the block registers, replaces, revokes,
\* punishes and spends.  (The counter of registrations may differ: ApplyDiff does
\* not count a masternode that the same block registers and removes.)
DiffReproducesList ==
  list # None => list.mns = built.mns /\ list.props = built.props

\* The collateral of every masternode in the list is unspent: CheckProUpRegTx says
\* of the case that it is not "this should never happen (there would be no dmn
\* otherwise)".
CollateralUnspent ==
  \A p \in DOMAIN built.mns : built.mns[p].collateral \in unspent

\* A masternode that is valid before and after a block, and neither paid nor
\* revived by it, moves forward in the queue for payment: whoever is paid was before
\* it, and nobody who was behind it, or not in the queue at all, is before it
\* afterwards (CompareByLastPaid, GetMNPayee).
Ahead(ml, p) == {q \in ValidMNs(ml) \ {p} : Before(ml, q, p)}
Waits(p) ==
  /\ list'.mns[p].nLastPaidHeight = list.mns[p].nLastPaidHeight
  /\ list'.mns[p].nPoSeRevivedHeight = list.mns[p].nPoSeRevivedHeight
PaidNow ==
  {q \in DOMAIN list.mns \cap DOMAIN list'.mns :
     list'.mns[q].nLastPaidHeight # list.mns[q].nLastPaidHeight}
PaymentInTurn ==
  [][list' # None =>
       \A p \in ValidMNs(list) \cap ValidMNs(list') :
         Waits(p) => Ahead(list', p) \subseteq Ahead(list, p) \ PaidNow
                      /\ PaidNow \subseteq Ahead(list, p)]_vars

\* The masternodes that a block adds have the internal ids that ApplyDiff expects
\* ("otherwise internalIds will not match with the original list"), so its
\* assertion holds when the list is next asked for.
AddedIdsExpected == list # None
=============================================================================
