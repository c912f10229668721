---------------------------- MODULE SparkSpends ----------------------------
(***************************************************************************)
(* Linking tags of Spark spends: the tags recorded as used by CSparkState  *)
(* (spark/state.cpp) and the tags reserved by the mempool                  *)
(* (CSparkMempoolState), as validation.cpp connects and disconnects        *)
(* blocks, refuses blocks and accepts transactions.                        *)
(*                                                                         *)
(* A spend is its linking tags, in order, and the block whose coin set it  *)
(* was made against: its proof verifies when that block is on the chain.   *)
(* Every action holds cs_main.  What a block holds is fixed but arbitrary. *)
(***************************************************************************)
EXTENDS BlockTree, Sequences, SequencesExt

CONSTANTS Txs,        \* Spark spends
          LTags,      \* linking tags
          TxLTags,    \* TxLTags[tx]: GetSparkUsedTags
          Anchor,     \* Anchor[tx]: the block of getBlockHashes
          Bodies,     \* sequences of spends a block may hold
          OverLimit,  \* blocks IsBlockAllowed refuses: over a spork's limit
          None        \* the null hash

\* A spend's tags are distinct (CheckSparkSpendTransaction), and so are the
\* transactions of a block.
ASSUME SparkSpendsAssumption ==
  /\ TxLTags \in [Txs -> Seq(LTags)]
  /\ \A tx \in Txs : IsInjective(TxLTags[tx])
  /\ Anchor \in [Txs -> Blocks]
  /\ Bodies \subseteq Seq(Txs)
  /\ \A body \in Bodies : IsInjective(body)
  /\ OverLimit \subseteq Blocks
  /\ None \notin Txs

VARIABLES
  vtx,          \* vtx[b]: the spends of block b
  tip,          \* chainActive.Tip()
  failed,       \* blocks InvalidBlockFound has marked
  usedLTags,
  mempool,      \* mapTx
  mempoolLTags  \* mempoolLTags[t]: the transaction that reserves t

vars == <<vtx, tip, failed, usedLTags, mempool, mempoolLTags>>

TypeOK ==
  /\ vtx \in [Blocks -> Seq(Txs)]
  /\ tip \in Blocks
  /\ failed \subseteq Blocks
  /\ usedLTags \subseteq LTags
  /\ mempool \subseteq Txs
  /\ mempoolLTags \in [LTags -> Txs \cup {None}]

Init ==
  /\ vtx \in {body \in [Blocks -> Bodies \cup {<<>>}] : body[Genesis] = <<>>}
  /\ tip = Genesis
  /\ failed = {}
  /\ usedLTags = {}
  /\ mempool = {}
  /\ mempoolLTags = [t \in LTags |-> None]

-----------------------------------------------------------------------------
TagsOf(tx) == {TxLTags[tx][k] : k \in DOMAIN TxLTags[tx]}

SpendsIn(b) == {vtx[b][i] : i \in DOMAIN vtx[b]}

BlockTags(b) == UNION {TagsOf(tx) : tx \in SpendsIn(b)}

\* The tags AddBlock records for the blocks of b's chain.
ChainTags(b) == UNION {BlockTags(a) : a \in ChainOf[b]}

\* Variants of Released: the tags leave the map's type, or stay reserved.
Erased(reserved, tags) == [t \in LTags \ tags |-> reserved[t]]
NeverReleased(reserved, tags) == reserved

\* RemoveSpendFromMempool for a set of tags.
Released(reserved, tags) == [t \in LTags |-> IF t \in tags THEN None ELSE reserved[t]]

\* The anchor is not checked.
AcceptableAnywhere(tx, b, used, reserved) ==
  \A t \in TagsOf(tx) : t \notin used /\ reserved[t] = None

\* The spends AcceptToMemoryPool takes on chain b with these tags used and reserved.
Acceptable(tx, b, used, reserved) ==
  /\ \A t \in TagsOf(tx) : t \notin used /\ reserved[t] = None
  /\ Anchor[tx] \in ChainOf[b]

Reserved(reserved, txs) ==
  [t \in LTags |-> IF \E tx \in txs : t \in TagsOf(tx)
                   THEN CHOOSE tx \in txs : t \in TagsOf(tx)
                   ELSE reserved[t]]

-----------------------------------------------------------------------------
(* The mempool. *)

AcceptToMemoryPool(tx) ==
  /\ tx \notin mempool
  /\ Acceptable(tx, tip, usedLTags, mempoolLTags)
  /\ mempool' = mempool \cup {tx}
  /\ mempoolLTags' = Reserved(mempoolLTags, {tx})
  /\ UNCHANGED <<vtx, tip, failed, usedLTags>>

\* removeUnchecked, when a spend expires or the mempool is trimmed.
RemoveUnchecked(tx) ==
  /\ tx \in mempool
  /\ mempool' = mempool \ {tx}
  /\ mempoolLTags' = Released(mempoolLTags, TagsOf(tx))
  /\ UNCHANGED <<vtx, tip, failed, usedLTags>>

\* RemoveConflictingPrivacyTransactionsFromMempool for one spend of the block:
\* st.gone has left the mempool so far, st.released are the tags no longer reserved.
RemoveConflicting(st, tx) ==
  LET tags == TxLTags[tx]
      hits == {k \in DOMAIN tags : tags[k] \notin st.released /\ mempoolLTags[tags[k]] # None}
      conflicting == IF hits = {}
                     THEN None
                     ELSE mempoolLTags[tags[CHOOSE k \in hits : \A l \in hits : k <= l]]
      removed == {conflicting} \cap (mempool \ (st.gone \cup {tx}))
  IN  [gone |-> st.gone \cup removed,
       released |-> st.released \cup TagsOf(tx) \cup UNION {TagsOf(c) : c \in removed}]

RemoveConflictingPrivacyTransactionsFromMempool(b) ==
  FoldLeft(RemoveConflicting, [gone |-> {}, released |-> {}], vtx[b])

-----------------------------------------------------------------------------
(* The active chain. *)

Candidate(b) == b # Genesis /\ Parent[b] = tip /\ b \notin failed

\* Used tags are not checked.
CheckWithinBlock(b, used) ==
  /\ \A i, j \in DOMAIN vtx[b] : i # j => TagsOf(vtx[b][i]) \cap TagsOf(vtx[b][j]) = {}
  /\ \A tx \in SpendsIn(b) : Anchor[tx] \in ChainOf[Parent[b]]

\* CheckSparkSpendTransaction for each spend, and CheckLTag for all their tags.
CheckBlockSpends(b, used) ==
  /\ \A i, j \in DOMAIN vtx[b] : i # j => TagsOf(vtx[b][i]) \cap TagsOf(vtx[b][j]) = {}
  /\ \A tx \in SpendsIn(b) : Anchor[tx] \in ChainOf[Parent[b]]
  /\ BlockTags(b) \cap used = {}

\* ConnectTip: ConnectBlockSpark, the conflicting spends, removeForBlock.
ConnectTip(b) ==
  /\ Candidate(b)
  /\ CheckBlockSpends(b, usedLTags)
  /\ b \notin OverLimit
  /\ tip' = b
  /\ usedLTags' = usedLTags \cup BlockTags(b)
  /\ LET st == RemoveConflictingPrivacyTransactionsFromMempool(b)
     IN  /\ mempool' = mempool \ (st.gone \cup SpendsIn(b))
         /\ mempoolLTags' = Released(mempoolLTags, st.released)
  /\ UNCHANGED <<vtx, failed>>

\* A tag reserved by the mempool counts as used.
RefuseReserved(b) ==
  /\ Candidate(b)
  /\ ~CheckBlockSpends(b, usedLTags \cup {t \in LTags : mempoolLTags[t] # None})
  /\ failed' = failed \cup {b}
  /\ UNCHANGED <<vtx, tip, usedLTags, mempool, mempoolLTags>>

\* ConnectTip when ConnectBlock fails before ConnectBlockSpark has changed anything.
RefuseBlock(b) ==
  /\ Candidate(b)
  /\ ~CheckBlockSpends(b, usedLTags)
  /\ failed' = failed \cup {b}
  /\ UNCHANGED <<vtx, tip, usedLTags, mempool, mempoolLTags>>

\* ConnectTip when IsBlockAllowed fails, after ConnectBlockSpark.
RefuseBlockOverLimit(b) ==
  /\ Candidate(b)
  /\ CheckBlockSpends(b, usedLTags)
  /\ b \in OverLimit
  /\ usedLTags' = usedLTags \cup BlockTags(b)
  /\ failed' = failed \cup {b}
  /\ UNCHANGED <<vtx, tip, mempool, mempoolLTags>>

\* DisconnectTip: RemoveBlock, RemoveSpendReferencingBlock, and the block's spends
\* go back to the mempool if it accepts them, or leave it.
DisconnectTip ==
  /\ tip # Genesis
  /\ LET used == usedLTags \ BlockTags(tip)
         referencing == {tx \in mempool : Anchor[tx] = tip}
         left == mempool \ referencing
         reserved == Released(mempoolLTags, UNION {TagsOf(tx) : tx \in referencing})
         back == {tx \in SpendsIn(tip) \ left : Acceptable(tx, Parent[tip], used, reserved)}
         dropped == left \cap SpendsIn(tip)
     IN  /\ usedLTags' = used
         /\ mempool' = (left \ dropped) \cup back
         /\ mempoolLTags' = Released(Reserved(reserved, back),
                                     UNION {TagsOf(tx) : tx \in dropped})
  /\ tip' = Parent[tip]
  /\ UNCHANGED <<vtx, failed>>

\* Only the tip is read back.
RestartFromTip ==
  /\ usedLTags' = BlockTags(tip)
  /\ mempool' = {}
  /\ mempoolLTags' = [t \in LTags |-> None]
  /\ UNCHANGED <<vtx, tip, failed>>

\* A restart: BuildSparkStateFromIndex, and an empty mempool.
Restart ==
  /\ usedLTags' = ChainTags(tip)
  /\ mempool' = {}
  /\ mempoolLTags' = [t \in LTags |-> None]
  /\ UNCHANGED <<vtx, tip, failed>>

-----------------------------------------------------------------------------
Next ==
  \/ \E tx \in Txs : AcceptToMemoryPool(tx) \/ RemoveUnchecked(tx)
  \/ \E b \in Blocks : ConnectTip(b) \/ RefuseBlock(b) \/ RefuseBlockOverLimit(b)
  \/ DisconnectTip
  \/ Restart

Spec == Init /\ [][Next]_vars

-----------------------------------------------------------------------------
(* Properties. *)

\* No linking tag is spent twice on the active chain, through any sequence of
\* reorganisations, refused blocks and restarts (CheckLTag, AddSpend, RemoveSpend).
NoDoubleSpend ==
  \A a, b \in ChainOf[tip] : \A i \in DOMAIN vtx[a], j \in DOMAIN vtx[b] :
    <<a, i>> # <<b, j>> => TagsOf(vtx[a][i]) \cap TagsOf(vtx[b][j]) = {}

\* Every tag of the active chain is recorded as used, and a recorded tag that is
\* not on the chain comes from a block that IsBlockAllowed refused.
UsedTagsAccounted ==
  /\ ChainTags(tip) \subseteq usedLTags
  /\ usedLTags \ ChainTags(tip) \subseteq UNION {BlockTags(b) : b \in failed \cap OverLimit}

\* Until a block has been refused for a spork's limit, a block is marked failed
\* only if it is invalid after its own ancestors: the verdict of ConnectBlock does
\* not depend on the blocks that were connected and disconnected before.
FailedOnlyInvalid ==
  failed \cap OverLimit = {} =>
    \A b \in failed : ~CheckBlockSpends(b, ChainTags(Parent[b]))

\* A spend in the mempool was made against a block of the active chain
\* (RemoveSpendReferencingBlock runs for each block that is disconnected).
AnchorsOnChain == \A tx \in mempool : Anchor[tx] \in ChainOf[tip]

\* A reserved tag belongs to a spend that is in the mempool, so no spend is refused
\* on account of a transaction that has gone (removeUnchecked, RemoveSpendFromMempool).
ReservationsOwned ==
  \A t \in LTags :
    mempoolLTags[t] # None => mempoolLTags[t] \in mempool /\ t \in TagsOf(mempoolLTags[t])

\* The inductive invariant.
IndInv ==
  /\ TypeOK
  /\ NoDoubleSpend
  /\ UsedTagsAccounted
  /\ FailedOnlyInvalid
  /\ AnchorsOnChain
=============================================================================
