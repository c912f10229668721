----------------------------- MODULE EvoBlocks -----------------------------
(***************************************************************************)
(* What a block leaves in the special-transaction database and in the      *)
(* caches above it: CQuorumBlockProcessor (llmq/quorums_blockprocessor.cpp)*)
(* and the storage part of CDeterministicMNManager                         *)
(* (evo/deterministicmns.cpp), driven by ConnectTip, DisconnectTip,        *)
(* TestBlockValidity and FlushStateToDisk (validation.cpp) over CEvoDB.    *)
(*                                                                         *)
(* The thread that holds cs_main works on one block at a time, in a        *)
(* transaction of the database: it opens the transaction, connects or      *)
(* disconnects the block, and commits or rolls back.  Between these steps  *)
(* run the threads that do not take cs_main: one asks HasMinedCommitment   *)
(* (from CQuorumManager::GetQuorum), others ask for the masternode list of *)
(* a block that is or was the tip.                                         *)
(*                                                                         *)
(* There is one LLMQ type.  Genesis stands for the last block before       *)
(* DIP0003Height, and a masternode list for the set of its masternodes;    *)
(* which of them a block adds and removes is a constant.  A block that was *)
(* refused may be tried again, as after the reconsiderblock call.          *)
(***************************************************************************)
EXTENDS BlockTree, EvoDB, FiniteSets

CONSTANTS Qc,            \* Qc[b]: the commitment in block b, NullQc, or None
          NullQc,
          QcQuorum,      \* QcQuorum[c]: quorumHash of a non-null commitment
          Signers,       \* Signers[c]: CountSigners
          Commitments,
          Added, Removed,  \* the masternodes block b adds and removes
          BadBlocks,     \* blocks that fail a check after ProcessSpecialTxsInBlock
          dkgInterval, dkgMiningWindowStart, dkgMiningWindowEnd,
          SNAPSHOT_LIST_PERIOD, LISTS_CACHE_SIZE,
          MaxBusy        \* bound: threads in the middle of something without cs_main

\* The heights are past the first LISTS_CACHE_SIZE: below, a list of height -1
\* is never dropped from the cache.
ASSUME EvoBlocksAssumption ==
  /\ None \notin Commitments
  /\ Qc \in [Blocks -> Commitments \cup {NullQc, None}]
  /\ QcQuorum \in [Commitments -> Blocks]
  /\ Signers \in [Commitments -> Nat]
  /\ Qc[Genesis] = None /\ Added[Genesis] = {} /\ Removed[Genesis] = {}
  /\ BadBlocks \subseteq Blocks \ {Genesis}
  /\ LISTS_CACHE_SIZE \in Nat
  /\ \A b \in Blocks \ {Genesis} : Height[b] >= LISTS_CACHE_SIZE

VARIABLES
  tip,         \* best block of pcoinsTip, and chainActive.Tip()
  coinsDisk,   \* best block of the coins database
  work,        \* what the thread that holds cs_main is doing, and to which block
  tips,        \* blocks that were the tip: other threads have their index
  mnListsCache,
  hasMinedCommitmentCache,
  minable,     \* minableCommitmentsByQuorum
  reader,      \* a thread inside HasMinedCommitment
  message      \* the commitment of a QFCOMMITMENT message being processed, or None

chainVars == <<tip, coinsDisk, tips>>
cacheVars == <<mnListsCache, hasMinedCommitmentCache, minable>>
threadVars == <<reader, message>>
vars == <<dbVars, chainVars, cacheVars, work, threadVars>>

\* The keys of the database.
MinedKey(q) == <<"q_mc", q>>
HeightKey(h) == <<"q_mcih", h>>
DiffKey(b) == <<"dmn_D", b>>
SnapshotKey(b) == <<"dmn_S", b>>
BestKey == <<"b_b2">>

Idle == [op |-> "idle", block |-> None]

BlockOrNone == Blocks \cup {None}

\* CDeterministicMNList: the masternodes and the height, -1 when there is no
\* list for the block.
EmptyList == [mns |-> {}, nHeight |-> -1]

-----------------------------------------------------------------------------
\* CDeterministicMNManager

\* Where the loop of GetListForBlock stops.
Stops(cache, db, b) ==
  \/ cache[b] # None
  \/ db[SnapshotKey(b)] # None
  \/ db[DiffKey(b)] = None

\* The ancestor it stops at, coming from b.
Base(cache, db, b) ==
  CHOOSE a \in ChainOf[b] :
    /\ Stops(cache, db, a)
    /\ \A c \in ChainOf[b] : Stops(cache, db, c) => Height[c] <= Height[a]

\* The list of that ancestor.
BaseList(cache, db, a) ==
  IF cache[a] # None THEN cache[a]
  ELSE IF db[SnapshotKey(a)] # None THEN db[SnapshotKey(a)].list
  ELSE EmptyList

\* BuildDiff, ApplyDiff and the branch of GetListForBlock for an empty diff.
BuildDiff(from, to) == [added |-> to.mns \ from.mns, removed |-> from.mns \ to.mns]
HasChanges(diff) == diff.added # {} \/ diff.removed # {}
ApplyDiff(list, b, diff) ==
  [mns |-> (list.mns \ diff.removed) \cup diff.added, nHeight |-> Height[b]]

\* The lists that GetListForBlock(b) computes on its way to b.
ListsTo(cache, db, b) ==
  LET base == Base(cache, db, b)
      list[c \in {c \in ChainOf[b] : Height[c] >= Height[base]}] ==
        IF c = base THEN BaseList(cache, db, c)
        ELSE ApplyDiff(list[Parent[c]], c, db[DiffKey(c)])
  IN  list

\* GetListForBlock: the list, and the cache with every list on the way.
GetListForBlock(cache, db, b) == ListsTo(cache, db, b)[b]
Cached(cache, db, b) ==
  LET lists == ListsTo(cache, db, b)
  IN  [c \in Blocks |-> IF cache[c] = None /\ c \in DOMAIN lists THEN lists[c] ELSE cache[c]]

\* BuildNewListFromBlock
BuildNewListFromBlock(list, b) ==
  [mns |-> (list.mns \cup Added[b]) \ Removed[b], nHeight |-> Height[b]]

\* What ProcessBlock writes: the diff, and once per period the whole list.
ListWrites(cache, db, b) ==
  LET old == GetListForBlock(cache, db, Parent[b])
      new == BuildNewListFromBlock(old, b)
      keys == {DiffKey(b)} \cup (IF Height[b] % SNAPSHOT_LIST_PERIOD = 0 \/ old.nHeight = -1
                                 THEN {SnapshotKey(b)} ELSE {})
  IN  [k \in keys |-> IF k = DiffKey(b) THEN BuildDiff(old, new) ELSE [list |-> new]]

\* Variant: a list without a height is not dropped.
CleanupFoundOnly(cache, h) ==
  [b \in Blocks |-> IF cache[b] # None /\ cache[b] # EmptyList
                       /\ cache[b].nHeight + LISTS_CACHE_SIZE < h
                    THEN None ELSE cache[b]]

\* CleanupCache
CleanupCache(cache, h) ==
  [b \in Blocks |-> IF cache[b] # None /\ cache[b].nHeight + LISTS_CACHE_SIZE < h
                    THEN None ELSE cache[b]]

-----------------------------------------------------------------------------
\* CQuorumBlockProcessor

\* GetQuorumBlockHash, for the block that is about to follow the tip.
QuorumOf(b) ==
  LET start == Height[b] - (Height[b] % dkgInterval)
  IN  IF start > Height[Parent[b]] THEN None
      ELSE CHOOSE q \in ChainOf[Parent[b]] : Height[q] = start

IsMiningPhase(h) ==
  h % dkgInterval >= dkgMiningWindowStart /\ h % dkgInterval <= dkgMiningWindowEnd

\* HasMinedCommitment, as the thread that holds cs_main runs it: the answer,
\* and the cache after it.
HasMinedCommitment(cache, db, q) ==
  IF cache[q] # None THEN cache[q] ELSE db[MinedKey(q)] # None
WithAnswer(cache, db, q) ==
  IF q = None \/ cache[q] # None THEN cache
  ELSE [cache EXCEPT ![q] = db[MinedKey(q)] # None]

IsCommitmentRequired(cache, db, b) ==
  /\ QuorumOf(b) # None
  /\ IsMiningPhase(Height[b])
  /\ ~HasMinedCommitment(cache, db, QuorumOf(b))

\* The masternode list that the blocks up to b make, whatever is stored.
ListAfter(b) ==
  LET list[c \in ChainOf[b]] ==
        IF c = Genesis THEN EmptyList ELSE BuildNewListFromBlock(list[Parent[c]], c)
  IN  list[b]

\* CFinalCommitment::Verify: the commitment is checked against the members
\* that the list of its quorum's block gives, and it was made by the right ones.
Verify(cache, db, c) ==
  GetListForBlock(cache, db, QcQuorum[c]).mns = ListAfter(QcQuorum[c]).mns

\* CheckLLMQCommitment: the quorum is in the chain the block extends.
CheckLLMQCommitment(cache, db, b) ==
  Qc[b] \in Commitments =>
    QcQuorum[Qc[b]] \in ChainOf[Parent[b]] /\ Verify(cache, db, Qc[b])

\* CQuorumBlockProcessor::ProcessBlock and ProcessCommitment accept the block:
\* there is a (possibly null) commitment exactly when one is required, and it is
\* for the current quorum.
QcAccepted(cache, db, b) ==
  /\ (Qc[b] # None) = IsCommitmentRequired(cache, db, b)
  /\ Qc[b] \in Commitments => QcQuorum[Qc[b]] = QuorumOf(b)

\* Variant: the block that mined the commitment is not stored with it.
QcWithoutBlock(b) ==
  IF Qc[b] \notin Commitments THEN <<>>
  ELSE [k \in {MinedKey(QuorumOf(b)), HeightKey(Height[b])} |->
          IF k = HeightKey(Height[b]) THEN [height |-> Height[QuorumOf(b)]] ELSE [qc |-> Qc[b]]]

\* What ProcessCommitment writes.
QcWrites(b) ==
  IF Qc[b] \notin Commitments THEN <<>>
  ELSE [k \in {MinedKey(QuorumOf(b)), HeightKey(Height[b])} |->
          IF k = HeightKey(Height[b]) THEN [height |-> Height[QuorumOf(b)]]
          ELSE [qc |-> Qc[b], minedIn |-> b]]

\* The writes of f, then those of g for the keys that f leaves alone.
WritesOf(f, g) ==
  [k \in DOMAIN f \cup DOMAIN g |-> IF k \in DOMAIN f THEN f[k] ELSE g[k]]

\* What WriteBestBlock writes.
BestWrite(b) == [k \in {BestKey} |-> [best |-> b]]

\* AddMinableCommitment: the one with more signers wins.
AddMinableCommitment(known, c) ==
  IF known[QcQuorum[c]] = None \/ Signers[c] > Signers[known[QcQuorum[c]]]
  THEN [known EXCEPT ![QcQuorum[c]] = c] ELSE known

-----------------------------------------------------------------------------
\* The thread that holds cs_main

\* VerifyBestBlock.  Its assertion ends the process when it fails.
VerifyBestBlock(b) == CurView[BestKey] = [best |-> b]

\* ConnectTip, up to ConnectBlock, and TestBlockValidity of a block template.
BeginConnect(b, op) ==
  /\ work = Idle
  /\ op \in {"connect", "check"}
  /\ b # Genesis /\ Parent[b] = tip
  /\ VerifyBestBlock(tip)
  /\ BeginTransaction
  /\ work' = [op |-> op, block |-> b]
  /\ UNCHANGED <<chainVars, cacheVars, threadVars>>

\* The lists that the checks of the block's transactions ask for.
AskedLists(b) ==
  LET quorum == IF Qc[b] \in Commitments THEN Cached(mnListsCache, CurView, QcQuorum[Qc[b]])
                ELSE mnListsCache
  IN  IF Added[b] = {} THEN quorum ELSE Cached(quorum, CurView, Parent[b])

\* ConnectBlock refuses the block in CheckSpecialTx.
RefuseCommitment ==
  /\ work.op \in {"connect", "check"}
  /\ ~CheckLLMQCommitment(mnListsCache, CurView, work.block)
  /\ mnListsCache' = AskedLists(work.block)
  /\ work' = [work EXCEPT !.op = IF @ = "connect" THEN "refused" ELSE "checked"]
  /\ UNCHANGED <<dbVars, chainVars, threadVars, hasMinedCommitmentCache, minable>>

\* ConnectBlock refuses the block in CQuorumBlockProcessor::ProcessBlock.
RefuseBlock ==
  LET b == work.block IN
  /\ work.op \in {"connect", "check"}
  /\ CheckLLMQCommitment(mnListsCache, CurView, b)
  /\ ~QcAccepted(hasMinedCommitmentCache, CurView, b)
  /\ hasMinedCommitmentCache' = WithAnswer(hasMinedCommitmentCache, CurView, QuorumOf(b))
  /\ mnListsCache' = AskedLists(b)
  /\ work' = [work EXCEPT !.op = IF @ = "connect" THEN "refused" ELSE "checked"]
  /\ UNCHANGED <<dbVars, chainVars, threadVars, minable>>

\* What is left in hasMinedCommitmentCache by ProcessBlock: ProcessCommitment
\* drops the answer for the quorum whose commitment it wrote.
MinedCacheAfter(b) ==
  IF Qc[b] \in Commitments THEN [hasMinedCommitmentCache EXCEPT ![QuorumOf(b)] = None]
  ELSE WithAnswer(hasMinedCommitmentCache, CurView, QuorumOf(b))

\* ConnectBlock with fJustCheck: the commitment is written, the list is not.
CheckBlock ==
  LET b == work.block IN
  /\ work.op = "check"
  /\ CheckLLMQCommitment(mnListsCache, CurView, b)
  /\ QcAccepted(hasMinedCommitmentCache, CurView, b)
  /\ Change(QcWrites(b), {})
  /\ hasMinedCommitmentCache' = MinedCacheAfter(b)
  /\ mnListsCache' = Cached(AskedLists(b), CurView, Parent[b])
  /\ work' = [work EXCEPT !.op = "checked"]
  /\ UNCHANGED <<chainVars, threadVars, minable>>

\* ConnectBlock writes the commitment, the list and, when the checks that
\* follow pass, the best block.
ConnectBlock ==
  LET b == work.block
      cache == Cached(AskedLists(b), CurView, Parent[b])
      writes == WritesOf(QcWrites(b), ListWrites(cache, CurView, b))
  IN
  /\ work.op = "connect"
  /\ CheckLLMQCommitment(mnListsCache, CurView, b)
  /\ QcAccepted(hasMinedCommitmentCache, CurView, b)
  /\ IF b \in BadBlocks
     THEN Change(writes, {}) /\ work' = [work EXCEPT !.op = "refused"]
     ELSE Change(WritesOf(writes, BestWrite(b)), {}) /\ work' = [work EXCEPT !.op = "connected"]
  /\ hasMinedCommitmentCache' = MinedCacheAfter(b)
  /\ mnListsCache' = CleanupCache(cache, Height[b])
  /\ UNCHANGED <<chainVars, threadVars, minable>>

\* Variant: what the refused block wrote is committed.
GiveUpCommits ==
  /\ work.op = "refused"
  /\ CommitTransaction
  /\ work' = Idle
  /\ UNCHANGED <<chainVars, cacheVars, threadVars>>

\* ConnectTip after a failed ConnectBlock.
GiveUpConnect ==
  /\ work.op = "refused"
  /\ Rollback
  /\ work' = Idle
  /\ UNCHANGED <<chainVars, cacheVars, threadVars>>

\* The end of TestBlockValidity: "begin tx and let it rollback".
EndCheck ==
  /\ work.op = "checked"
  /\ Rollback
  /\ work' = Idle
  /\ UNCHANGED <<chainVars, cacheVars, threadVars>>

\* The rest of ConnectTip.
EndConnect ==
  /\ work.op = "connected"
  /\ CommitTransaction
  /\ tip' = work.block
  /\ tips' = tips \cup {work.block}
  /\ work' = Idle
  /\ UNCHANGED <<coinsDisk, cacheVars, threadVars>>

\* DisconnectTip, up to DisconnectBlock.
BeginDisconnect ==
  /\ work = Idle
  /\ tip # Genesis
  /\ VerifyBestBlock(tip)
  /\ BeginTransaction
  /\ work' = [op |-> "disconnect", block |-> tip]
  /\ UNCHANGED <<chainVars, cacheVars, threadVars>>

\* DisconnectBlock: UndoBlock of the two managers, and the best block.
DisconnectBlock ==
  LET b == work.block
      diff == CurView[DiffKey(b)]
      cache == IF HasChanges(diff)
               THEN Cached(Cached(mnListsCache, CurView, b), CurView, Parent[b])
               ELSE mnListsCache
      mined == Qc[b] \in Commitments
  IN
  /\ work.op = "disconnect"
  /\ Change(BestWrite(Parent[b]),
            {DiffKey(b), SnapshotKey(b)}
              \cup (IF mined THEN {MinedKey(QcQuorum[Qc[b]]), HeightKey(Height[b])} ELSE {}))
  /\ mnListsCache' = [cache EXCEPT ![b] = None]
  /\ IF mined
     THEN /\ hasMinedCommitmentCache' = [hasMinedCommitmentCache EXCEPT ![QcQuorum[Qc[b]]] = None]
          /\ minable' = AddMinableCommitment(minable, Qc[b])
     ELSE UNCHANGED <<hasMinedCommitmentCache, minable>>
  /\ work' = [work EXCEPT !.op = "disconnected"]
  /\ UNCHANGED <<chainVars, threadVars>>

\* The rest of DisconnectTip.
EndDisconnect ==
  /\ work.op = "disconnected"
  /\ CommitTransaction
  /\ tip' = Parent[work.block]
  /\ tips' = tips \cup {tip'}
  /\ work' = Idle
  /\ UNCHANGED <<coinsDisk, cacheVars, threadVars>>

\* FlushStateToDisk writes the coins, and then the database.
FlushCoins ==
  /\ work = Idle
  /\ coinsDisk' = tip
  /\ work' = [op |-> "flush", block |-> None]
  /\ UNCHANGED <<dbVars, tip, tips, cacheVars, threadVars>>

FlushEvoDB ==
  /\ work.op = "flush"
  /\ CommitRootTransaction
  /\ work' = Idle
  /\ UNCHANGED <<chainVars, cacheVars, threadVars>>

\* The process ends and a new one loads what is on disk.
CrashRestart ==
  /\ Crash
  /\ tip' = coinsDisk
  /\ tips' = {coinsDisk}
  /\ mnListsCache' = [b \in Blocks |-> None]
  /\ hasMinedCommitmentCache' = [b \in Blocks |-> None]
  /\ minable' = [b \in Blocks |-> None]
  /\ work' = Idle
  /\ reader' = [pc |-> "idle", quorum |-> None, ret |-> FALSE]
  /\ message' = None
  /\ UNCHANGED coinsDisk

-----------------------------------------------------------------------------
\* The threads that do not hold cs_main

Busy == (IF reader.pc = "idle" THEN 0 ELSE 1) + (IF message = None THEN 0 ELSE 1)

\* GetListAtChainTip.  UpdatedBlockTip sets tipIndex without cs_main, when the
\* chain may have gone on, or back: tipIndex is a block that was the tip.
GetListAtChainTip(b) ==
  /\ b \in tips
  /\ mnListsCache' = Cached(mnListsCache, CurView, b)
  /\ UNCHANGED <<dbVars, chainVars, work, threadVars, hasMinedCommitmentCache, minable>>

\* HasMinedCommitment outside cs_main: the answer is not in the cache, ...
ReaderLookup(q) ==
  /\ reader.pc = "idle" /\ Busy < MaxBusy
  /\ hasMinedCommitmentCache[q] = None
  /\ reader' = [pc |-> "exists", quorum |-> q, ret |-> FALSE]
  /\ UNCHANGED <<dbVars, chainVars, cacheVars, work, message>>

\* ... is looked up in the database, ...
ReaderExists ==
  /\ reader.pc = "exists"
  /\ reader' = [reader EXCEPT !.pc = "emplace", !.ret = CurView[MinedKey(reader.quorum)] # None]
  /\ UNCHANGED <<dbVars, chainVars, cacheVars, work, message>>

\* ... and remembered, unless another thread did.
ReaderEmplace ==
  /\ reader.pc = "emplace"
  /\ hasMinedCommitmentCache' = [hasMinedCommitmentCache EXCEPT
                                   ![reader.quorum] = IF @ = None THEN reader.ret ELSE @]
  /\ reader' = [pc |-> "idle", quorum |-> None, ret |-> FALSE]
  /\ UNCHANGED <<dbVars, chainVars, work, message, mnListsCache, minable>>

\* ProcessMessage, QFCOMMITMENT, with cs_main.  A known commitment with at most
\* as many signers ends it.
ReceiveCommitment(c) ==
  LET q == QcQuorum[c] IN
  /\ work = Idle
  /\ message = None /\ Busy < MaxBusy
  /\ q \in ChainOf[tip] /\ Height[q] % dkgInterval = 0
  /\ minable[q] # None => Signers[minable[q]] > Signers[c]
  /\ message' = c
  /\ UNCHANGED <<dbVars, chainVars, cacheVars, work, reader>>

\* The rest of it, without.
VerifyMessage ==
  /\ message # None
  /\ mnListsCache' = Cached(mnListsCache, CurView, QcQuorum[message])
  /\ minable' = IF Verify(mnListsCache, CurView, message)
                THEN AddMinableCommitment(minable, message) ELSE minable
  /\ message' = None
  /\ UNCHANGED <<dbVars, chainVars, work, reader, hasMinedCommitmentCache>>

-----------------------------------------------------------------------------
\* A node that has just written Genesis to both databases.
Init ==
  /\ disk = [k \in Keys |-> IF k = BestKey THEN [best |-> Genesis] ELSE None]
  /\ root = Clean /\ cur = Clean /\ inTx = FALSE
  /\ tip = Genesis /\ coinsDisk = Genesis
  /\ tips = {Genesis}
  /\ mnListsCache = [b \in Blocks |-> None]
  /\ hasMinedCommitmentCache = [b \in Blocks |-> None]
  /\ minable = [b \in Blocks |-> None]
  /\ work = Idle
  /\ reader = [pc |-> "idle", quorum |-> None, ret |-> FALSE]
  /\ message = None

Quorums == {QcQuorum[c] : c \in Commitments}

\* The keys that are used, and the values that blocks write.
ASSUME StoredAssumption ==
  /\ BestKey \in Keys
  /\ \A q \in Quorums : MinedKey(q) \in Keys
  /\ \A b \in Blocks : DiffKey(b) \in Keys /\ SnapshotKey(b) \in Keys /\ [best |-> b] \in Values
  /\ \A b \in Blocks \ {Genesis} :
       /\ BuildDiff(ListAfter(Parent[b]), ListAfter(b)) \in Values
       /\ [list |-> ListAfter(b)] \in Values
  /\ \A b \in Blocks : Qc[b] \in Commitments =>
       /\ HeightKey(Height[b]) \in Keys
       /\ [qc |-> Qc[b], minedIn |-> b] \in Values
       /\ [height |-> Height[QcQuorum[Qc[b]]]] \in Values

Next ==
  \/ \E b \in Blocks, op \in {"connect", "check"} : BeginConnect(b, op)
  \/ RefuseCommitment
  \/ RefuseBlock
  \/ CheckBlock
  \/ ConnectBlock
  \/ GiveUpConnect
  \/ EndCheck
  \/ EndConnect
  \/ BeginDisconnect
  \/ DisconnectBlock
  \/ EndDisconnect
  \/ FlushCoins
  \/ FlushEvoDB
  \/ CrashRestart
  \/ \E b \in Blocks : GetListAtChainTip(b)
  \/ \E q \in Quorums : ReaderLookup(q)
  \/ ReaderExists
  \/ ReaderEmplace
  \/ \E c \in Commitments : ReceiveCommitment(c)
  \/ VerifyMessage

Spec == Init /\ [][Next]_vars

-----------------------------------------------------------------------------
TypeOK ==
  /\ DBTypeOK
  /\ tip \in tips /\ coinsDisk \in Blocks /\ tips \subseteq Blocks
  /\ work.block \in BlockOrNone
  /\ \A b \in Blocks : mnListsCache[b] = None \/ mnListsCache[b].nHeight \in Int
  /\ hasMinedCommitmentCache \in [Blocks -> BOOLEAN \cup {None}]
  /\ minable \in [Blocks -> Commitments \cup {None}]

\* The commitments, the list diffs and the snapshots in a view of the database
\* are those of the chain that ends in its best block.
Matches(db) ==
  LET chain == ChainOf[db[BestKey].best] IN
  /\ \A q \in Quorums :
       db[MinedKey(q)] =
         IF \E b \in chain : Qc[b] \in Commitments /\ QcQuorum[Qc[b]] = q
         THEN LET b == CHOOSE b \in chain : Qc[b] \in Commitments /\ QcQuorum[Qc[b]] = q
              IN  [qc |-> Qc[b], minedIn |-> b]
         ELSE None
  /\ \A b \in Blocks \ chain : db[DiffKey(b)] = None /\ db[SnapshotKey(b)] = None
  /\ \A b \in chain \ {Genesis} :
       /\ db[DiffKey(b)] = BuildDiff(ListAfter(Parent[b]), ListAfter(b))
       /\ db[SnapshotKey(b)] \in {None, [list |-> ListAfter(b)]}

\* Whatever is connected, disconnected, refused, checked, flushed or lost in a
\* crash, the database and the committed transactions above it each hold
\* exactly what the chain up to their best block put there.
StoreMatchesChain == Matches(disk) /\ Matches(RootView)

\* Once a block is part of the chain, every thread that asks for its masternode
\* list gets the list that the blocks up to it make, although other threads
\* fill the same cache while blocks come and go.
ListsCorrect ==
  VerifyBestBlock(tip) =>
    \A b \in ChainOf[tip] : GetListForBlock(mnListsCache, RootView, b) = ListAfter(b)

\* A block is refused for what it contains: one that has a commitment exactly
\* when the mining phase still needs one, and no other fault, never is.
RightCommitment(b) ==
  LET mined == \E c \in ChainOf[Parent[b]] :
                 Qc[c] \in Commitments /\ QcQuorum[Qc[c]] = QuorumOf(b)
  IN  /\ (Qc[b] # None) = (QuorumOf(b) # None /\ IsMiningPhase(Height[b]) /\ ~mined)
      /\ Qc[b] \in Commitments => QcQuorum[Qc[b]] = QuorumOf(b)
OnlyFaultyRefused ==
  work.op = "refused" => work.block \in BadBlocks \/ ~RightCommitment(work.block)
=============================================================================
