----------------------------- MODULE ChainLocks -----------------------------
(***************************************************************************)
(* CChainLocksHandler (llmq/quorums_chainlocks.cpp) on one masternode,     *)
(* over the block tree and the active chain of validation.cpp.             *)
(*                                                                         *)
(* Four threads meet in the handler: the message thread (CLSIG messages,   *)
(* headers and blocks), the worker of the signing manager                  *)
(* (HandleNewRecoveredSig), and the scheduler, a single thread that runs   *)
(* the queued and periodic tasks.  An action is one critical section of cs *)
(* or cs_main; what a function read before it gave the lock away is kept   *)
(* in pending, target and candidate.                                       *)
(*                                                                         *)
(* A CLSIG is identified with the block it signs: TrySignChainTip signs a  *)
(* block's hash under the block's own height, so the two "should not       *)
(* happen" height checks never fire.                                       *)
(***************************************************************************)
EXTENDS BlockTree, FiniteSets

CONSTANTS Signed,        \* the blocks the quorums will ever have signed a CLSIG for
          EnabledAt,     \* the tips at which the ChainLocks spork is on
          DIP0008Height,
          EnforcedBySpork,  \* the network is testnet
          None           \* null pointer

\* At most one CLSIG per height, which is the Agreement of module Signing.
ASSUME ChainLocksAssumption ==
  /\ None \notin Blocks \cup {"net", "sigs", "tip", "clsig", "periodic"}
  /\ Signed \subseteq Blocks \ {Genesis}
  /\ \A b, c \in Signed : Height[b] = Height[c] => b = c
  /\ EnabledAt \subseteq Blocks
  /\ DIP0008Height \in Nat
  /\ EnforcedBySpork \in BOOLEAN

BlockOrNone == Blocks \cup {None}

\* The threads that call ProcessNewChainLock.
Threads == {"net", "sigs"}

\* The tasks the scheduler runs: scheduled by UpdatedBlockTip, scheduled by
\* ProcessNewChainLock, and the periodic one of Start.
Tasks == {"tip", "clsig", "periodic"}

\* Where the scheduler thread is, inside a task.
Steps == {"idle", "enforceRead", "invalidate", "activate", "notify",
          "signRead", "signCheck", "signCommit", "finish"}

VARIABLES
  \* validation.cpp
  headers,      \* mapBlockIndex
  data,         \* blocks with BLOCK_HAVE_DATA
  failed,       \* blocks with a bit of BLOCK_FAILED_MASK
  tip,          \* chainActive.Tip()
  \* CChainLocksHandler
  enabled,      \* isChainlocksEnabled
  active,       \* isChainLocksActive
  enforced,     \* isEnforced
  best,         \* bestChainLock and bestChainLockHash
  bestIndex,    \* bestChainLockBlockIndex and bestChainLockWithKnownBlock
  lastNotify,   \* lastNotifyChainLockBlockIndex
  lastSigned,   \* lastSignedHeight, lastSignedRequestId, lastSignedMsgHash
  seen,         \* seenChainLocks
  scheduled,    \* tryLockChainTipScheduled
  \* threads
  pending,      \* pending[t]: the CLSIG t is verifying in ProcessNewChainLock
  queue,        \* tasks scheduled and not yet started
  task,         \* the task the scheduler is running
  step,         \* its next critical section
  target,       \* currentBestChainLockBlockIndex of EnforceBestChainLock
  candidate     \* pindex of TrySignChainTip

chainVars == <<headers, data, failed, tip>>
stateVars == <<enabled, active, enforced>>
lockVars == <<best, bestIndex, lastNotify>>
schedVars == <<task, step, target, candidate>>
vars == <<chainVars, stateVars, lockVars, lastSigned, seen, scheduled,
          pending, queue, schedVars>>

TypeOK ==
  /\ headers \in SUBSET Blocks
  /\ data \in SUBSET Blocks
  /\ failed \in SUBSET Blocks
  /\ tip \in Blocks
  /\ enabled \in BOOLEAN /\ active \in BOOLEAN /\ enforced \in BOOLEAN
  /\ best \in BlockOrNone /\ bestIndex \in BlockOrNone /\ lastNotify \in BlockOrNone
  /\ lastSigned \in BlockOrNone
  /\ seen \in SUBSET Blocks
  /\ scheduled \in BOOLEAN
  /\ pending \in [Threads -> BlockOrNone]
  /\ queue \in SUBSET Tasks
  /\ task \in Tasks \cup {None}
  /\ step \in Steps
  /\ target \in BlockOrNone
  /\ candidate \in BlockOrNone

Init ==
  /\ headers = {Genesis} /\ data = {Genesis} /\ failed = {} /\ tip = Genesis
  /\ enabled = (Genesis \in EnabledAt) /\ active = FALSE /\ enforced = FALSE
  /\ best = None /\ bestIndex = None /\ lastNotify = None
  /\ lastSigned = None
  /\ seen = {}
  /\ scheduled = FALSE
  /\ pending = [t \in Threads |-> None]
  /\ queue = {}
  /\ task = None /\ step = "idle" /\ target = None /\ candidate = None

-----------------------------------------------------------------------------
(* The block tree and the active chain. *)

\* nHeight of a CLSIG or of lastSignedHeight: -1 when there is none.
HeightOf(b) == IF b = None THEN -1 ELSE Height[b]

\* chainActive.Contains(b), and Tip()->GetAncestor(b->nHeight) == b.
OnChain(b, t) == b \in ChainOf[t]

\* The blocks ActivateBestChain may connect: all data present, nothing failed.
Connectable(D, F) == {b \in D : ChainOf[b] \subseteq D /\ ChainOf[b] \cap F = {}}

\* FindMostWorkChain: the tip stays unless another chain has more work; ties are
\* broken by arrival, here by choice.
MostWork(D, F, t) ==
  LET cands == Connectable(D, F)
      top == {b \in cands : \A c \in cands : Height[c] <= Height[b]}
  IN  IF t \in top THEN {t} ELSE top

\* FindMostWorkChain also marks the better candidates it had to skip, from the
\* failed ancestor on.
Skipped(D, F, t) ==
  {c \in D : /\ ChainOf[c] \cap F # {}
             /\ \E b \in D : ChainOf[b] \subseteq D /\ c \in ChainOf[b] /\ Height[b] >= Height[t]}

\* UpdatedBlockTip, called for every new tip.
UpdatedBlockTip(t) ==
  /\ enabled' = (t \in EnabledAt)
  /\ scheduled' = TRUE
  /\ queue' = IF scheduled THEN queue ELSE queue \cup {"tip"}

\* ActivateBestChain and its signal.
ActivateBestChain(D, F, t) ==
  \E b \in MostWork(D, F, t) :
    /\ tip' = b
    /\ failed' = F \cup Skipped(D, F, b)
    /\ IF b = t
       THEN UNCHANGED <<enabled, scheduled, queue>>
       ELSE UpdatedBlockTip(b)

\* Variants of AcceptedBlockHeader: it stores the height, does nothing, or compares
\* heights where it should compare hashes.
StoresHeight(b) == bestIndex' = IF b = best THEN Height[b] ELSE bestIndex
IgnoresHeader(b) == bestIndex' = bestIndex
MatchesHeight(b) == bestIndex' = IF Height[b] = HeightOf(best) THEN b ELSE bestIndex

\* AcceptedBlockHeader: the header of the best CLSIG came in late.
AcceptedBlockHeader(b) == bestIndex' = IF b = best THEN b ELSE bestIndex

\* AcceptBlockHeader for a header message.
AcceptBlockHeader(b) ==
  /\ b \notin headers
  /\ Parent[b] \in headers \ failed
  /\ headers' = headers \cup {b}
  /\ AcceptedBlockHeader(b)
  /\ UNCHANGED <<data, failed, tip, stateVars, best, lastNotify, lastSigned, seen,
                 scheduled, pending, queue, schedVars>>

\* ProcessNewBlock: the header, if it is new, the data, then ActivateBestChain.
ProcessNewBlock(b) ==
  /\ b \notin data
  /\ b \in headers => b \notin failed
  /\ b \notin headers => Parent[b] \in headers \ failed
  /\ headers' = headers \cup {b}
  /\ data' = data \cup {b}
  /\ IF b \in headers THEN UNCHANGED bestIndex ELSE AcceptedBlockHeader(b)
  /\ ActivateBestChain(data', failed, tip)
  /\ UNCHANGED <<active, enforced, best, lastNotify, lastSigned, seen, pending, schedVars>>

-----------------------------------------------------------------------------
(* CLSIGs. *)

InternalHasConflictingChainLock(b) ==
  /\ enforced
  /\ bestIndex # None
  /\ Height[b] <= Height[bestIndex]
  /\ b \notin ChainOf[bestIndex]

\* seenChainLocks is not consulted.
BeginUnseen(t, b) ==
  /\ pending[t] = None
  /\ seen' = seen \cup {b}
  /\ pending' = IF best # None /\ Height[b] <= Height[best]
                THEN pending
                ELSE [pending EXCEPT ![t] = b]

\* ProcessNewChainLock up to the verification, in thread t.
BeginProcessNewChainLock(t, b) ==
  /\ pending[t] = None
  /\ b \notin seen
  /\ seen' = seen \cup {b}
  /\ pending' = IF best # None /\ Height[b] <= Height[best]
                THEN pending
                ELSE [pending EXCEPT ![t] = b]

\* ProcessMessage for CLSIG.
ReceiveClsig(b) ==
  /\ b \in Signed
  /\ enabled
  /\ BeginProcessNewChainLock("net", b)
  /\ UNCHANGED <<chainVars, stateVars, lockVars, lastSigned, scheduled, queue, schedVars>>

\* HandleNewRecoveredSig.
HandleNewRecoveredSig ==
  /\ active
  /\ lastSigned \in Signed
  /\ HeightOf(best) < Height[lastSigned]
  /\ BeginProcessNewChainLock("sigs", lastSigned)
  /\ UNCHANGED <<chainVars, stateVars, lockVars, lastSigned, scheduled, queue, schedVars>>

\* ProcessNewChainLock after the verification.
FinishProcessNewChainLock(t) ==
  /\ pending[t] # None
  /\ pending' = [pending EXCEPT ![t] = None]
  /\ \/ /\ InternalHasConflictingChainLock(pending[t])
        /\ UNCHANGED <<best, bestIndex, queue>>
     \/ /\ ~InternalHasConflictingChainLock(pending[t])
        /\ best' = pending[t]
        /\ IF pending[t] \in headers
           THEN bestIndex' = pending[t] /\ queue' = queue \cup {"clsig"}
           ELSE UNCHANGED <<bestIndex, queue>>
  /\ UNCHANGED <<chainVars, stateVars, lastNotify, lastSigned, seen, scheduled, schedVars>>

\* VerifyRecoveredSig fails for a valid CLSIG when the node is more than
\* SIGN_HEIGHT_OFFSET blocks behind; the CLSIG stays in seenChainLocks.
RejectClsig(t) ==
  /\ pending[t] # None
  /\ pending' = [pending EXCEPT ![t] = None]
  /\ UNCHANGED <<chainVars, stateVars, lockVars, lastSigned, seen, scheduled, queue, schedVars>>

-----------------------------------------------------------------------------
(* The scheduler thread. *)

\* CheckActiveState, which every task starts with.
CheckActiveState ==
  LET becomes == enabled /\ (Height[tip] >= DIP0008Height \/ EnforcedBySpork)
  IN  /\ active' = enabled
      /\ enforced' = becomes
      /\ IF ~enforced /\ becomes
         THEN best' = None /\ bestIndex' = None /\ lastNotify' = None
         ELSE UNCHANGED lockVars

StartTask(k) ==
  /\ step = "idle"
  /\ k = "periodic" \/ k \in queue
  /\ queue' = queue \ {k}
  /\ CheckActiveState
  /\ task' = k
  /\ step' = "enforceRead"
  /\ UNCHANGED <<chainVars, enabled, lastSigned, seen, scheduled, pending, target, candidate>>

\* Where a task goes on after EnforceBestChainLock.
AfterEnforce == IF task = "clsig" THEN "finish" ELSE "signRead"

\* EnforceBestChainLock, the section under cs.
EnforceRead ==
  /\ step = "enforceRead"
  /\ target' = IF enforced THEN bestIndex ELSE None
  /\ step' = IF target' = None THEN AfterEnforce ELSE "invalidate"
  /\ UNCHANGED <<chainVars, stateVars, lockVars, lastSigned, seen, scheduled,
                 pending, queue, task, candidate>>

\* The two chains are swapped, or siblings are not found.
SiblingsOfTip(b, t) ==
  {c \in headers \ {Genesis} :
     \E a \in ChainOf[t] \ ChainOf[b] : c # a /\ Parent[c] = Parent[a]}
NoSiblings(b, t) == {}

\* The known siblings of the blocks of b's chain that are not on the chain of t.
Siblings(b, t) ==
  {c \in headers \ {Genesis} :
     \E a \in ChainOf[b] \ ChainOf[t] : c # a /\ Parent[c] = Parent[a]}

\* b is the tip left when InvalidateBlock has disconnected the blocks of I.
TipWithout(I, t, b) ==
  /\ b \in ChainOf[t]
  /\ ChainOf[b] \cap I = {}
  /\ \A c \in ChainOf[t] : ChainOf[c] \cap I = {} => Height[c] <= Height[b]

\* EnforceBestChainLock, the first section under cs_main: InvalidateBlock for each
\* sibling, which marks the disconnected blocks too, and ResetBlockFailureFlags.
EnforceInvalidate ==
  /\ step = "invalidate"
  /\ LET sibs == Siblings(target, tip)
         gone == {c \in ChainOf[tip] : ChainOf[c] \cap sibs # {}}
         marked == failed \cup sibs \cup gone
     IN  /\ \E b \in ChainOf[tip] : TipWithout(sibs, tip, b) /\ tip' = b
         /\ failed' = IF target \in marked
                      THEN {c \in marked : c \notin ChainOf[target] /\ target \notin ChainOf[c]}
                      ELSE marked
         /\ IF sibs = {}
            THEN UNCHANGED <<enabled, scheduled, queue>>
            ELSE UpdatedBlockTip(tip')
         /\ step' = IF OnChain(target, tip') THEN "notify" ELSE "activate"
  /\ UNCHANGED <<headers, data, active, enforced, lockVars, lastSigned, seen,
                 pending, task, target, candidate>>

\* EnforceBestChainLock, ActivateBestChain.
EnforceActivate ==
  /\ step = "activate"
  /\ ActivateBestChain(data, failed, tip)
  /\ step' = "notify"
  /\ UNCHANGED <<headers, data, active, enforced, lockVars, lastSigned, seen,
                 pending, task, target, candidate>>

\* EnforceBestChainLock, the second section under cs_main.
EnforceNotify ==
  /\ step = "notify"
  /\ lastNotify' = IF OnChain(target, tip) THEN target ELSE lastNotify
  /\ target' = None
  /\ step' = AfterEnforce
  /\ UNCHANGED <<chainVars, stateVars, best, bestIndex, lastSigned, seen, scheduled,
                 pending, queue, task, candidate>>

\* TrySignChainTip: Cleanup, which forgets CLSIGs seen CLEANUP_SEEN_TIMEOUT ago
\* (a day: none that is still being verified), and the tip under cs_main.
SignRead ==
  /\ step = "signRead"
  /\ \/ seen' = seen
     \/ \E b \in seen \ {pending[t] : t \in Threads} : seen' = seen \ {b}
  /\ candidate' = IF tip = Genesis THEN None ELSE tip
  /\ step' = IF tip = Genesis THEN "finish" ELSE "signCheck"
  /\ UNCHANGED <<chainVars, stateVars, lockVars, lastSigned, scheduled, pending,
                 queue, task, target>>

\* TrySignChainTip, the checks under cs.
SignCheck ==
  /\ step = "signCheck"
  /\ LET sign == /\ active
                 /\ Height[candidate] # HeightOf(lastSigned)
                 /\ HeightOf(best) < Height[candidate]
                 /\ ~InternalHasConflictingChainLock(candidate)
     IN  /\ step' = IF sign THEN "signCommit" ELSE "finish"
         /\ candidate' = IF sign THEN candidate ELSE None
  /\ UNCHANGED <<chainVars, stateVars, lockVars, lastSigned, seen, scheduled, pending,
                 queue, task, target>>

\* TrySignChainTip from the walk over the last blocks on.  Whether every
\* transaction is safe depends on times and InstantSend locks and is left open.
SignCommit ==
  /\ step = "signCommit"
  /\ \/ UNCHANGED lastSigned
     \/ /\ HeightOf(best) < Height[candidate]
        /\ lastSigned' = candidate
  /\ candidate' = None
  /\ step' = "finish"
  /\ UNCHANGED <<chainVars, stateVars, lockVars, seen, scheduled, pending, queue,
                 task, target>>

\* Every task resets the flag.
FinishAnyTask ==
  /\ step = "finish"
  /\ scheduled' = FALSE
  /\ task' = None
  /\ step' = "idle"
  /\ UNCHANGED <<chainVars, stateVars, lockVars, lastSigned, seen, pending, queue,
                 target, candidate>>

\* The end of a task; the one of UpdatedBlockTip resets the flag.
FinishTask ==
  /\ step = "finish"
  /\ scheduled' = IF task = "tip" THEN FALSE ELSE scheduled
  /\ task' = None
  /\ step' = "idle"
  /\ UNCHANGED <<chainVars, stateVars, lockVars, lastSigned, seen, pending, queue,
                 target, candidate>>

-----------------------------------------------------------------------------
Network ==
  \/ \E b \in Blocks \ {Genesis} : AcceptBlockHeader(b) \/ ProcessNewBlock(b)
  \/ \E b \in Signed : ReceiveClsig(b)
  \/ HandleNewRecoveredSig

Process(t) == FinishProcessNewChainLock(t) \/ RejectClsig(t)

Enforce == EnforceRead \/ EnforceInvalidate \/ EnforceActivate \/ EnforceNotify

TrySignChainTip == SignRead \/ SignCheck \/ SignCommit

Scheduler ==
  \/ \E k \in Tasks : StartTask(k)
  \/ Enforce
  \/ TrySignChainTip
  \/ FinishTask

Next ==
  \/ Network
  \/ \E t \in Threads : Process(t)
  \/ Scheduler

Spec == Init /\ [][Next]_vars

\* The scheduler thread and the threads that verify a CLSIG do not stop; the
\* periodic task is due every five seconds.
Fairness ==
  /\ WF_vars(Scheduler)
  /\ \A t \in Threads : WF_vars(Process(t))

FairSpec == Spec /\ Fairness

-----------------------------------------------------------------------------
(* Properties. *)

\* The quorums have signed blocks of one chain only.
SingleChain == \A b, c \in Signed : b \in ChainOf[c] \/ c \in ChainOf[b]

\* When the header of the best CLSIG is known the handler points to it, whether
\* the CLSIG or the header came first and whatever ran in between
\* (ProcessNewChainLock, AcceptedBlockHeader, CheckActiveState).
HeaderNeverMissed == best # None /\ best \in headers => bestIndex = best

\* What the handler enforces is a block with a CLSIG and a known header, on the
\* scheduler's stack too, where it may be outdated (EnforceBestChainLock).
EnforcesOnlySigned == {bestIndex, target} \ {None} \subseteq Signed \cap headers

\* Enforcing never marks a block of the locked chain as failed, nor leaves one
\* marked by the invalidation of its siblings (EnforceBestChainLock).
LockedNeverFailed ==
  SingleChain => \A b \in Signed : ChainOf[b] \cap failed = {}

\* tryLockChainTipScheduled is set exactly while the task that resets it is
\* queued or running: the flag never blocks scheduling for ever (UpdatedBlockTip).
ScheduledTaskExists == scheduled <=> "tip" \in queue \/ task = "tip"

\* The two threads never process the same CLSIG at once (seenChainLocks).
ProcessedOnce == pending["net"] = pending["sigs"] => pending["net"] = None

\* The inductive invariant behind the properties above, in parts.

\* Only signed blocks are taken as CLSIGs, and those being verified are seen.
ClsigsSigned ==
  /\ best # None => best \in Signed
  /\ \A t \in Threads : pending[t] # None => pending[t] \in Signed \cap seen

\* The scheduler runs one task at a time, and the task of UpdatedBlockTip is never
\* both running and queued.
SchedulerExclusive ==
  /\ task = None <=> step = "idle"
  /\ ~("tip" \in queue /\ task = "tip")
  /\ step \in {"invalidate", "activate", "notify"} => target # None
  /\ step \in {"signCheck", "signCommit"} => candidate # None

IndInv ==
  /\ TypeOK
  /\ ClsigsSigned
  /\ SchedulerExclusive
  /\ HeaderNeverMissed
  /\ EnforcesOnlySigned
  /\ LockedNeverFailed
  /\ ScheduledTaskExists
  /\ ProcessedOnce

\* A chain that stays locked and enforced, and whose blocks are known, becomes
\* active for good, whichever blocks arrive (EnforceBestChainLock).
LockedChainActivates ==
  SingleChain =>
    \A b \in Signed :
      <>[](enforced /\ bestIndex = b /\ ChainOf[b] \subseteq data) => <>[]OnChain(b, tip)
=============================================================================
