-------------------------- MODULE ChainLocksProofs --------------------------
(***************************************************************************)
(* Proofs about ChainLocks for every block tree, every set of signed       *)
(* blocks and every spork schedule.                                        *)
(***************************************************************************)
EXTENDS ChainLocks, TLAPS

USE DEF BlockOrNone

-----------------------------------------------------------------------------
(* Type correctness. *)

\* The signal of a new tip keeps the types.
LEMMA UpdatedBlockTipTyped ==
  ASSUME TypeOK, NEW t,
         UpdatedBlockTip(t) \/ UNCHANGED <<enabled, scheduled, queue>>
  PROVE  enabled' \in BOOLEAN /\ scheduled' \in BOOLEAN /\ queue' \in SUBSET Tasks
<1>1. CASE UNCHANGED <<enabled, scheduled, queue>>
  BY <1>1 DEF TypeOK
<1>2. CASE UpdatedBlockTip(t)
  <2>1. enabled' = (t \in EnabledAt)
    BY <1>2 DEF UpdatedBlockTip
  <2>2. scheduled' = TRUE /\ queue' \in {queue, queue \cup {"tip"}}
    BY <1>2 DEF UpdatedBlockTip
  <2>3. queue' \in SUBSET Tasks
    BY <2>2 DEF TypeOK, Tasks
  <2> QED
    BY <2>1, <2>2, <2>3
<1> QED
  BY <1>1, <1>2

\* What validation.cpp does to the chain, seen from its callers, keeps the types.
LEMMA ActivateBestChainTyped ==
  ASSUME TypeOK, NEW D \in SUBSET Blocks, ActivateBestChain(D, failed, tip)
  PROVE  /\ failed' \in SUBSET Blocks
         /\ tip' \in Blocks
         /\ enabled' \in BOOLEAN
         /\ scheduled' \in BOOLEAN
         /\ queue' \in SUBSET Tasks
<1>1. PICK b \in MostWork(D, failed, tip) :
        /\ tip' = b
        /\ failed' = failed \cup Skipped(D, failed, b)
        /\ IF b = tip THEN UNCHANGED <<enabled, scheduled, queue>> ELSE UpdatedBlockTip(b)
  BY DEF ActivateBestChain
<1>2. b \in Blocks
  BY DEF MostWork, Connectable, TypeOK
<1>3. Skipped(D, failed, b) \subseteq Blocks
  BY DEF Skipped
<1>4. /\ enabled' \in BOOLEAN
      /\ scheduled' \in BOOLEAN
      /\ queue' \in SUBSET Tasks
  BY <1>1, UpdatedBlockTipTyped
<1> QED
  BY <1>1, <1>2, <1>3, <1>4 DEF TypeOK

\* Every action keeps the type invariant.
LEMMA TypeStep == TypeOK /\ [Next]_vars => TypeOK'
<1> SUFFICES ASSUME TypeOK, [Next]_vars PROVE TypeOK'
  OBVIOUS
<1> USE DEF Threads, Tasks, Steps, chainVars, stateVars, lockVars, schedVars
<1>1. ASSUME NEW b \in Blocks \ {Genesis}, AcceptBlockHeader(b) PROVE TypeOK'
  BY <1>1 DEF AcceptBlockHeader, AcceptedBlockHeader, TypeOK
<1>2. ASSUME NEW b \in Blocks \ {Genesis}, ProcessNewBlock(b) PROVE TypeOK'
  <2>1. data' \in SUBSET Blocks /\ headers' \in SUBSET Blocks /\ bestIndex' \in BlockOrNone
    BY <1>2 DEF ProcessNewBlock, AcceptedBlockHeader, TypeOK
  <2>2. ActivateBestChain(data', failed, tip)
    BY <1>2 DEF ProcessNewBlock
  <2>3. UNCHANGED <<active, enforced, best, lastNotify, lastSigned, seen, pending, schedVars>>
    BY <1>2 DEF ProcessNewBlock
  <2> QED
    BY <2>1, <2>2, <2>3, ActivateBestChainTyped DEF TypeOK
<1>3. ASSUME NEW b \in Signed, ReceiveClsig(b) PROVE TypeOK'
  BY <1>3, ChainLocksAssumption DEF ReceiveClsig, BeginProcessNewChainLock, TypeOK
<1>4. ASSUME HandleNewRecoveredSig PROVE TypeOK'
  BY <1>4, ChainLocksAssumption DEF HandleNewRecoveredSig, BeginProcessNewChainLock, TypeOK
<1>5. ASSUME NEW t \in Threads, FinishProcessNewChainLock(t) PROVE TypeOK'
  <2>1. pending' = [pending EXCEPT ![t] = None] /\ pending[t] \in BlockOrNone
    BY <1>5 DEF FinishProcessNewChainLock, TypeOK
  <2>2. pending' \in [Threads -> BlockOrNone]
    BY <2>1 DEF TypeOK
  <2>3. best' \in BlockOrNone /\ bestIndex' \in BlockOrNone /\ queue' \in SUBSET Tasks
    BY <1>5, <2>1 DEF FinishProcessNewChainLock, TypeOK
  <2> QED
    BY <1>5, <2>2, <2>3 DEF FinishProcessNewChainLock, TypeOK
<1>6. ASSUME NEW t \in Threads, RejectClsig(t) PROVE TypeOK'
  BY <1>6 DEF RejectClsig, TypeOK
<1>7. ASSUME NEW k \in Tasks, StartTask(k) PROVE TypeOK'
  <2>1. active' \in BOOLEAN /\ enforced' \in BOOLEAN
    <3>1. active' = enabled
      BY <1>7 DEF StartTask, CheckActiveState
    <3>2. enforced' = (enabled /\ (Height[tip] >= DIP0008Height \/ EnforcedBySpork))
      BY <1>7 DEF StartTask, CheckActiveState
    <3> QED
      BY <3>1, <3>2 DEF TypeOK
  <2>2. best' \in BlockOrNone /\ bestIndex' \in BlockOrNone /\ lastNotify' \in BlockOrNone
    BY <1>7 DEF StartTask, CheckActiveState, TypeOK
  <2> QED
    BY <1>7, <2>1, <2>2 DEF StartTask, TypeOK
<1>8. ASSUME EnforceRead PROVE TypeOK'
  BY <1>8 DEF EnforceRead, AfterEnforce, TypeOK
<1>9. ASSUME EnforceInvalidate PROVE TypeOK'
  <2>1. tip' \in Blocks
    BY <1>9, BlockTreeAssumption DEF EnforceInvalidate, TypeOK
  <2>2. failed' \in SUBSET Blocks
    BY <1>9, BlockTreeAssumption DEF EnforceInvalidate, Siblings, TypeOK
  <2>3. enabled' \in BOOLEAN /\ scheduled' \in BOOLEAN /\ queue' \in SUBSET Tasks
    BY <1>9, UpdatedBlockTipTyped DEF EnforceInvalidate
  <2>4. step' \in Steps
    BY <1>9 DEF EnforceInvalidate
  <2> QED
    BY <1>9, <2>1, <2>2, <2>3, <2>4 DEF EnforceInvalidate, TypeOK
<1>10. ASSUME EnforceActivate PROVE TypeOK'
  BY <1>10, ActivateBestChainTyped DEF EnforceActivate, TypeOK
<1>11. ASSUME EnforceNotify PROVE TypeOK'
  BY <1>11 DEF EnforceNotify, AfterEnforce, TypeOK
<1>12. ASSUME SignRead PROVE TypeOK'
  BY <1>12 DEF SignRead, TypeOK
<1>13. ASSUME SignCheck PROVE TypeOK'
  BY <1>13 DEF SignCheck, TypeOK
<1>14. ASSUME SignCommit PROVE TypeOK'
  BY <1>14 DEF SignCommit, TypeOK
<1>15. ASSUME FinishTask PROVE TypeOK'
  BY <1>15 DEF FinishTask, TypeOK
<1>16. ASSUME UNCHANGED vars PROVE TypeOK'
  BY <1>16 DEF vars, TypeOK
<1> QED
  BY <1>1, <1>2, <1>3, <1>4, <1>5, <1>6, <1>7, <1>8, <1>9, <1>10, <1>11, <1>12, <1>13,
     <1>14, <1>15, <1>16
  DEF Next, Network, Process, Scheduler, Enforce, TrySignChainTip

\* The handler starts well typed.
LEMMA InitTyped == Init => TypeOK
<1> SUFFICES ASSUME Init PROVE TypeOK
  OBVIOUS
<1>1. enabled = (Genesis \in EnabledAt)
  BY DEF Init
<1>2. enabled \in BOOLEAN
  BY <1>1
<1> QED
  BY <1>2, BlockTreeAssumption DEF Init, TypeOK, Threads, Tasks, Steps

\* TypeOK holds in every reachable state of the handler.
THEOREM TypeCorrect == Spec => []TypeOK
  BY InitTyped, TypeStep, PTL DEF Spec

-----------------------------------------------------------------------------
(* The inductive invariant, one lemma for each of its parts. *)

\* CLSIGs under verification and the best one are signed blocks
\* (ProcessNewChainLock is the only way in).
LEMMA ClsigsStep == TypeOK /\ ClsigsSigned /\ [Next]_vars => ClsigsSigned'
<1> SUFFICES ASSUME TypeOK, ClsigsSigned, [Next]_vars PROVE ClsigsSigned'
  OBVIOUS
<1> USE DEF Threads, ClsigsSigned
<1>1. ASSUME NEW t \in Threads, NEW b \in Signed, BeginProcessNewChainLock(t, b),
             UNCHANGED best
      PROVE  ClsigsSigned'
  BY <1>1 DEF BeginProcessNewChainLock, TypeOK
<1>2. ASSUME NEW t \in Threads, FinishProcessNewChainLock(t) PROVE ClsigsSigned'
  BY <1>2 DEF FinishProcessNewChainLock, TypeOK
<1>3. ASSUME NEW t \in Threads, RejectClsig(t) PROVE ClsigsSigned'
  BY <1>3 DEF RejectClsig, TypeOK, lockVars
<1>4. ASSUME NEW k \in Tasks, StartTask(k) PROVE ClsigsSigned'
  BY <1>4 DEF StartTask, CheckActiveState, lockVars
<1>5. ASSUME SignRead PROVE ClsigsSigned'
  BY <1>5 DEF SignRead, lockVars
<1>6. ASSUME UNCHANGED <<best, pending, seen>> PROVE ClsigsSigned'
  BY <1>6
<1>7. ASSUME NEW b \in Signed, ReceiveClsig(b) PROVE ClsigsSigned'
  BY <1>1, <1>7 DEF ReceiveClsig, lockVars
<1>8. ASSUME HandleNewRecoveredSig PROVE ClsigsSigned'
  BY <1>1, <1>8 DEF HandleNewRecoveredSig, lockVars
<1> QED
  BY <1>2, <1>3, <1>4, <1>5, <1>6, <1>7, <1>8
  DEF Next, Network, Process, Scheduler, Enforce, TrySignChainTip, vars, lockVars,
      AcceptBlockHeader, ProcessNewBlock, EnforceRead, EnforceInvalidate, EnforceActivate,
      EnforceNotify, SignCheck, SignCommit, FinishTask

\* The scheduler thread runs one task at a time, and UpdatedBlockTip, which may
\* interrupt it anywhere, never queues its task a second time.
LEMMA SchedulerStep ==
  TypeOK /\ SchedulerExclusive /\ ScheduledTaskExists /\ [Next]_vars
    => SchedulerExclusive' /\ ScheduledTaskExists'
<1> SUFFICES ASSUME TypeOK, SchedulerExclusive, ScheduledTaskExists, [Next]_vars
             PROVE  SchedulerExclusive' /\ ScheduledTaskExists'
  OBVIOUS
<1> DEFINE Goal == SchedulerExclusive' /\ ScheduledTaskExists'
<1> USE DEF SchedulerExclusive, ScheduledTaskExists, schedVars
<1>1. ASSUME NEW t, UpdatedBlockTip(t), UNCHANGED task
      PROVE  ScheduledTaskExists' /\ ~("tip" \in queue' /\ task' = "tip")
  BY <1>1 DEF UpdatedBlockTip, TypeOK
<1>2. ASSUME NEW D, NEW F, NEW t, ActivateBestChain(D, F, t), UNCHANGED task
      PROVE  ScheduledTaskExists' /\ ~("tip" \in queue' /\ task' = "tip")
  BY <1>1, <1>2 DEF ActivateBestChain
<1>3. ASSUME NEW b \in Blocks, ProcessNewBlock(b) PROVE Goal
  BY <1>2, <1>3 DEF ProcessNewBlock
<1>4. ASSUME NEW t \in Threads, FinishProcessNewChainLock(t) PROVE Goal
  BY <1>4 DEF FinishProcessNewChainLock
<1>5. ASSUME NEW k \in Tasks, StartTask(k) PROVE Goal
  BY <1>5, ChainLocksAssumption DEF StartTask, Tasks, TypeOK
<1>6. ASSUME EnforceRead PROVE Goal
  BY <1>6 DEF EnforceRead, AfterEnforce
<1>7. ASSUME EnforceInvalidate PROVE Goal
  <2>1. ScheduledTaskExists' /\ ~("tip" \in queue' /\ task' = "tip")
    BY <1>1, <1>7 DEF EnforceInvalidate
  <2> QED
    BY <1>7, <2>1 DEF EnforceInvalidate
<1>8. ASSUME EnforceActivate PROVE Goal
  BY <1>2, <1>8 DEF EnforceActivate
<1>9. ASSUME EnforceNotify PROVE Goal
  BY <1>9 DEF EnforceNotify, AfterEnforce
<1>10. ASSUME SignRead PROVE Goal
  BY <1>10, ChainLocksAssumption DEF SignRead, TypeOK
<1>11. ASSUME SignCheck PROVE Goal
  BY <1>11 DEF SignCheck
<1>12. ASSUME SignCommit PROVE Goal
  BY <1>12 DEF SignCommit
<1>13. ASSUME FinishTask PROVE Goal
  <2>1. task' = None /\ step' = "idle" /\ UNCHANGED <<queue, target, candidate>> /\ None # "tip"
    BY <1>13, ChainLocksAssumption DEF FinishTask
  <2>2. CASE task = "tip"
    BY <1>13, <2>1, <2>2 DEF FinishTask
  <2>3. CASE task # "tip"
    <3>1. scheduled' = scheduled
      BY <1>13, <2>3 DEF FinishTask
    <3> QED
      BY <2>1, <2>3, <3>1
  <2> QED
    BY <2>2, <2>3
<1>14. ASSUME UNCHANGED <<scheduled, queue, schedVars>> PROVE Goal
  BY <1>14
<1> QED
  BY <1>3, <1>4, <1>5, <1>6, <1>7, <1>8, <1>9, <1>10, <1>11, <1>12, <1>13, <1>14
  DEF Next, Network, Process, Scheduler, Enforce, TrySignChainTip, vars,
      AcceptBlockHeader, ReceiveClsig, HandleNewRecoveredSig, RejectClsig

\* The handler points to the block of the best CLSIG as soon as both are known,
\* and to nothing else than signed blocks.
LEMMA HeaderStep ==
  TypeOK /\ ClsigsSigned /\ HeaderNeverMissed /\ EnforcesOnlySigned /\ [Next]_vars
    => HeaderNeverMissed' /\ EnforcesOnlySigned'
<1> SUFFICES ASSUME TypeOK, ClsigsSigned, HeaderNeverMissed, EnforcesOnlySigned, [Next]_vars
             PROVE  HeaderNeverMissed' /\ EnforcesOnlySigned'
  OBVIOUS
<1> DEFINE Goal == HeaderNeverMissed' /\ EnforcesOnlySigned'
<1> USE DEF HeaderNeverMissed, EnforcesOnlySigned, lockVars, chainVars, schedVars
<1>1. ASSUME NEW b \in Blocks, AcceptBlockHeader(b) PROVE Goal
  BY <1>1, ChainLocksAssumption DEF AcceptBlockHeader, AcceptedBlockHeader, ClsigsSigned
<1>2. ASSUME NEW b \in Blocks, ProcessNewBlock(b) PROVE Goal
  <2>1. /\ headers' = headers \cup {b}
        /\ UNCHANGED <<best, target>>
        /\ IF b \in headers THEN UNCHANGED bestIndex ELSE AcceptedBlockHeader(b)
    BY <1>2 DEF ProcessNewBlock
  <2> QED
    BY <2>1, ChainLocksAssumption DEF AcceptedBlockHeader, ClsigsSigned
<1>3. ASSUME NEW t \in Threads, FinishProcessNewChainLock(t) PROVE Goal
  BY <1>3 DEF FinishProcessNewChainLock, ClsigsSigned
<1>4. ASSUME NEW k \in Tasks, StartTask(k) PROVE Goal
  BY <1>4 DEF StartTask, CheckActiveState
<1>5. ASSUME EnforceRead PROVE Goal
  BY <1>5 DEF EnforceRead
<1>6. ASSUME EnforceNotify PROVE Goal
  BY <1>6 DEF EnforceNotify
<1>7. ASSUME UNCHANGED <<headers, best, bestIndex, target>> PROVE Goal
  BY <1>7
<1> QED
  BY <1>1, <1>2, <1>3, <1>4, <1>5, <1>6, <1>7
  DEF Next, Network, Process, Scheduler, Enforce, TrySignChainTip, vars, ReceiveClsig,
      HandleNewRecoveredSig, RejectClsig, EnforceInvalidate, EnforceActivate, SignRead,
      SignCheck, SignCommit, FinishTask

\* A block on the chain of a signed block has no sibling on the chain of another,
\* when the signed blocks are on one chain.
LEMMA NoSignedSibling ==
  ASSUME SingleChain, NEW s \in Signed, NEW t \in Signed,
         NEW a \in ChainOf[s], NEW c \in ChainOf[t],
         a # Genesis, c # Genesis, Parent[a] = Parent[c]
  PROVE  a = c
<1>1. s \in Blocks /\ t \in Blocks
  BY ChainLocksAssumption
<1>2. a \in Blocks /\ c \in Blocks
  BY <1>1, BlockTreeAssumption
<1>3. Height[a] = Height[c]
  BY <1>2, BlockTreeAssumption
<1>4. CASE s \in ChainOf[t]
  <2>1. a \in ChainOf[t]
    BY <1>1, <1>4, BlockTreeAssumption
  <2> QED
    BY <1>1, <1>3, <2>1, BlockTreeAssumption
<1>5. CASE t \in ChainOf[s]
  <2>1. c \in ChainOf[s]
    BY <1>1, <1>5, BlockTreeAssumption
  <2> QED
    BY <1>1, <1>3, <2>1, BlockTreeAssumption
<1> QED
  BY <1>4, <1>5 DEF SingleChain

\* EnforceBestChainLock invalidates nothing on the chain of a signed block, and
\* ActivateBestChain marks only descendants of what is failed already.
LEMMA FailedStep ==
  TypeOK /\ SchedulerExclusive /\ EnforcesOnlySigned /\ LockedNeverFailed /\ [Next]_vars
    => LockedNeverFailed'
<1> SUFFICES ASSUME TypeOK, SchedulerExclusive, EnforcesOnlySigned, LockedNeverFailed,
                    [Next]_vars, SingleChain,
                    NEW s \in Signed, NEW x \in ChainOf[s]
             PROVE  x \notin failed'
  BY DEF LockedNeverFailed
<1>1. s \in Blocks /\ x \in Blocks
  BY ChainLocksAssumption, BlockTreeAssumption
<1>2. x \in ChainOf[x] /\ ChainOf[x] \subseteq ChainOf[s]
  BY <1>1, BlockTreeAssumption
<1>3. ChainOf[s] \cap failed = {}
  BY DEF LockedNeverFailed
<1>4. ASSUME NEW D, NEW t, ActivateBestChain(D, failed, t) PROVE x \notin failed'
  <2>1. PICK b \in MostWork(D, failed, t) : failed' = failed \cup Skipped(D, failed, b)
    BY <1>4 DEF ActivateBestChain
  <2> QED
    BY <1>2, <1>3, <2>1 DEF Skipped
<1>5. ASSUME EnforceInvalidate PROVE x \notin failed'
  <2> DEFINE sibs == Siblings(target, tip)
             gone == {c \in ChainOf[tip] : ChainOf[c] \cap sibs # {}}
  <2>1. target \in Signed
    BY <1>5 DEF EnforceInvalidate, SchedulerExclusive, EnforcesOnlySigned
  <2>2. ASSUME NEW y \in ChainOf[s] PROVE y \notin sibs
    <3> SUFFICES ASSUME y \in sibs PROVE FALSE
      OBVIOUS
    <3>1. PICK a \in ChainOf[target] \ ChainOf[tip] : y # a /\ Parent[y] = Parent[a]
      BY DEF Siblings
    <3>2. y # Genesis
      BY DEF Siblings
    <3>3. a # Genesis
      BY <3>1, BlockTreeAssumption DEF TypeOK
    <3> QED
      BY <2>1, <3>1, <3>2, <3>3, NoSignedSibling
  <2>3. x \notin sibs
    BY <2>2
  <2>4. x \notin gone
    BY <1>2, <2>2
  <2>5. failed' \subseteq failed \cup sibs \cup gone
    BY <1>5 DEF EnforceInvalidate
  <2> QED
    BY <1>3, <2>3, <2>4, <2>5
<1>6. ASSUME UNCHANGED failed PROVE x \notin failed'
  BY <1>3, <1>6
<1>7. ASSUME NEW b \in Blocks, ProcessNewBlock(b) PROVE x \notin failed'
  BY <1>4, <1>7 DEF ProcessNewBlock
<1>8. ASSUME EnforceActivate PROVE x \notin failed'
  BY <1>4, <1>8 DEF EnforceActivate
<1> QED
  BY <1>5, <1>6, <1>7, <1>8
  DEF Next, Network, Process, Scheduler, Enforce, TrySignChainTip, vars, chainVars,
      AcceptBlockHeader, ReceiveClsig, HandleNewRecoveredSig, FinishProcessNewChainLock,
      RejectClsig, StartTask, EnforceRead, EnforceNotify, SignRead, SignCheck, SignCommit,
      FinishTask

\* A CLSIG under verification is in seenChainLocks, so no other thread starts it.
LEMMA OnceStep ==
  TypeOK /\ ClsigsSigned /\ ProcessedOnce /\ [Next]_vars => ProcessedOnce'
<1> SUFFICES ASSUME TypeOK, ClsigsSigned, ProcessedOnce, [Next]_vars PROVE ProcessedOnce'
  OBVIOUS
<1> USE DEF ProcessedOnce, Threads
<1>1. ASSUME NEW t \in Threads, NEW b \in Signed, BeginProcessNewChainLock(t, b)
      PROVE  ProcessedOnce'
  BY <1>1, ChainLocksAssumption DEF BeginProcessNewChainLock, ClsigsSigned, TypeOK
<1>2. ASSUME NEW t \in Threads, pending' = [pending EXCEPT ![t] = None]
      PROVE  ProcessedOnce'
  BY <1>2 DEF TypeOK
<1>3. ASSUME UNCHANGED pending PROVE ProcessedOnce'
  BY <1>3
<1>4. ASSUME NEW b \in Signed, ReceiveClsig(b) PROVE ProcessedOnce'
  BY <1>1, <1>4 DEF ReceiveClsig
<1>5. ASSUME HandleNewRecoveredSig PROVE ProcessedOnce'
  BY <1>1, <1>5 DEF HandleNewRecoveredSig
<1> QED
  BY <1>2, <1>3, <1>4, <1>5
  DEF Next, Network, Process, Scheduler, Enforce, TrySignChainTip, vars,
      AcceptBlockHeader, ProcessNewBlock, FinishProcessNewChainLock,
      RejectClsig, StartTask, EnforceRead, EnforceInvalidate, EnforceActivate,
      EnforceNotify, SignRead, SignCheck, SignCommit, FinishTask

\* The conjunction of the parts is an invariant of the handler.
THEOREM Invariance == Spec => []IndInv
<1>1. Init => IndInv
  <2> SUFFICES ASSUME Init PROVE IndInv
    OBVIOUS
  <2>1. TypeOK
    BY InitTyped
  <2>2. ClsigsSigned /\ SchedulerExclusive /\ HeaderNeverMissed /\ EnforcesOnlySigned
    BY ChainLocksAssumption
    DEF Init, ClsigsSigned, SchedulerExclusive, HeaderNeverMissed, EnforcesOnlySigned, Threads
  <2>3. LockedNeverFailed /\ ScheduledTaskExists /\ ProcessedOnce
    BY ChainLocksAssumption
    DEF Init, LockedNeverFailed, ScheduledTaskExists, ProcessedOnce, Threads
  <2> QED
    BY <2>1, <2>2, <2>3 DEF IndInv
<1>2. IndInv /\ [Next]_vars => IndInv'
  BY TypeStep, ClsigsStep, SchedulerStep, HeaderStep, FailedStep, OnceStep DEF IndInv
<1> QED
  BY <1>1, <1>2, PTL DEF Spec

\* The handler always points to the block of the best CLSIG once it is known.
THEOREM HeaderNeverMissedHolds == Spec => []HeaderNeverMissed
  BY Invariance, PTL DEF IndInv

\* What is enforced, even from an outdated pointer, has a CLSIG.
THEOREM EnforcesOnlySignedHolds == Spec => []EnforcesOnlySigned
  BY Invariance, PTL DEF IndInv

\* No block of the locked chain is ever marked as failed.
THEOREM LockedNeverFailedHolds == Spec => []LockedNeverFailed
  BY Invariance, PTL DEF IndInv

\* tryLockChainTipScheduled never outlives its task.
THEOREM ScheduledTaskExistsHolds == Spec => []ScheduledTaskExists
  BY Invariance, PTL DEF IndInv

\* No CLSIG is processed by two threads at once.
THEOREM ProcessedOnceHolds == Spec => []ProcessedOnce
  BY Invariance, PTL DEF IndInv
=============================================================================
