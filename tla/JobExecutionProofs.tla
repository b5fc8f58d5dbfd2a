------------------------- MODULE JobExecutionProofs -------------------------
(* Proofs about JobExecution, for any set of processes, threads and jobs.   *)
EXTENDS JobExecution, TLAPS

USE DEF rowVars, lockVars, procVars, threadVars, Planning, Holding

-----------------------------------------------------------------------------
(* Type correctness and the shape of the threads' private state.            *)

Typed == TypeOK /\ ThreadsEquipped /\ CandidatesRan

\* Initially every variable has its type.
LEMMA InitTyped == Init => Typed
  BY ConstantsAssumption, NoneAssumption
  DEF Init, Typed, TypeOK, ThreadsEquipped, CandidatesRan, RowStatus

\* Giving a reservation or a handle back keeps the types.
LEMMA ReleaseTyped ==
  ASSUME Typed, NEW t \in Thread, Release(t)
  PROVE  /\ holder' \in [Job -> Thread \cup {None}]
         /\ pc' \in [Thread -> {"idle", "enqueued", "planned", "locked", "reserved", "working"}]
         /\ plan' \in [Thread -> Plan \cup {None}]
         /\ exec' \in [Thread -> Exec \cup {None}]
         /\ ThreadsEquipped'
  BY DEF Typed, TypeOK, ThreadsEquipped, Release

\* A claim either succeeds, or gives the reservation back and leaves the row.
LEMMA ClaimSteps ==
  ASSUME Typed, NEW t \in Thread, ClaimExecution(t), ~(Release(t) /\ UNCHANGED rowVars)
  PROVE  /\ pc[t] = "reserved" /\ plan[t] \in Plan /\ plan[t].job \in Job
         /\ plan[t].mode \in {"start", "retry"}
         /\ MatchesPlan(plan[t]) /\ plan[t].attempt.gen < MaxGeneration
         /\ NextAttempt(plan[t]) \in Attempt
         /\ NextAttempt(plan[t]).owner = minted + 1
         /\ NextAttempt(plan[t]).gen = plan[t].attempt.gen + 1
         /\ ClaimRow(plan[t].job, NextAttempt(plan[t]))
         /\ pc' = [pc EXCEPT ![t] = "working"]
         /\ plan' = [plan EXCEPT ![t] = None]
         /\ exec' = [exec EXCEPT ![t] = [job |-> plan[t].job, attempt |-> NextAttempt(plan[t])]]
         /\ exec'[t] \in Exec
         /\ exec'[t].job = plan[t].job /\ exec'[t].attempt = NextAttempt(plan[t])
         /\ UNCHANGED <<holder, lockFile, procVars>>
<1>1. pc[t] = "reserved" /\ plan[t] \in Plan
  BY DEF ClaimExecution, Typed, ThreadsEquipped
<1>2. /\ plan[t].job \in Job /\ plan[t].mode \in {"start", "retry"}
      /\ NextAttempt(plan[t]) \in Attempt
      /\ NextAttempt(plan[t]).owner = minted + 1
      /\ NextAttempt(plan[t]).gen = plan[t].attempt.gen + 1
  BY <1>1 DEF ClaimExecution, Plan, Attempt, NextAttempt, Typed, TypeOK
<1>3. /\ MatchesPlan(plan[t]) /\ plan[t].attempt.gen < MaxGeneration
      /\ ClaimRow(plan[t].job, NextAttempt(plan[t]))
      /\ pc' = [pc EXCEPT ![t] = "working"]
      /\ plan' = [plan EXCEPT ![t] = None]
      /\ exec' = [exec EXCEPT ![t] = [job |-> plan[t].job, attempt |-> NextAttempt(plan[t])]]
      /\ UNCHANGED <<holder, lockFile, procVars>>
  BY DEF ClaimExecution
<1>4. exec'[t] = [job |-> plan[t].job, attempt |-> NextAttempt(plan[t])]
  BY <1>3 DEF Typed, TypeOK
<1> QED BY <1>1, <1>2, <1>3, <1>4 DEF Exec

\* The claim transaction keeps the types of the row.
LEMMA ClaimRowTyped ==
  ASSUME Typed, NEW j \in Job, NEW next \in Attempt, ClaimRow(j, next)
  PROVE  /\ status' \in [Job -> RowStatus \cup {"none", "cleared"}]
         /\ attempt' \in [Job -> Attempt \cup {None}]
         /\ detail' \in [Job -> Nat] /\ minted' \in Nat
<1>1. next.owner \in Nat
  BY DEF Attempt
<1> QED BY <1>1 DEF ClaimRow, Typed, TypeOK, RowStatus

\* Every step keeps the types and the equipment of the threads.
LEMMA NextTyped == Typed /\ [Next]_vars => Typed'
<1> SUFFICES ASSUME Typed, [Next]_vars PROVE Typed'
  OBVIOUS
<1> USE ConstantsAssumption, NoneAssumption
<1>1. ASSUME NEW t \in Thread, NEW j \in Job, Enqueue(t, j) PROVE Typed'
  BY <1>1 DEF Enqueue, Typed, TypeOK, ThreadsEquipped, CandidatesRan, RowStatus, Attempt, Unclaimed, Plan
<1>2. ASSUME NEW t \in Thread, NEW j \in Job, PlanRetry(t, j) PROVE Typed'
  <2> DEFINE c == [job |-> j, status |-> status[j], attempt |-> attempt[j], mode |-> "retry"]
  <2>1. c \in Plan /\ c.status \in Retryable /\ c.mode = "retry"
    BY <1>2 DEF PlanRetry, Typed, TypeOK, Plan, RowStatus, Retryable
  <2>2. /\ pc' = [pc EXCEPT ![t] = "planned"]
        /\ plan' = [plan EXCEPT ![t] = c]
        /\ UNCHANGED <<rowVars, lockVars, procVars, exec>>
    BY <1>2 DEF PlanRetry
  <2> HIDE DEF c
  <2> QED BY <2>1, <2>2 DEF Typed, TypeOK, ThreadsEquipped, CandidatesRan
<1>3. ASSUME NEW t \in Thread, PlanStart(t) PROVE Typed'
  BY <1>3 DEF PlanStart, Typed, TypeOK, ThreadsEquipped, CandidatesRan
<1>4. ASSUME NEW t \in Thread, TryLock(t) PROVE Typed'
  BY <1>4 DEF TryLock, Typed, TypeOK, ThreadsEquipped, CandidatesRan, Plan
<1>5. ASSUME NEW t \in Thread, SyncReservation(t) PROVE Typed'
  BY <1>5 DEF SyncReservation, Typed, TypeOK, ThreadsEquipped, CandidatesRan, Plan
<1>6. ASSUME NEW t \in Thread, Abandon(t) PROVE Typed'
  BY <1>6, ReleaseTyped DEF Abandon, Typed, TypeOK, CandidatesRan
<1>7. ASSUME NEW t \in Thread, ClaimExecution(t) PROVE Typed'
  <2>1. CASE Release(t) /\ UNCHANGED rowVars
    BY <1>7, <2>1, ReleaseTyped DEF ClaimExecution, Typed, TypeOK, CandidatesRan
  <2>2. CASE ~(Release(t) /\ UNCHANGED rowVars)
    <3>1. TypeOK'
      <4>1. /\ status' \in [Job -> RowStatus \cup {"none", "cleared"}]
            /\ attempt' \in [Job -> Attempt \cup {None}]
            /\ detail' \in [Job -> Nat] /\ minted' \in Nat
        BY <1>7, <2>2, ClaimSteps, ClaimRowTyped
      <4>2. /\ pc' \in [Thread -> {"idle", "enqueued", "planned", "locked", "reserved", "working"}]
            /\ plan' \in [Thread -> Plan \cup {None}]
            /\ exec' \in [Thread -> Exec \cup {None}]
        BY <1>7, <2>2, ClaimSteps DEF Typed, TypeOK
      <4> QED BY <1>7, <2>2, <4>1, <4>2, ClaimSteps DEF Typed, TypeOK
    <3>2. ThreadsEquipped' /\ CandidatesRan'
      BY <1>7, <2>2, ClaimSteps DEF Typed, TypeOK, ThreadsEquipped, CandidatesRan
    <3> QED BY <3>1, <3>2 DEF Typed
  <2> QED BY <2>1, <2>2
<1>8. ASSUME NEW t \in Thread, NEW s \in {"running", "done", "failed"}, Update(t, s) PROVE Typed'
  BY <1>8 DEF Update, Typed, TypeOK, ThreadsEquipped, CandidatesRan, Exec, Attempt, RowStatus
<1>9. ASSUME NEW t \in Thread, Drop(t) \/ DropUnsettled(t) PROVE Typed'
  BY <1>9, ReleaseTyped DEF Drop, DropUnsettled, Typed, TypeOK, CandidatesRan
<1>10. ASSUME NEW t \in Thread, NextCandidate(t) PROVE Typed'
  BY <1>10 DEF NextCandidate, Typed, TypeOK, ThreadsEquipped, CandidatesRan
<1>11. ASSUME NEW t \in Thread, RecoverReserved(t) PROVE Typed'
  BY <1>11, ReleaseTyped DEF RecoverReserved, Typed, TypeOK, ThreadsEquipped, CandidatesRan, Plan, RowStatus
<1>12. ASSUME NEW p \in Proc, NEW j \in Job, Cancel(p, j) PROVE Typed'
  BY <1>12 DEF Cancel, Typed, TypeOK, ThreadsEquipped, CandidatesRan, RowStatus
<1>13. ASSUME NEW p \in Proc, ClearFinished(p) PROVE Typed'
  BY <1>13 DEF ClearFinished, Typed, TypeOK, ThreadsEquipped, CandidatesRan
<1>14. ASSUME NEW p \in Proc, Start(p) PROVE Typed'
  <2>1. RecoveryCandidates \in SUBSET Plan
    BY DEF RecoveryCandidates, Plan, RowStatus, Typed, TypeOK
  <2>2. \A c \in RecoveryCandidates : c.status = "running" /\ c.mode = "recover"
    BY DEF RecoveryCandidates
  <2> QED BY <1>14, <2>1, <2>2 DEF Start, Typed, TypeOK, ThreadsEquipped, CandidatesRan
<1>15. ASSUME NEW p \in Proc, FinishStartup(p) PROVE Typed'
  BY <1>15 DEF FinishStartup, Typed, TypeOK, ThreadsEquipped, CandidatesRan
<1>16. ASSUME NEW S \in SUBSET Proc, Die(S), lockFile' \in [Job -> {"absent", "unsynced", "durable"}] PROVE Typed'
  BY <1>16 DEF Die, Typed, TypeOK, ThreadsEquipped, CandidatesRan
<1>17. ASSUME NEW p \in Proc, Crash(p) PROVE Typed'
  BY <1>16, <1>17 DEF Crash, Typed, TypeOK
<1>18. CASE PowerLoss
  BY <1>16, <1>18 DEF PowerLoss, Typed, TypeOK
<1>19. CASE UNCHANGED vars
  BY <1>19 DEF vars, Typed, TypeOK, ThreadsEquipped, CandidatesRan
<1> QED
  BY <1>1, <1>2, <1>3, <1>4, <1>5, <1>6, <1>7, <1>8, <1>9, <1>10, <1>11, <1>12, <1>13,
     <1>14, <1>15, <1>17, <1>18, <1>19
  DEF Next, ProgressExecution, FinishExecution, FailExecution

\* Every reachable state is well typed, and every thread has the plan or the
\* handle its position in start_job, retry or recovery calls for.
THEOREM TypeCorrect == Spec => []TypeOK
<1>1. Typed => TypeOK BY DEF Typed
<1> QED BY InitTyped, NextTyped, <1>1, PTL DEF Spec

-----------------------------------------------------------------------------
(* Locks: a thread holds its job's lock from the reservation to the end.    *)

\* Releasing one lock leaves the other holders theirs.
LEMMA ReleaseHolders ==
  ASSUME Typed, HoldersHold, NEW t \in Thread, Release(t)
  PROVE  HoldersHold'
  BY NoneAssumption DEF Typed, TypeOK, ThreadsEquipped, HoldersHold, JobOf, Release, Plan, Exec

\* Every step keeps the locks with their threads.
LEMMA NextHolders == Typed /\ HoldersHold /\ [Next]_vars => HoldersHold'
<1> SUFFICES ASSUME Typed, HoldersHold, [Next]_vars PROVE HoldersHold'
  OBVIOUS
<1> USE ConstantsAssumption, NoneAssumption DEF Typed, TypeOK, ThreadsEquipped, HoldersHold, JobOf
<1>1. ASSUME NEW t \in Thread, NEW j \in Job, Enqueue(t, j) \/ PlanRetry(t, j) PROVE HoldersHold'
  BY <1>1 DEF Enqueue, PlanRetry
<1>2. ASSUME NEW t \in Thread, PlanStart(t) \/ NextCandidate(t) PROVE HoldersHold'
  BY <1>2 DEF PlanStart, NextCandidate
<1>3. ASSUME NEW t \in Thread, TryLock(t) PROVE HoldersHold'
  BY <1>3 DEF TryLock, OsLockFree, Plan, Exec
<1>4. ASSUME NEW t \in Thread, SyncReservation(t) PROVE HoldersHold'
  BY <1>4 DEF SyncReservation
<1>5. ASSUME NEW t \in Thread, Abandon(t) \/ Drop(t) \/ DropUnsettled(t) \/ RecoverReserved(t)
      PROVE HoldersHold'
  BY <1>5, ReleaseHolders DEF Abandon, Drop, DropUnsettled, RecoverReserved
<1>6. ASSUME NEW t \in Thread, ClaimExecution(t) PROVE HoldersHold'
  <2>1. CASE Release(t)
    BY <2>1, ReleaseHolders
  <2>2. CASE ~Release(t)
    BY <1>6, <2>2, ClaimSteps
  <2> QED BY <2>1, <2>2
<1>7. ASSUME NEW t \in Thread, NEW s \in {"running", "done", "failed"}, Update(t, s) PROVE HoldersHold'
  BY <1>7 DEF Update
<1>8. ASSUME NEW p \in Proc, \/ \E j \in Job : Cancel(p, j)
                             \/ ClearFinished(p) \/ Start(p) \/ FinishStartup(p)
      PROVE HoldersHold'
  BY <1>8 DEF Cancel, ClearFinished, Start, FinishStartup
<1>9. ASSUME NEW S \in SUBSET Proc, Die(S) PROVE HoldersHold'
  BY <1>9 DEF Die, Plan, Exec
<1>10. CASE UNCHANGED vars
  BY <1>10 DEF vars
<1> HIDE DEF Typed, TypeOK, ThreadsEquipped, HoldersHold, JobOf
<1> QED
  BY <1>1, <1>2, <1>3, <1>4, <1>5, <1>6, <1>7, <1>8, <1>9, <1>10
  DEF Next, ProgressExecution, FinishExecution, FailExecution, Crash, PowerLoss

-----------------------------------------------------------------------------
(* Lock files: what a reservation or a claim rests on survives power loss.  *)

\* Every step keeps the lock files that claims rest on.
LEMMA NextDurable ==
  Typed /\ ReservedIsDurable /\ ClaimedJobKeepsLockFile /\ [Next]_vars
    => ReservedIsDurable' /\ ClaimedJobKeepsLockFile'
<1> SUFFICES ASSUME Typed, ReservedIsDurable, ClaimedJobKeepsLockFile, [Next]_vars
             PROVE  ReservedIsDurable' /\ ClaimedJobKeepsLockFile'
  OBVIOUS
<1> DEFINE Goal == ReservedIsDurable' /\ ClaimedJobKeepsLockFile'
<1> USE ConstantsAssumption, NoneAssumption
    DEF Typed, TypeOK, ThreadsEquipped, ReservedIsDurable, ClaimedJobKeepsLockFile
<1>1. ASSUME NEW t \in Thread, NEW j \in Job, Enqueue(t, j) PROVE Goal
  BY <1>1 DEF Enqueue, Unclaimed
<1>2. ASSUME NEW t \in Thread, NEW j \in Job, PlanRetry(t, j) PROVE Goal
  BY <1>2 DEF PlanRetry
<1>3. ASSUME NEW t \in Thread, PlanStart(t) \/ NextCandidate(t) PROVE Goal
  BY <1>3 DEF PlanStart, NextCandidate
<1>4. ASSUME NEW t \in Thread, TryLock(t) PROVE Goal
  BY <1>4 DEF TryLock, Plan
<1>5. ASSUME NEW t \in Thread, SyncReservation(t) PROVE Goal
  BY <1>5 DEF SyncReservation, Plan
<1>6. ASSUME NEW t \in Thread, Abandon(t) \/ Drop(t) \/ DropUnsettled(t) \/ RecoverReserved(t)
      PROVE Goal
  BY <1>6 DEF Abandon, Drop, DropUnsettled, RecoverReserved, Release
<1>7. ASSUME NEW t \in Thread, ClaimExecution(t) PROVE Goal
  <2>1. CASE Release(t) /\ UNCHANGED rowVars
    BY <1>7, <2>1 DEF ClaimExecution, Release
  <2>2. CASE ~(Release(t) /\ UNCHANGED rowVars)
    <3> HIDE DEF Typed
    <3>1. ReservedIsDurable'
      BY <1>7, <2>2, ClaimSteps DEF Typed
    <3>2. ClaimedJobKeepsLockFile'
      BY <1>7, <2>2, ClaimSteps DEF Typed, ClaimRow
    <3> QED BY <3>1, <3>2
  <2> QED BY <2>1, <2>2
<1>8. ASSUME NEW t \in Thread, NEW s \in {"running", "done", "failed"}, Update(t, s) PROVE Goal
  BY <1>8 DEF Update
<1>9. ASSUME NEW p \in Proc, \/ \E j \in Job : Cancel(p, j)
                             \/ ClearFinished(p) \/ Start(p) \/ FinishStartup(p)
      PROVE Goal
  BY <1>9 DEF Cancel, ClearFinished, Start, FinishStartup
<1>10. ASSUME NEW p \in Proc, Crash(p) PROVE Goal
  BY <1>10 DEF Crash, Die
<1>11. CASE PowerLoss
  BY <1>11 DEF PowerLoss, Die
<1>12. CASE UNCHANGED vars
  BY <1>12 DEF vars
<1> HIDE DEF Typed, TypeOK, ThreadsEquipped, ReservedIsDurable, ClaimedJobKeepsLockFile
<1> QED
  BY <1>1, <1>2, <1>3, <1>4, <1>5, <1>6, <1>7, <1>8, <1>9, <1>10, <1>11, <1>12
  DEF Next, ProgressExecution, FinishExecution, FailExecution

-----------------------------------------------------------------------------
(* Rows: attempts, tokens and detail agree.                                 *)

\* Every step keeps attempts, tokens and detail in agreement.
LEMMA NextRows ==
  Typed /\ RowsAgree /\ DetailIsOwn /\ [Next]_vars => RowsAgree' /\ DetailIsOwn'
<1> SUFFICES ASSUME Typed, RowsAgree, DetailIsOwn, [Next]_vars
             PROVE  RowsAgree' /\ DetailIsOwn'
  OBVIOUS
<1> DEFINE Goal == RowsAgree' /\ DetailIsOwn'
<1>0. CASE UNCHANGED rowVars
  BY <1>0 DEF RowsAgree, DetailIsOwn
<1> USE ConstantsAssumption, NoneAssumption DEF Typed, TypeOK, RowsAgree, DetailIsOwn
<1>1. ASSUME NEW t \in Thread, NEW j \in Job, Enqueue(t, j) PROVE Goal
  <2>1. attempt[j] = None /\ detail[j] = 0
    BY <1>1 DEF Enqueue
  <2>2. Unclaimed # None /\ Unclaimed.owner <= minted
    BY DEF Unclaimed, Attempt
  <2>3. RowsAgree'
    BY <1>1, <2>2 DEF Enqueue
  <2>4. DetailIsOwn'
    BY <1>1, <2>1 DEF Enqueue
  <2> QED BY <2>3, <2>4
<1>2. ASSUME NEW t \in Thread, RecoverReserved(t) PROVE Goal
  <2>1. plan[t].job \in Job /\ attempt[plan[t].job] = attempt'[plan[t].job]
    BY <1>2 DEF RecoverReserved, ThreadsEquipped, Plan
  <2>2. MatchesPlan(plan[t]) => attempt[plan[t].job] # None
    BY <1>2 DEF RecoverReserved, MatchesPlan, ThreadsEquipped, Plan
  <2> QED BY <1>2, <2>1, <2>2 DEF RecoverReserved
<1>3. ASSUME NEW t \in Thread, ClaimExecution(t), ~UNCHANGED rowVars PROVE Goal
  <2>1. NextAttempt(plan[t]) # None
    BY <1>3, ClaimSteps
  <2> HIDE DEF Typed
  <2> QED BY <1>3, <2>1, ClaimSteps DEF Typed, ClaimRow, Attempt
<1>4. ASSUME NEW t \in Thread, NEW s \in {"running", "done", "failed"}, Update(t, s) PROVE Goal
  <2>1. /\ exec[t].job \in Job /\ exec[t].attempt \in Attempt /\ exec[t].attempt.gen \in Nat
        /\ attempt[exec[t].job] = exec[t].attempt
    BY <1>4 DEF Update, Checked, ThreadsEquipped, Exec, Attempt
  <2>2. RowsAgree'
    BY <1>4, <2>1 DEF Update
  <2>3. DetailIsOwn'
    BY <1>4, <2>1 DEF Update
  <2> QED BY <2>2, <2>3
<1>5. ASSUME NEW p \in Proc, NEW j \in Job, Cancel(p, j) PROVE Goal
  BY <1>5 DEF Cancel, Cancellable
<1>6. ASSUME NEW p \in Proc, ClearFinished(p) PROVE Goal
  BY <1>6 DEF ClearFinished, Finished
<1> HIDE DEF Typed, TypeOK, RowsAgree, DetailIsOwn
<1>7. ASSUME NEW t \in Thread, NEW j \in Job, PlanRetry(t, j) PROVE UNCHANGED rowVars
  BY <1>7 DEF PlanRetry
<1>8. ASSUME NEW t \in Thread,
             \/ PlanStart(t) \/ NextCandidate(t) \/ TryLock(t) \/ SyncReservation(t)
             \/ Abandon(t) \/ Drop(t) \/ DropUnsettled(t)
      PROVE  UNCHANGED rowVars
  BY <1>8 DEF PlanStart, NextCandidate, TryLock, SyncReservation, Abandon, Drop, DropUnsettled
<1>9. ASSUME NEW p \in Proc, Start(p) \/ FinishStartup(p) \/ Crash(p) PROVE UNCHANGED rowVars
  BY <1>9 DEF Start, FinishStartup, Crash, Die
<1>10. PowerLoss => UNCHANGED rowVars
  BY DEF PowerLoss, Die
<1>11. UNCHANGED vars => UNCHANGED rowVars
  BY DEF vars
<1> QED
  BY <1>0, <1>1, <1>2, <1>3, <1>4, <1>5, <1>6, <1>7, <1>8, <1>9, <1>10, <1>11
  DEF Next, ProgressExecution, FinishExecution, FailExecution

-----------------------------------------------------------------------------
(* Ownership: nobody takes the row of a live worker.                        *)

\* Two threads that hold the lock of the same job are one thread.
LEMMA HoldersExclusive ==
  ASSUME HoldersHold, NEW t \in Thread, NEW u \in Thread,
         pc[t] \in Holding, pc[u] \in Holding, JobOf(t) = JobOf(u)
  PROVE  t = u
  BY DEF HoldersHold

\* No step takes the row of a live worker.
LEMMA NextLive ==
  Typed /\ HoldersHold /\ RowsAgree /\ LiveWorkerOwnsRow /\ [Next]_vars => LiveWorkerOwnsRow'
<1> SUFFICES ASSUME Typed, HoldersHold, RowsAgree, LiveWorkerOwnsRow, [Next]_vars
             PROVE  LiveWorkerOwnsRow'
  OBVIOUS
\* Threads that work after a step that begins no execution worked before it.
<1>0. ASSUME \A u \in Thread : pc'[u] = "working" => pc[u] = "working" /\ exec'[u] = exec[u],
             UNCHANGED <<status, attempt>>
      PROVE  LiveWorkerOwnsRow'
  BY <1>0 DEF LiveWorkerOwnsRow
<1> USE ConstantsAssumption, NoneAssumption
<1>1. ASSUME NEW t \in Thread, NEW j \in Job, Enqueue(t, j) PROVE LiveWorkerOwnsRow'
  BY <1>1 DEF Enqueue, Typed, TypeOK, ThreadsEquipped, Exec, LiveWorkerOwnsRow
<1>2. ASSUME NEW t \in Thread, RecoverReserved(t) PROVE LiveWorkerOwnsRow'
  <2>1. \A u \in Thread : pc[u] = "working" => exec[u].job # plan[t].job
    BY <1>2, HoldersExclusive DEF RecoverReserved, JobOf
  <2>2. \A u \in Thread : pc'[u] = "working" => pc[u] = "working" /\ exec'[u] = exec[u]
    BY <1>2 DEF RecoverReserved, Release, Typed, TypeOK
  <2>3. /\ attempt' = attempt
        /\ \A j \in Job : j # plan[t].job => status'[j] = status[j]
    BY <1>2 DEF RecoverReserved, Typed, TypeOK
  <2> QED BY <2>1, <2>2, <2>3 DEF LiveWorkerOwnsRow, Typed, ThreadsEquipped, Exec
<1>3. ASSUME NEW t \in Thread, ClaimExecution(t) PROVE LiveWorkerOwnsRow'
  <2>1. CASE Release(t) /\ UNCHANGED rowVars
    BY <1>0, <2>1 DEF Release, Typed, TypeOK
  <2>2. CASE ~(Release(t) /\ UNCHANGED rowVars)
    <3>1. \A u \in Thread : pc[u] = "working" => exec[u].job # plan[t].job
      BY <1>3, <2>2, ClaimSteps, HoldersExclusive DEF JobOf
    <3>2. /\ status'[plan[t].job] = "running"
          /\ attempt'[plan[t].job] = NextAttempt(plan[t])
          /\ \A j \in Job : j # plan[t].job => status'[j] = status[j] /\ attempt'[j] = attempt[j]
      BY <1>3, <2>2, ClaimSteps DEF ClaimRow, Typed, TypeOK
    <3>3. /\ exec'[t].job = plan[t].job /\ exec'[t].attempt = NextAttempt(plan[t])
          /\ \A u \in Thread \ {t} : pc'[u] = pc[u] /\ exec'[u] = exec[u]
      BY <1>3, <2>2, ClaimSteps DEF Typed, TypeOK
    <3>4. SUFFICES ASSUME NEW u \in Thread, pc'[u] = "working", u # t
                   PROVE  \/ status'[exec[u].job] = "cleared"
                          \/ /\ attempt'[exec[u].job] = exec[u].attempt
                             /\ status'[exec[u].job] \in {"running", "done", "failed", "cancelled"}
      BY <3>2, <3>3 DEF LiveWorkerOwnsRow
    <3>5. pc[u] = "working" /\ exec[u].job \in Job \ {plan[t].job}
      BY <3>1, <3>3, <3>4 DEF Typed, ThreadsEquipped, Exec
    <3> QED BY <3>2, <3>5 DEF LiveWorkerOwnsRow
  <2> QED BY <2>1, <2>2
<1>4. ASSUME NEW t \in Thread, NEW s \in {"running", "done", "failed"}, Update(t, s)
      PROVE  LiveWorkerOwnsRow'
  BY <1>4 DEF Update, Typed, TypeOK, ThreadsEquipped, Exec, LiveWorkerOwnsRow
<1>5. ASSUME NEW p \in Proc, NEW j \in Job, Cancel(p, j) PROVE LiveWorkerOwnsRow'
  BY <1>5 DEF Cancel, Cancellable, Typed, TypeOK, ThreadsEquipped, Exec, LiveWorkerOwnsRow
<1>6. ASSUME NEW p \in Proc, ClearFinished(p) PROVE LiveWorkerOwnsRow'
  BY <1>6 DEF ClearFinished, Finished, Typed, TypeOK, ThreadsEquipped, Exec, LiveWorkerOwnsRow
<1>7. ASSUME NEW t \in Thread, NEW j \in Job, PlanRetry(t, j) PROVE LiveWorkerOwnsRow'
  BY <1>0, <1>7 DEF PlanRetry, Typed, TypeOK
<1>8. ASSUME NEW t \in Thread,
             \/ PlanStart(t) \/ NextCandidate(t) \/ TryLock(t) \/ SyncReservation(t)
      PROVE  LiveWorkerOwnsRow'
  BY <1>0, <1>8 DEF PlanStart, NextCandidate, TryLock, SyncReservation, Typed, TypeOK
<1>9. ASSUME NEW t \in Thread, Abandon(t) \/ Drop(t) \/ DropUnsettled(t) PROVE LiveWorkerOwnsRow'
  BY <1>0, <1>9 DEF Abandon, Drop, DropUnsettled, Release, Typed, TypeOK
<1>10. ASSUME NEW p \in Proc, Start(p) \/ FinishStartup(p) PROVE LiveWorkerOwnsRow'
  BY <1>0, <1>10 DEF Start, FinishStartup
<1>11. ASSUME NEW S \in SUBSET Proc, Die(S) PROVE LiveWorkerOwnsRow'
  BY <1>0, <1>11 DEF Die, Typed, TypeOK
<1>12. CASE UNCHANGED vars
  BY <1>0, <1>12 DEF vars
<1> QED
  BY <1>1, <1>2, <1>3, <1>4, <1>5, <1>6, <1>7, <1>8, <1>9, <1>10, <1>11, <1>12
  DEF Next, ProgressExecution, FinishExecution, FailExecution, Crash, PowerLoss

-----------------------------------------------------------------------------
(* The theorems.                                                            *)

\* The invariant holds initially.
LEMMA InitInductive == Init => IndInv
<1> SUFFICES ASSUME Init PROVE IndInv
  OBVIOUS
<1>1. Typed
  BY InitTyped
<1>2. HoldersHold /\ ReservedIsDurable /\ LiveWorkerOwnsRow
  BY DEF Init, HoldersHold, ReservedIsDurable, LiveWorkerOwnsRow
<1>3. RowsAgree /\ ClaimedJobKeepsLockFile /\ DetailIsOwn
  BY DEF Init, RowsAgree, ClaimedJobKeepsLockFile, DetailIsOwn
<1> QED BY <1>1, <1>2, <1>3 DEF IndInv, Typed

\* Every step keeps the invariant.
LEMMA NextInductive == IndInv /\ [Next]_vars => IndInv'
  BY NextTyped, NextHolders, NextDurable, NextRows, NextLive DEF IndInv, Typed

\* The inductive invariant holds in every reachable state.
THEOREM Inductive == Spec => []IndInv
  BY InitInductive, NextInductive, PTL DEF Spec

\* A live worker's row carries the worker's attempt and was neither queued nor
\* interrupted under it, or was cleared: no process steals or interrupts a job
\* that a thread of any process is executing.
THEOREM LiveWorkerSafe == Spec => []LiveWorkerOwnsRow
<1>1. IndInv => LiveWorkerOwnsRow BY DEF IndInv
<1> QED BY Inductive, <1>1, PTL

\* No two threads, of one process or of two, execute the same job.
THEOREM OneWorker == Spec => []SingleWorker
<1>1. IndInv => SingleWorker
  BY HoldersExclusive DEF IndInv, SingleWorker, JobOf
<1> QED BY Inductive, <1>1, PTL

\* The lock file of a job that was ever claimed survives power loss.
THEOREM LockFileKept == Spec => []ClaimedJobKeepsLockFile
<1>1. IndInv => ClaimedJobKeepsLockFile BY DEF IndInv
<1> QED BY Inductive, <1>1, PTL

\* Stage, progress and error are those of the row's current attempt.
THEOREM DetailOwned == Spec => []DetailIsOwn
<1>1. IndInv => DetailIsOwn BY DEF IndInv
<1> QED BY Inductive, <1>1, PTL

\* A job has one live owner: its row, its lock file and its progress are the owner's,
\* whatever was cancelled, retried, recovered or crashed in between.
THEOREM OwnerIsExclusive == Spec => []ExclusiveOwner
BY TypeCorrect, LiveWorkerSafe, OneWorker, LockFileKept, DetailOwned, PTL DEF ExclusiveOwner

-----------------------------------------------------------------------------
(* Legacy rows, first plans and startups: the rest of the invariant.         *)

\* The actions that write a row; every other step leaves the store alone.
LEMMA RowActions ==
  ASSUME [Next]_vars, ~UNCHANGED rowVars
  PROVE  \/ \E t \in Thread, j \in Job : Enqueue(t, j)
         \/ \E t \in Thread : RecoverReserved(t) \/ ClaimExecution(t)
         \/ \E t \in Thread : \E s \in {"running", "done", "failed"} : Update(t, s)
         \/ \E p \in Proc, j \in Job : Cancel(p, j)
         \/ \E p \in Proc : ClearFinished(p)
<1>1. ASSUME NEW t \in Thread, NEW j \in Job, PlanRetry(t, j) PROVE UNCHANGED rowVars
  BY <1>1 DEF PlanRetry
<1>2. ASSUME NEW t \in Thread,
             \/ PlanStart(t) \/ NextCandidate(t) \/ TryLock(t) \/ SyncReservation(t)
             \/ Abandon(t) \/ Drop(t) \/ DropUnsettled(t)
      PROVE  UNCHANGED rowVars
  BY <1>2 DEF PlanStart, NextCandidate, TryLock, SyncReservation, Abandon, Drop, DropUnsettled
<1>3. ASSUME NEW p \in Proc, Start(p) \/ FinishStartup(p) \/ Crash(p) PROVE UNCHANGED rowVars
  BY <1>3 DEF Start, FinishStartup, Crash, Die
<1>4. PowerLoss => UNCHANGED rowVars
  BY DEF PowerLoss, Die
<1>5. UNCHANGED vars => UNCHANGED rowVars
  BY DEF vars
<1> HIDE DEF rowVars
<1> QED
  BY <1>1, <1>2, <1>3, <1>4, <1>5 DEF Next, ProgressExecution, FinishExecution, FailExecution

\* No row without an attempt ever gets one.
LEMMA NextLegacy == Typed /\ LegacyUnclaimed /\ [Next]_vars => LegacyUnclaimed'
<1> SUFFICES ASSUME Typed, LegacyUnclaimed, [Next]_vars PROVE LegacyUnclaimed'
  OBVIOUS
<1> USE ConstantsAssumption, NoneAssumption
<1>0. CASE UNCHANGED rowVars
  BY <1>0 DEF LegacyUnclaimed
<1>1. ASSUME NEW t \in Thread, NEW j \in Job, Enqueue(t, j) PROVE LegacyUnclaimed'
  BY <1>1 DEF Enqueue, LegacyUnclaimed, Typed, TypeOK
<1>2. ASSUME NEW t \in Thread, RecoverReserved(t) PROVE LegacyUnclaimed'
  BY <1>2 DEF RecoverReserved, LegacyUnclaimed, Typed, TypeOK
<1>3. ASSUME NEW t \in Thread, ClaimExecution(t), ~UNCHANGED rowVars PROVE LegacyUnclaimed'
  <2>1. plan[t].job \in Job /\ plan[t].attempt \in Attempt /\ attempt[plan[t].job] = plan[t].attempt
    BY <1>3, ClaimSteps DEF Plan, MatchesPlan
  <2>2. plan[t].job \notin Legacy
    BY <2>1 DEF LegacyUnclaimed
  <2>3. \A j \in Job : j # plan[t].job => status'[j] = status[j] /\ attempt'[j] = attempt[j]
    BY <1>3, <2>1, ClaimSteps DEF ClaimRow, Typed, TypeOK
  <2> QED BY <2>2, <2>3 DEF LegacyUnclaimed
<1>4. ASSUME NEW t \in Thread, NEW s \in {"running", "done", "failed"}, Update(t, s) PROVE LegacyUnclaimed'
  BY <1>4 DEF Update, LegacyUnclaimed, Typed, TypeOK
<1>5. ASSUME NEW p \in Proc, NEW j \in Job, Cancel(p, j) PROVE LegacyUnclaimed'
  BY <1>5 DEF Cancel, LegacyUnclaimed, Typed, TypeOK
<1>6. ASSUME NEW p \in Proc, ClearFinished(p) PROVE LegacyUnclaimed'
  BY <1>6 DEF ClearFinished, LegacyUnclaimed
<1> HIDE DEF rowVars
<1> QED BY <1>0, <1>1, <1>2, <1>3, <1>4, <1>5, <1>6, RowActions

\* What a step of thread t leaves alone.
OthersStay(t) ==
  /\ t \in DOMAIN pc /\ t \in DOMAIN plan
  /\ \A u \in Thread \ {t} : pc'[u] = pc[u] /\ plan'[u] = plan[u]

\* Where a thread may go: it stays, takes a plan, keeps it, or drops it.
Moves(t) ==
  /\ OthersStay(t)
  /\ \/ pc'[t] = "idle"
     \/ pc'[t] = "working" /\ pc[t] # "idle" /\ plan[t].mode # "recover"
     \/ pc'[t] \in Planning /\ pc[t] \in Planning /\ plan'[t] = plan[t]
     \/ pc'[t] = "enqueued" /\ plan'[t].mode = "start" /\ plan'[t].attempt = Unclaimed /\ phase[Home[t]] = "up"
     \/ pc'[t] = "planned" /\ plan'[t].mode = "retry" /\ phase[Home[t]] = "up"
     \/ /\ pc'[t] = "planned" /\ plan'[t].mode = "recover" /\ phase[Home[t]] = "recovering"
        /\ \A u \in Thread : Home[u] = Home[t] => pc[u] = "idle"

\* Every step of a thread is such a move; its process goes down only with it.
LEMMA ThreadMoves ==
  ASSUME Typed, [Next]_vars, ~UNCHANGED <<pc, plan>>
  PROVE  \/ \E t \in Thread :
               /\ Moves(t)
               /\ \/ phase' = phase
                  \/ /\ phase' = [phase EXCEPT ![Home[t]] = "down"]
                     /\ pc'[t] = "idle" /\ pc[t] = "planned" /\ plan[t].mode = "recover"
         \/ \E S \in SUBSET Proc : Die(S)
<1> DEFINE Goal(t) == /\ Moves(t)
                      /\ \/ phase' = phase
                         \/ /\ phase' = [phase EXCEPT ![Home[t]] = "down"]
                            /\ pc'[t] = "idle" /\ pc[t] = "planned" /\ plan[t].mode = "recover"
<1> USE DEF Typed, TypeOK
<1>1. ASSUME NEW t \in Thread, NEW j \in Job, Enqueue(t, j) PROVE Goal(t)
  BY <1>1 DEF Enqueue, Moves, OthersStay
<1>2. ASSUME NEW t \in Thread, NEW j \in Job, PlanRetry(t, j) PROVE Goal(t)
  BY <1>2 DEF PlanRetry, Moves, OthersStay
<1>3. ASSUME NEW t \in Thread, PlanStart(t) PROVE Goal(t)
  BY <1>3 DEF PlanStart, Moves, OthersStay
<1>4. ASSUME NEW t \in Thread, NextCandidate(t) PROVE Goal(t)
  <2>1. PICK c \in candidates[Home[t]] : plan' = [plan EXCEPT ![t] = c]
    BY <1>4 DEF NextCandidate
  <2>2. c.mode = "recover"
    BY <2>1, ConstantsAssumption DEF CandidatesRan
  <2>3. plan'[t].mode = "recover" /\ pc' = [pc EXCEPT ![t] = "planned"] /\ phase' = phase
    BY <1>4, <2>1, <2>2 DEF NextCandidate
  <2>4. phase[Home[t]] = "recovering" /\ \A u \in Thread : Home[u] = Home[t] => pc[u] = "idle"
    BY <1>4 DEF NextCandidate
  <2> QED BY <2>1, <2>3, <2>4 DEF Moves, OthersStay
<1>5. ASSUME NEW t \in Thread, TryLock(t) PROVE Goal(t)
  BY <1>5 DEF TryLock, Moves, OthersStay
<1>6. ASSUME NEW t \in Thread, SyncReservation(t) PROVE Goal(t)
  BY <1>6 DEF SyncReservation, Moves, OthersStay
<1>7. ASSUME NEW t \in Thread, Release(t), phase' = phase PROVE Goal(t)
  BY <1>7 DEF Release, Moves, OthersStay
<1>8. ASSUME NEW t \in Thread, Abandon(t) \/ Drop(t) \/ DropUnsettled(t) \/ RecoverReserved(t) PROVE Goal(t)
  <2>1. Release(t) /\ phase' = phase
    BY <1>8 DEF Abandon, Drop, DropUnsettled, RecoverReserved
  <2> QED BY <1>7, <2>1
<1>9. ASSUME NEW t \in Thread, ClaimExecution(t) PROVE Goal(t)
  <2>1. phase' = phase
    BY <1>9 DEF ClaimExecution
  <2>2. CASE Release(t)
    BY <1>7, <2>1, <2>2
  <2>3. CASE ~Release(t)
    <3>1. /\ pc' = [pc EXCEPT ![t] = "working"] /\ plan' = [plan EXCEPT ![t] = None]
          /\ pc[t] = "reserved" /\ plan[t].mode # "recover"
      BY <1>9, <2>3 DEF ClaimExecution
    <3> QED BY <2>1, <3>1 DEF Moves, OthersStay
  <2> QED BY <2>2, <2>3
<1> HIDE DEF Goal, Typed, TypeOK
<1>10. ASSUME NEW p \in Proc, Start(p) \/ FinishStartup(p) \/ ClearFinished(p) \/ \E j \in Job : Cancel(p, j)
       PROVE  UNCHANGED <<pc, plan>>
  BY <1>10 DEF Start, FinishStartup, ClearFinished, Cancel
<1>11. ASSUME NEW t \in Thread, ProgressExecution(t) \/ FinishExecution(t) \/ FailExecution(t)
       PROVE  UNCHANGED <<pc, plan>>
  BY <1>11 DEF ProgressExecution, FinishExecution, FailExecution, Update
<1>12. UNCHANGED vars => UNCHANGED <<pc, plan>>
  BY DEF vars
<1>13. ASSUME NEW p \in Proc, Crash(p) PROVE \E S \in SUBSET Proc : Die(S)
  BY <1>13 DEF Crash
<1>14. ASSUME PowerLoss PROVE \E S \in SUBSET Proc : Die(S)
  BY <1>14 DEF PowerLoss
<1>15. \/ \E t \in Thread : Goal(t)
       \/ \E S \in SUBSET Proc : Die(S)
  BY <1>1, <1>2, <1>3, <1>4, <1>5, <1>6, <1>8, <1>9, <1>10, <1>11, <1>12, <1>13, <1>14 DEF Next
<1> QED BY <1>15 DEF Goal

\* A first execution keeps the plan it was enqueued with.
LEMMA NextStarts == Typed /\ StartsUnclaimed /\ [Next]_vars => StartsUnclaimed'
<1> SUFFICES ASSUME Typed, StartsUnclaimed, [Next]_vars, NEW u \in Thread,
                    pc'[u] \in Planning, plan'[u].mode = "start"
             PROVE  plan'[u].attempt = Unclaimed
  BY DEF StartsUnclaimed
<1>1. CASE UNCHANGED <<pc, plan>>
  BY <1>1 DEF StartsUnclaimed
<1>2. ASSUME NEW t \in Thread, Moves(t) PROVE plan'[u].attempt = Unclaimed
  <2>1. CASE u = t
    BY <1>2, <2>1 DEF Moves, StartsUnclaimed
  <2>2. CASE u # t
    BY <1>2, <2>2 DEF Moves, OthersStay, StartsUnclaimed
  <2> QED BY <2>1, <2>2
<1>3. ASSUME NEW S \in SUBSET Proc, Die(S) PROVE plan'[u].attempt = Unclaimed
  <2>1. pc'[u] = pc[u] /\ plan'[u] = plan[u]
    BY <1>3 DEF Die
  <2> QED BY <2>1 DEF StartsUnclaimed
<1> QED BY <1>1, <1>2, <1>3, ThreadMoves

\* A starting process runs its setup thread alone until every candidate was tried.
LEMMA NextStartup == Typed /\ StartupAlone /\ [Next]_vars => StartupAlone'
<1> SUFFICES ASSUME Typed, StartupAlone, [Next]_vars PROVE StartupAlone'
  OBVIOUS
<1>0. phase \in [Proc -> {"down", "recovering", "up"}] /\ \A t \in Thread : Home[t] \in Proc
  BY ConstantsAssumption DEF Typed, TypeOK
<1>1. CASE UNCHANGED <<pc, plan>> /\ phase' = phase
  BY <1>1 DEF StartupAlone
<1>2. CASE UNCHANGED <<pc, plan>> /\ phase' # phase
  <2>1. \E p \in Proc : Start(p) \/ FinishStartup(p) \/ \E S \in SUBSET Proc : Die(S)
    <3>1. ASSUME NEW t \in Thread, TryLock(t) PROVE FALSE
      BY <1>2, <3>1 DEF TryLock, Typed, TypeOK
    <3>2. ASSUME NEW t \in Thread, ClaimExecution(t) PROVE FALSE
      BY <1>2, <3>2 DEF ClaimExecution
    <3>3. ASSUME NEW t \in Thread,
                 \/ PlanStart(t) \/ SyncReservation(t) \/ Abandon(t) \/ Drop(t) \/ DropUnsettled(t)
                 \/ NextCandidate(t) \/ RecoverReserved(t)
                 \/ ProgressExecution(t) \/ FinishExecution(t) \/ FailExecution(t)
          PROVE  FALSE
      BY <1>2, <3>3 DEF PlanStart, SyncReservation, Abandon, Drop, DropUnsettled, NextCandidate, RecoverReserved,
         ProgressExecution, FinishExecution, FailExecution, Update
    <3>4. ASSUME NEW t \in Thread, NEW j \in Job, Enqueue(t, j) \/ PlanRetry(t, j) PROVE FALSE
      BY <1>2, <3>4 DEF Enqueue, PlanRetry
    <3>5. ASSUME NEW p \in Proc, ClearFinished(p) \/ \E j \in Job : Cancel(p, j) PROVE FALSE
      BY <1>2, <3>5 DEF ClearFinished, Cancel
    <3>6. ~UNCHANGED vars
      BY <1>2 DEF vars
    <3>7. ASSUME PowerLoss PROVE \E p \in Proc : \E S \in SUBSET Proc : Die(S)
      <4>1. \E p \in Proc : phase'[p] # phase[p]
        BY <1>0, <1>2, <3>7 DEF PowerLoss, Die
      <4> QED BY <3>7, <4>1 DEF PowerLoss
    <3> QED BY <3>1, <3>2, <3>3, <3>4, <3>5, <3>6, <3>7 DEF Next, Crash
  <2>2. ASSUME NEW p \in Proc, Start(p) \/ FinishStartup(p) PROVE StartupAlone'
    <3>1. \A t \in Thread : Home[t] = p => pc[t] = "idle"
      BY <2>2 DEF Start, FinishStartup, StartupAlone
    <3>2. \A q \in Proc \ {p} : phase'[q] = phase[q]
      BY <1>0, <2>2 DEF Start, FinishStartup
    <3> QED BY <1>0, <1>2, <3>1, <3>2 DEF StartupAlone
  <2>3. ASSUME NEW S \in SUBSET Proc, Die(S) PROVE StartupAlone'
    <3>1. \A t \in Thread : pc'[t] # "idle" => Home[t] \notin S /\ phase'[Home[t]] = phase[Home[t]]
      BY <1>0, <2>3 DEF Die
    <3> QED BY <1>2, <3>1 DEF StartupAlone
  <2> QED BY <2>1, <2>2, <2>3
<1>3. ASSUME NEW t \in Thread, Moves(t), phase' = phase PROVE StartupAlone'
  <2>1. ASSUME NEW u \in Thread, pc'[u] # "idle"
        PROVE  /\ phase[Home[u]] # "down"
               /\ phase[Home[u]] = "recovering" <=> (pc'[u] # "working" /\ plan'[u].mode = "recover")
    <3>1. CASE u = t
      BY <1>3, <2>1, <3>1 DEF Moves, StartupAlone
    <3>2. CASE u # t
      BY <1>3, <2>1, <3>2 DEF Moves, OthersStay, StartupAlone
    <3> QED BY <3>1, <3>2
  <2>2. ASSUME NEW u \in Thread, NEW v \in Thread, pc'[u] # "idle", pc'[v] # "idle",
               Home[u] = Home[v], phase[Home[u]] = "recovering"
        PROVE  u = v
    <3>1. ASSUME NEW w \in Thread, pc'[w] # "idle"
          PROVE  \/ pc[w] # "idle"
                 \/ w = t /\ phase[Home[t]] = "up"
                 \/ w = t /\ \A x \in Thread : Home[x] = Home[t] => pc[x] = "idle"
      BY <1>3, <3>1 DEF Moves, OthersStay
    <3> QED BY <2>2, <3>1 DEF StartupAlone
  <2> QED BY <1>3, <2>1, <2>2 DEF StartupAlone
<1>4. ASSUME NEW t \in Thread, Moves(t), phase' = [phase EXCEPT ![Home[t]] = "down"],
             pc'[t] = "idle", pc[t] = "planned", plan[t].mode = "recover"
      PROVE  StartupAlone'
  <2>1. \A u \in Thread : Home[u] = Home[t] => pc'[u] = "idle"
    BY <1>4 DEF StartupAlone, Moves, OthersStay
  <2>2. \A u \in Thread : pc'[u] # "idle" =>
           pc'[u] = pc[u] /\ plan'[u] = plan[u] /\ phase'[Home[u]] = phase[Home[u]]
    BY <1>0, <1>4, <2>1 DEF Moves, OthersStay
  <2> QED BY <2>2, <2>1 DEF StartupAlone
<1>5. ASSUME NEW S \in SUBSET Proc, Die(S) PROVE StartupAlone'
  <2>1. \A u \in Thread : pc'[u] # "idle" =>
           pc'[u] = pc[u] /\ plan'[u] = plan[u] /\ phase'[Home[u]] = phase[Home[u]]
    BY <1>0, <1>5 DEF Die
  <2> QED BY <2>1 DEF StartupAlone
<1> QED BY <1>1, <1>2, <1>3, <1>4, <1>5, ThreadMoves

\* Initially no process runs and no legacy row has an attempt.
LEMMA InitLife == Init => LifeInv
<1> SUFFICES ASSUME Init PROVE LifeInv
  OBVIOUS
<1>1. LegacyUnclaimed
  BY ConstantsAssumption DEF Init, LegacyUnclaimed
<1>2. StartsUnclaimed /\ StartupAlone
  BY DEF Init, StartsUnclaimed, StartupAlone
<1> QED BY <1>1, <1>2 DEF LifeInv

\* The invariants together.
THEOREM LifeInductive == Spec => [](IndInv /\ LifeInv)
<1>1. Init => IndInv /\ LifeInv
  BY InitInductive, InitLife
<1>2. (IndInv /\ LifeInv) /\ [Next]_vars => (IndInv /\ LifeInv)'
  BY NextInductive, NextLegacy, NextStarts, NextStartup DEF IndInv, LifeInv, Typed
<1> QED BY <1>1, <1>2, PTL DEF Spec

-----------------------------------------------------------------------------
(* What one step may make of a row.                                         *)

\* A claim that succeeds: the row was as planned, nobody works on the job, and the next
\* attempt has an owner nobody had.
LEMMA ClaimedRow ==
  ASSUME IndInv, LifeInv, NEW t \in Thread, ClaimExecution(t), ~UNCHANGED rowVars
  PROVE  LET j == plan[t].job IN
         /\ j \in Job \ Legacy /\ Working(j) = {}
         /\ attempt[j] \in Attempt /\ attempt[j].gen < MaxGeneration
         /\ \/ status[j] = "queued" /\ attempt[j].gen = 0
            \/ status[j] \in Retryable
         /\ status' = [status EXCEPT ![j] = "running"]
         /\ attempt'[j].gen = attempt[j].gen + 1 /\ attempt'[j] \in Attempt
         /\ \A i \in Job : attempt[i] # None => attempt'[j].owner > attempt[i].owner
         /\ \A i \in Job \ {j} : attempt'[i] = attempt[i]
         /\ pc' = [pc EXCEPT ![t] = "working"] /\ pc[t] = "reserved"
         /\ exec' = [exec EXCEPT ![t] = exec'[t]] /\ exec'[t].job = j
<1> DEFINE j == plan[t].job
<1> USE ConstantsAssumption, NoneAssumption
<1>0. Typed
  BY DEF IndInv, Typed
<1>1. /\ pc[t] = "reserved" /\ plan[t] \in Plan /\ j \in Job /\ plan[t].mode \in {"start", "retry"}
      /\ status[j] = plan[t].status /\ attempt[j] = plan[t].attempt /\ plan[t].attempt.gen < MaxGeneration
      /\ ClaimRow(j, NextAttempt(plan[t])) /\ NextAttempt(plan[t]) \in Attempt
      /\ NextAttempt(plan[t]).owner = minted + 1 /\ NextAttempt(plan[t]).gen = plan[t].attempt.gen + 1
      /\ pc' = [pc EXCEPT ![t] = "working"] /\ exec'[t].job = j
      /\ exec' = [exec EXCEPT ![t] = [job |-> j, attempt |-> NextAttempt(plan[t])]]
  BY <1>0, ClaimSteps DEF MatchesPlan
<1>2. attempt[j] \in Attempt /\ attempt[j] # None
  BY <1>1 DEF Plan
<1>3. j \notin Legacy
  BY <1>2 DEF LifeInv, LegacyUnclaimed
<1>4. Working(j) = {}
  BY <1>1, HoldersExclusive DEF IndInv, Working, JobOf
<1>5. plan[t].mode = "start" => status[j] = "queued" /\ attempt[j].gen = 0
  BY <1>1 DEF IndInv, ThreadsEquipped, LifeInv, StartsUnclaimed, Unclaimed
<1>6. plan[t].mode = "retry" => status[j] \in Retryable
  BY <1>1 DEF IndInv, ThreadsEquipped
<1>7. /\ status' = [status EXCEPT ![j] = "running"] /\ attempt'[j] = NextAttempt(plan[t])
      /\ \A i \in Job \ {j} : attempt'[i] = attempt[i]
  BY <1>0, <1>1 DEF ClaimRow, Typed, TypeOK
<1>8. \A i \in Job : attempt[i] # None => attempt'[j].owner > attempt[i].owner
  BY <1>0, <1>1, <1>7 DEF IndInv, RowsAgree, Typed, TypeOK, Attempt
<1>9. exec' = [exec EXCEPT ![t] = exec'[t]]
  BY <1>0, <1>1 DEF Typed, TypeOK
<1> QED BY <1>1, <1>2, <1>3, <1>4, <1>5, <1>6, <1>7, <1>8, <1>9

\* A recovery that interrupts: the row runs the attempt that was observed, nobody works
\* on the job, and the setup thread of a starting process holds its lock.
LEMMA RecoveredRow ==
  ASSUME IndInv, LifeInv, NEW t \in Thread, RecoverReserved(t), MatchesPlan(plan[t])
  PROVE  LET j == plan[t].job IN
         /\ j \in Job \ Legacy /\ Working(j) = {} /\ status[j] = "running"
         /\ holder[j] = t /\ phase[Home[t]] = "recovering"
<1> DEFINE j == plan[t].job
<1> USE ConstantsAssumption, NoneAssumption
<1>1. pc[t] = "reserved" /\ plan[t] \in Plan /\ plan[t].mode = "recover" /\ plan[t].status = "running"
  BY DEF RecoverReserved, IndInv, ThreadsEquipped
<1>2. j \in Job /\ status[j] = "running" /\ attempt[j] \in Attempt
  BY <1>1 DEF MatchesPlan, Plan
<1>3. j \notin Legacy
  BY <1>2 DEF LifeInv, LegacyUnclaimed
<1>4. Working(j) = {}
  BY <1>1, HoldersExclusive DEF IndInv, Working, JobOf
<1>5. holder[j] = t /\ phase[Home[t]] = "recovering"
  BY <1>1 DEF IndInv, HoldersHold, JobOf, LifeInv, StartupAlone
<1> QED BY <1>2, <1>3, <1>4, <1>5

\* What one step may make of the row of job j.
RowStep(j) ==
  \/ status'[j] = status[j] /\ (attempt'[j] = attempt[j])
  \/ j \notin Legacy /\ status[j] = "none" /\ status'[j] = "queued"
  \/ /\ status[j] \in Cancellable /\ status'[j] = "cancelled" /\ attempt'[j] = attempt[j]
  \/ /\ status[j] \in Finished /\ status'[j] = "cleared" /\ attempt'[j] = None
  \/ /\ j \notin Legacy /\ status[j] = "running" /\ status'[j] \in {"done", "failed"}
     /\ attempt'[j] = attempt[j]
  \/ /\ j \notin Legacy /\ status[j] = "running" /\ status'[j] = "interrupted"
     /\ attempt'[j] = attempt[j] /\ Working(j) = {}
     /\ \E t \in Thread : holder[j] = t /\ phase[Home[t]] = "recovering"
  \/ /\ j \notin Legacy /\ status[j] \in Retryable \cup {"queued"} /\ status'[j] = "running"
     /\ attempt'[j].gen = attempt[j].gen + 1
     /\ \A i \in Job : attempt[i] # None => attempt'[j].owner > attempt[i].owner

\* Every step treats every row so.
LEMMA RowSteps ==
  ASSUME IndInv, LifeInv, [Next]_vars, NEW j \in Job
  PROVE  RowStep(j)
<1> USE ConstantsAssumption, NoneAssumption
<1>0. TypeOK
  BY DEF IndInv
<1>1. CASE UNCHANGED rowVars
  BY <1>1 DEF RowStep
<1>2. ASSUME NEW t \in Thread, NEW i \in Job, Enqueue(t, i) PROVE RowStep(j)
  <2>1. i \notin Legacy /\ status[i] = "none" /\ status' = [status EXCEPT ![i] = "queued"]
    BY <1>2 DEF Enqueue, LifeInv, LegacyUnclaimed
  <2>2. attempt' = [attempt EXCEPT ![i] = Unclaimed]
    BY <1>2 DEF Enqueue
  <2> QED BY <1>0, <2>1, <2>2 DEF RowStep, TypeOK
<1>3. ASSUME NEW t \in Thread, RecoverReserved(t) PROVE RowStep(j)
  <2>1. attempt' = attempt
    BY <1>3 DEF RecoverReserved
  <2>2. CASE MatchesPlan(plan[t])
    <3>1. status' = [status EXCEPT ![plan[t].job] = "interrupted"]
      BY <1>3, <2>2 DEF RecoverReserved
    <3>2. /\ plan[t].job \in Job \ Legacy /\ Working(plan[t].job) = {} /\ status[plan[t].job] = "running"
          /\ holder[plan[t].job] = t /\ phase[Home[t]] = "recovering"
      BY <1>3, <2>2, RecoveredRow
    <3>3. CASE j = plan[t].job
      BY <1>0, <2>1, <3>1, <3>2, <3>3 DEF RowStep, TypeOK
    <3>4. CASE j # plan[t].job
      BY <1>0, <2>1, <3>1, <3>4 DEF RowStep, TypeOK
    <3> QED BY <3>3, <3>4
  <2>3. CASE ~MatchesPlan(plan[t])
    BY <1>3, <2>1, <2>3 DEF RecoverReserved, RowStep
  <2> QED BY <2>2, <2>3
<1>4. ASSUME NEW t \in Thread, ClaimExecution(t), ~UNCHANGED rowVars PROVE RowStep(j)
  <2>1. CASE j = plan[t].job
    BY <1>0, <1>4, <2>1, ClaimedRow DEF RowStep, TypeOK
  <2>2. CASE j # plan[t].job
    BY <1>0, <1>4, <2>2, ClaimedRow DEF RowStep, TypeOK
  <2> QED BY <2>1, <2>2
<1>5. ASSUME NEW t \in Thread, NEW s \in {"running", "done", "failed"}, Update(t, s) PROVE RowStep(j)
  <2>1. /\ attempt' = attempt /\ status[exec[t].job] = "running"
        /\ status' = [status EXCEPT ![exec[t].job] = s]
        /\ exec[t].attempt \in Attempt /\ attempt[exec[t].job] = exec[t].attempt
    BY <1>5 DEF Update, Checked, IndInv, ThreadsEquipped, Exec
  <2>2. exec[t].job \notin Legacy
    BY <2>1 DEF LifeInv, LegacyUnclaimed
  <2> QED BY <1>0, <2>1, <2>2 DEF RowStep, TypeOK
<1>6. ASSUME NEW p \in Proc, NEW i \in Job, Cancel(p, i) PROVE RowStep(j)
  BY <1>0, <1>6 DEF Cancel, RowStep, TypeOK
<1>7. ASSUME NEW p \in Proc, ClearFinished(p) PROVE RowStep(j)
  BY <1>7 DEF ClearFinished, RowStep
<1> HIDE DEF rowVars
<1> QED BY <1>1, <1>2, <1>3, <1>4, <1>5, <1>6, <1>7, RowActions

\* No step adopts a legacy row, interrupts a job whose worker lives, or changes an
\* outcome other than by a new claim under an owner nobody had.
THEOREM RowsAreRespected == Spec => RowsRespected
<1>1. IndInv /\ LifeInv /\ [Next]_vars =>
        [\A j \in Legacy :
           /\ attempt'[j] = attempt[j]
           /\ \/ status'[j] = status[j]
              \/ status[j] \in Cancellable /\ status'[j] = "cancelled"
              \/ status[j] \in Finished /\ status'[j] = "cleared"]_vars
  <2> SUFFICES ASSUME IndInv, LifeInv, [Next]_vars, NEW j \in Legacy
               PROVE  /\ attempt'[j] = attempt[j]
                      /\ \/ status'[j] = status[j]
                         \/ status[j] \in Cancellable /\ status'[j] = "cancelled"
                         \/ status[j] \in Finished /\ status'[j] = "cleared"
    OBVIOUS
  <2>1. attempt[j] = None /\ j \in Job
    BY ConstantsAssumption DEF LifeInv, LegacyUnclaimed
  <2>2. RowStep(j)
    BY <2>1, RowSteps
  <2> QED BY <2>1, <2>2 DEF RowStep
<1>2. IndInv /\ LifeInv /\ [Next]_vars =>
        [\A j \in Job :
           status[j] # "interrupted" /\ status'[j] = "interrupted" =>
               /\ status[j] = "running"
               /\ Working(j) = {}
               /\ \E t \in Thread : holder[j] = t /\ phase[Home[t]] = "recovering"]_vars
  BY RowSteps DEF RowStep
<1>3. IndInv /\ LifeInv /\ [Next]_vars =>
        [\A j \in Job : status[j] \in {"done", "failed", "cancelled", "interrupted"}
                        /\ status'[j] # status[j] =>
           \/ status'[j] = "cleared"
           \/ /\ status[j] \in Retryable
              /\ status'[j] = "running"
              /\ attempt'[j].gen = attempt[j].gen + 1
              /\ \A i \in Job : attempt[i] # None => attempt'[j].owner > attempt[i].owner]_vars
  BY RowSteps DEF RowStep, Cancellable
<1>4. Spec => LegacyUntouched
  BY <1>1, LifeInductive, PTL DEF Spec, LegacyUntouched
<1>5. Spec => InterruptOnlyDead
  BY <1>2, LifeInductive, PTL DEF Spec, InterruptOnlyDead
<1>6. Spec => OutcomeFinal
  BY <1>3, LifeInductive, PTL DEF Spec, OutcomeFinal
<1> QED BY <1>4, <1>5, <1>6, PTL DEF RowsRespected

-----------------------------------------------------------------------------
(* The refinement of JobLifecycle.                                          *)

\* What the refinement mapping makes of generation and live.
Generation == [j \in Job |-> IF attempt[j] = None THEN 0 ELSE attempt[j].gen]
LiveJobs   == {j \in Job : Working(j) # {}}

\* A step of the life cycle, or none that it can see.
LifeStep == [Lifecycle!LifecycleNext]_(Lifecycle!lifecycleVars)

\* Who works after a step, from who worked before it.
LEMMA WorkersSame ==
  ASSUME \A u \in Thread : pc'[u] = "working" <=> pc[u] = "working",
         \A u \in Thread : pc[u] = "working" => exec'[u] = exec[u]
  PROVE  LiveJobs' = LiveJobs
<1>1. \A j \in Job : Working(j)' = Working(j)
  BY DEF Working
<1> QED BY <1>1 DEF LiveJobs

\* A step in which nobody begins may only end executions.
LEMMA WorkersFewer ==
  ASSUME \A u \in Thread : pc'[u] = "working" => pc[u] = "working" /\ exec'[u] = exec[u]
  PROVE  LiveJobs' \in SUBSET LiveJobs
<1>1. \A j \in Job : Working(j)' \subseteq Working(j)
  BY DEF Working
<1> QED BY <1>1 DEF LiveJobs

\* A thread that gives a plan or a handle back starts nothing.
LEMMA ReleaseFewer ==
  ASSUME Typed, NEW t \in Thread, Release(t)
  PROVE  LiveJobs' \in SUBSET LiveJobs /\ (pc[t] # "working" => LiveJobs' = LiveJobs)
<1>1. \A u \in Thread \ {t} : pc'[u] = pc[u] /\ exec'[u] = exec[u]
  BY DEF Release, Typed, TypeOK
<1>2. pc'[t] = "idle"
  BY DEF Release, Typed, TypeOK
<1> QED BY <1>1, <1>2, WorkersFewer, WorkersSame

\* The generation is that of the attempt row.
LEMMA SameGeneration ==
  ASSUME attempt' = attempt PROVE Generation' = Generation
  BY DEF Generation

\* Every step of the store, the locks and the processes is a step of the life cycle, or
\* none that it can see.
LEMMA StepLifecycle ==
  ASSUME IndInv, LifeInv, [Next]_vars
  PROVE  LifeStep
<1> USE ConstantsAssumption, NoneAssumption
<1> DEFINE Stays == status' = status /\ Generation' = Generation /\ LiveJobs' = LiveJobs
           Ends  == status' = status /\ Generation' = Generation /\ LiveJobs' \in SUBSET LiveJobs
<1>0. Typed
  BY DEF IndInv, Typed
<1>1. Stays => LifeStep
  BY DEF LifeStep, Lifecycle!lifecycleVars, Generation, LiveJobs
<1>2. Ends => LifeStep
  BY DEF LifeStep, Lifecycle!LifecycleNext, Lifecycle!End, Generation, LiveJobs
<1>3. ASSUME NEW t \in Thread, NEW j \in Job, Enqueue(t, j) PROVE LifeStep
  <2>1. status[j] = "none" /\ status' = [status EXCEPT ![j] = "queued"] /\ attempt[j] = None
    BY <1>3 DEF Enqueue, IndInv, RowsAgree
  <2>2. Generation' = Generation
    <3>1. attempt' = [attempt EXCEPT ![j] = Unclaimed]
      BY <1>3 DEF Enqueue
    <3>2. \A i \in Job : Generation'[i] = Generation[i]
      BY <1>0, <2>1, <3>1 DEF Generation, Typed, TypeOK, Unclaimed
    <3> QED BY <3>2 DEF Generation
  <2>3. LiveJobs' = LiveJobs
    BY <1>0, <1>3, WorkersSame DEF Enqueue, Typed, TypeOK
  <2> QED BY <2>1, <2>2, <2>3 DEF LifeStep, Lifecycle!LifecycleNext, Lifecycle!Submit, Generation, LiveJobs
<1>4. ASSUME NEW t \in Thread, NEW j \in Job, PlanRetry(t, j) PROVE LifeStep
  <2>1. UNCHANGED rowVars /\ LiveJobs' = LiveJobs
    BY <1>0, <1>4, WorkersSame DEF PlanRetry, Typed, TypeOK
  <2> QED BY <1>1, <2>1, SameGeneration
<1>5. ASSUME NEW t \in Thread, PlanStart(t) \/ NextCandidate(t) \/ TryLock(t) \/ SyncReservation(t) PROVE LifeStep
  <2>1. UNCHANGED rowVars /\ exec' = exec
    BY <1>5 DEF PlanStart, NextCandidate, TryLock, SyncReservation
  <2>2. \A u \in Thread : pc'[u] = "working" <=> pc[u] = "working"
    BY <1>0, <1>5 DEF PlanStart, NextCandidate, TryLock, SyncReservation, Typed, TypeOK
  <2> QED BY <1>1, <2>1, <2>2, WorkersSame, SameGeneration
<1>6. ASSUME NEW t \in Thread, Abandon(t) \/ Drop(t) \/ DropUnsettled(t) PROVE LifeStep
  <2>1. UNCHANGED rowVars /\ Release(t)
    BY <1>6 DEF Abandon, Drop, DropUnsettled
  <2> QED BY <1>0, <1>2, <2>1, ReleaseFewer, SameGeneration
<1>7. ASSUME NEW t \in Thread, ClaimExecution(t), UNCHANGED rowVars PROVE LifeStep
  <2>1. CASE Release(t)
    BY <1>0, <1>2, <1>7, <2>1, ReleaseFewer, SameGeneration
  <2>2. CASE ~Release(t)
    <3>1. /\ ClaimRow(plan[t].job, NextAttempt(plan[t])) /\ NextAttempt(plan[t]).owner = minted + 1
          /\ minted \in Nat
      BY <1>0, <1>7, <2>2, ClaimSteps DEF Typed, TypeOK
    <3>2. FALSE
      BY <1>7, <3>1 DEF ClaimRow
    <3> QED BY <3>2
  <2> QED BY <2>1, <2>2
<1>8. ASSUME NEW t \in Thread, ClaimExecution(t), ~UNCHANGED rowVars PROVE LifeStep
  <2>0. PICK j \in Job : j = plan[t].job
    BY <1>8, ClaimedRow
  <2>1. /\ j \in Job \ Legacy /\ Working(j) = {}
        /\ attempt[j] \in Attempt /\ attempt[j].gen < MaxGeneration
        /\ \/ status[j] = "queued" /\ attempt[j].gen = 0
           \/ status[j] \in Retryable
        /\ status' = [status EXCEPT ![j] = "running"]
        /\ attempt'[j].gen = attempt[j].gen + 1 /\ attempt'[j] \in Attempt
        /\ \A i \in Job \ {j} : attempt'[i] = attempt[i]
        /\ pc' = [pc EXCEPT ![t] = "working"] /\ pc[t] = "reserved"
        /\ exec' = [exec EXCEPT ![t] = exec'[t]] /\ exec'[t].job = j
    BY <1>8, <2>0, ClaimedRow
  <2>2. Generation[j] = attempt[j].gen /\ attempt[j].gen \in Nat
    BY <2>1 DEF Generation, Attempt
  <2>3. Generation' = [Generation EXCEPT ![j] = @ + 1]
    <3>1. \A i \in Job : Generation'[i] = IF i = j THEN Generation[j] + 1 ELSE Generation[i]
      BY <2>1, <2>2 DEF Generation
    <3> QED BY <2>1, <3>1 DEF Generation
  <2>4. LiveJobs' = LiveJobs \cup {j}
    <3>1. Working(j)' = {t}
      <4>1. t \in Working(j)'
        BY <1>0, <2>1 DEF Working, Typed, TypeOK
      <4>2. ASSUME NEW u \in Thread, u # t PROVE u \notin Working(j)'
        BY <1>0, <2>1, <4>2 DEF Working, Typed, TypeOK
      <4> QED BY <4>1, <4>2 DEF Working
    <3>2. \A i \in Job \ {j} : Working(i)' = Working(i)
      BY <1>0, <2>1 DEF Working, Typed, TypeOK
    <3> QED BY <2>1, <3>1, <3>2 DEF LiveJobs
  <2>5. j \notin LiveJobs
    BY <2>1 DEF LiveJobs
  <2> QED
    BY <2>1, <2>2, <2>3, <2>4, <2>5
    DEF LifeStep, Lifecycle!LifecycleNext, Lifecycle!Begin, Generation, LiveJobs, Retryable
<1>9. ASSUME NEW t \in Thread, NEW s \in {"running", "done", "failed"}, Update(t, s) PROVE LifeStep
  <2> DEFINE j == exec[t].job
  <2>1. /\ pc[t] = "working" /\ status[j] = "running" /\ status' = [status EXCEPT ![j] = s]
        /\ attempt' = attempt /\ pc' = pc /\ exec' = exec /\ j \in Job
    BY <1>9 DEF Update, IndInv, ThreadsEquipped, Exec
  <2>2. Generation' = Generation /\ LiveJobs' = LiveJobs
    BY <2>1, WorkersSame, SameGeneration
  <2>3. j \in LiveJobs
    BY <2>1 DEF LiveJobs, Working
  <2>4. CASE s = "running"
    BY <1>0, <1>1, <2>1, <2>2, <2>4 DEF Typed, TypeOK
  <2>5. CASE s \in {"done", "failed"}
    <3> HIDE DEF j
    <3> QED BY <2>1, <2>2, <2>3, <2>5 DEF LifeStep, Lifecycle!LifecycleNext, Lifecycle!Settle, Generation, LiveJobs
  <2> QED BY <2>4, <2>5
<1>10. ASSUME NEW t \in Thread, RecoverReserved(t) PROVE LifeStep
  <2> DEFINE j == plan[t].job
  <2>1. attempt' = attempt /\ Release(t) /\ pc[t] # "working"
    BY <1>10 DEF RecoverReserved
  <2>2. Generation' = Generation /\ LiveJobs' = LiveJobs
    BY <1>0, <2>1, ReleaseFewer, SameGeneration
  <2>3. CASE MatchesPlan(plan[t])
    <3>1. status' = [status EXCEPT ![j] = "interrupted"]
      BY <1>10, <2>3 DEF RecoverReserved
    <3>2. j \in Job \ Legacy /\ j \notin LiveJobs /\ status[j] = "running"
      BY <1>10, <2>3, RecoveredRow DEF LiveJobs
    <3> HIDE DEF j
    <3> QED BY <2>2, <3>1, <3>2 DEF LifeStep, Lifecycle!LifecycleNext, Lifecycle!Interrupt, Generation, LiveJobs
  <2>4. CASE ~MatchesPlan(plan[t])
    BY <1>1, <1>10, <2>2, <2>4 DEF RecoverReserved
  <2> QED BY <2>3, <2>4
<1>11. ASSUME NEW p \in Proc, NEW j \in Job, Cancel(p, j) PROVE LifeStep
  <2>1. /\ status[j] \in {"queued", "running"} /\ status' = [status EXCEPT ![j] = "cancelled"]
        /\ attempt' = attempt /\ pc' = pc /\ exec' = exec
    BY <1>11 DEF Cancel, Cancellable
  <2>2. Generation' = Generation /\ LiveJobs' = LiveJobs
    BY <2>1, WorkersSame, SameGeneration
  <2> QED BY <2>1, <2>2 DEF LifeStep, Lifecycle!LifecycleNext, Lifecycle!UserCancel, Generation, LiveJobs
<1>12. ASSUME NEW p \in Proc, ClearFinished(p) PROVE LifeStep
  <2>1. /\ status' = [j \in Job |-> IF status[j] \in {"done", "failed", "cancelled"} THEN "cleared" ELSE status[j]]
        /\ attempt' = [j \in Job |-> IF status[j] \in {"done", "failed", "cancelled"} THEN None ELSE attempt[j]]
        /\ pc' = pc /\ exec' = exec
    BY <1>12 DEF ClearFinished, Finished
  <2>2. LiveJobs' = LiveJobs
    BY <2>1, WorkersSame
  <2>3. Generation' = [j \in Job |-> IF status[j] \in {"done", "failed", "cancelled"} THEN 0 ELSE Generation[j]]
    BY <2>1 DEF Generation
  <2> QED BY <2>1, <2>2, <2>3 DEF LifeStep, Lifecycle!LifecycleNext, Lifecycle!UserClear, Generation, LiveJobs
<1>13. ASSUME NEW p \in Proc, Start(p) \/ FinishStartup(p) PROVE LifeStep
  <2>1. UNCHANGED rowVars /\ pc' = pc /\ exec' = exec
    BY <1>13 DEF Start, FinishStartup
  <2> QED BY <1>1, <2>1, WorkersSame, SameGeneration
<1>14. ASSUME NEW S \in SUBSET Proc, Die(S) PROVE LifeStep
  <2>1. UNCHANGED rowVars /\ \A u \in Thread : pc'[u] = "working" => pc[u] = "working" /\ exec'[u] = exec[u]
    BY <1>14 DEF Die
  <2> QED BY <1>2, <2>1, WorkersFewer, SameGeneration
<1>15. CASE UNCHANGED vars
  BY <1>1, <1>15, WorkersSame, SameGeneration DEF vars
<1>16. ASSUME NEW t \in Thread, ClaimExecution(t) PROVE LifeStep
  BY <1>7, <1>8, <1>16
<1>17. ASSUME NEW p \in Proc, Crash(p) PROVE LifeStep
  BY <1>14, <1>17 DEF Crash
<1>18. ASSUME PowerLoss PROVE LifeStep
  BY <1>14, <1>18 DEF PowerLoss
<1> QED
  BY <1>3, <1>4, <1>5, <1>6, <1>9, <1>10, <1>11, <1>12, <1>13, <1>15, <1>16, <1>17, <1>18
  DEF Next, ProgressExecution, FinishExecution, FailExecution

\* The job store, the locks, the threads and the processes implement the life cycle a
\* user is promised: one execution at a time, each of a new generation, settled only by
\* itself and interrupted only when it is dead.
THEOREM RefinesLifecycle == Spec => ImplementsLifecycle
<1>1. Init => Lifecycle!LifecycleInit
  <2> SUFFICES ASSUME Init PROVE Lifecycle!LifecycleInit
    OBVIOUS
  <2>1. Generation = [j \in Job |-> 0]
    BY DEF Init, Generation
  <2>2. LiveJobs = {}
    BY DEF Init, LiveJobs, Working
  <2> QED BY <2>1, <2>2 DEF Init, RowStatus, Lifecycle!LifecycleInit, Generation, LiveJobs
<1>2. IndInv /\ LifeInv /\ [Next]_vars => [Lifecycle!LifecycleNext]_(Lifecycle!lifecycleVars)
  BY StepLifecycle DEF LifeStep
<1> QED BY <1>1, <1>2, LifeInductive, PTL DEF Spec, ImplementsLifecycle, Lifecycle!LifecycleSpec

=============================================================================
