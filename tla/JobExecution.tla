---------------------------- MODULE JobExecution ----------------------------
(***************************************************************************)
(* Durable job execution ownership: src-tauri/src/jobs.rs (the job store), *)
(* jobs/execution.rs (attempt metadata, fenced transitions),               *)
(* job_execution.rs (per-job operating-system locks) and the host          *)
(* functions of main.rs that drive them.                                   *)
(*                                                                         *)
(* Several application processes may have the same state store open.  Each *)
(* process runs threads.  A thread that wants to execute a job copies a    *)
(* claim plan out of the store, reserves the job's lock file outside every *)
(* mutex and every transaction, and only then claims the row.  The plan    *)
(* may be stale by then; the row may be cancelled, cleared, retried or     *)
(* recovered meanwhile; the process may crash or the machine lose power    *)
(* between any two steps.                                                  *)
(***************************************************************************)
EXTENDS Naturals

CONSTANTS
    Proc,           \* application processes (slots: a slot may be relaunched)
    Thread,         \* threads of the processes
    Home,           \* [Thread -> Proc], the process a thread belongs to
    Job,            \* job identifiers, an initial segment of Nat \ {0}
    Legacy,         \* SUBSET Job, rows written before attempts were recorded
    MaxGeneration,  \* i64::MAX of attempt.generation
    MaxCrashes,     \* bound on process crashes and power losses
    Faults,         \* BOOLEAN, may a thread panic or a final write fail
    None            \* NULL: no thread, no attempt row, no plan, no handle

VARIABLES
    status,     \* [Job -> status column]; "none" not inserted, "cleared" deleted
    attempt,    \* [Job -> job_attempts row, or None]
    detail,     \* [Job -> generation that wrote stage/progress/error, 0 if NULL]
    minted,     \* number of owner tokens drawn so far (randomblob(16))
    lockFile,   \* [Job -> state of the persistent lock file on disk]
    holder,     \* [Job -> thread whose open file holds the OS lock]
    phase,      \* [Proc -> "down" | "recovering" | "up"]
    candidates, \* [Proc -> recovery candidates copied at startup, not yet tried]
    pc,         \* [Thread -> progress of start_job / retry / recovery]
    plan,       \* [Thread -> copied ClaimPlan, or None]
    exec,       \* [Thread -> JobExecution identity, or None]
    crashes     \* crashes and power losses so far

rowVars    == <<status, attempt, detail, minted>>
lockVars   == <<lockFile, holder>>
procVars   == <<phase, candidates, crashes>>
threadVars == <<pc, plan, exec>>
vars == <<rowVars, lockVars, procVars, threadVars>>

-----------------------------------------------------------------------------
(* Types. *)

RowStatus == {"queued", "running", "done", "failed", "cancelled", "interrupted"}
Cancellable == {"queued", "running"}
Finished == {"done", "failed", "cancelled"}
\* Faulty variant: completed work may be retried too.
RetryableWithDone == {"failed", "cancelled", "interrupted", "done"}

Retryable == {"failed", "cancelled", "interrupted"}

\* A job_attempts row.  Generation 0 has a NULL owner, written 0 here; the
\* k-th token drawn is written k, so that tokens drawn apart never collide.
Attempt == [gen : Nat, owner : Nat]
Unclaimed == [gen |-> 0, owner |-> 0]

Plan == [job : Job, status : RowStatus, attempt : Attempt,
         mode : {"start", "retry", "recover"}]

Exec == [job : Job, attempt : Attempt]

ASSUME ConstantsAssumption ==
    /\ Home \in [Thread -> Proc]
    /\ Job \subseteq Nat \ {0}
    /\ Legacy \subseteq Job
    /\ MaxGeneration \in Nat \ {0}
    /\ MaxCrashes \in Nat
    /\ Faults \in BOOLEAN

ASSUME NoneAssumption ==
    /\ None \notin Thread
    /\ None \notin Attempt
    /\ None \notin Plan
    /\ None \notin Exec

TypeOK ==
    /\ status \in [Job -> RowStatus \cup {"none", "cleared"}]
    /\ attempt \in [Job -> Attempt \cup {None}]
    /\ detail \in [Job -> Nat]
    /\ minted \in Nat
    /\ lockFile \in [Job -> {"absent", "unsynced", "durable"}]
    /\ holder \in [Job -> Thread \cup {None}]
    /\ phase \in [Proc -> {"down", "recovering", "up"}]
    /\ candidates \in [Proc -> SUBSET Plan]
    /\ pc \in [Thread -> {"idle", "enqueued", "planned", "locked", "reserved", "working"}]
    /\ plan \in [Thread -> Plan \cup {None}]
    /\ exec \in [Thread -> Exec \cup {None}]
    /\ crashes \in Nat

\* A store from an earlier version may hold rows of any status and no
\* attempts; opening it adopts none of them.
Init ==
    /\ status \in {s \in [Job -> RowStatus \cup {"none"}] :
                      \A j \in Job : j \in Legacy <=> s[j] # "none"}
    /\ attempt = [j \in Job |-> None]
    /\ detail = [j \in Job |-> 0]
    /\ minted = 0
    /\ lockFile = [j \in Job |-> "absent"]
    /\ holder = [j \in Job |-> None]
    /\ phase = [p \in Proc |-> "down"]
    /\ candidates = [p \in Proc |-> {}]
    /\ pc = [t \in Thread |-> "idle"]
    /\ plan = [t \in Thread |-> None]
    /\ exec = [t \in Thread |-> None]
    /\ crashes = 0

-----------------------------------------------------------------------------
(* Helpers. *)

\* AppState.jobs is a process-local mutex.  start_job keeps it from the
\* insertion of the row to the copy of the plan; everything else takes it for
\* one transaction.
StoreFree(p) == \A t \in Thread : Home[t] = p => pc[t] # "enqueued"

\* Faulty variant: only the attempt is compared, not the status.
MatchesPlanAttemptOnly(c) == attempt[c.job] = c.attempt

\* matches_plan: the row still shows the status and the attempt the plan copied.
MatchesPlan(c) == status[c.job] = c.status /\ attempt[c.job] = c.attempt

\* checked_job: the row exists and carries the attempt of this handle.
Checked(e) == attempt[e.job] = e.attempt

Working(j) == {t \in Thread : pc[t] = "working" /\ exec[t].job = j}

\* Dropping a reservation or the last clone of a JobExecution unlocks the
\* file.  The lock file itself is never unlinked.
Release(t) ==
    /\ holder' = [j \in Job |-> IF holder[j] = t THEN None ELSE holder[j]]
    /\ pc' = [pc EXCEPT ![t] = "idle"]
    /\ plan' = [plan EXCEPT ![t] = None]
    /\ exec' = [exec EXCEPT ![t] = None]

-----------------------------------------------------------------------------
(* The user interface's commands; any running process may issue them. *)

\* jobs.enqueue, the first transaction of start_job: the row and its unclaimed
\* attempt in one transaction.  AUTOINCREMENT never reuses an identifier.
Enqueue(t, j) ==
    /\ phase[Home[t]] = "up" /\ pc[t] = "idle" /\ StoreFree(Home[t])
    /\ status[j] = "none"
    /\ \A i \in Job : i < j => status[i] # "none"
    /\ status' = [status EXCEPT ![j] = "queued"]
    /\ attempt' = [attempt EXCEPT ![j] = Unclaimed]
    /\ pc' = [pc EXCEPT ![t] = "enqueued"]
    /\ plan' = [plan EXCEPT ![t] = [job |-> j, status |-> "queued",
                                     attempt |-> Unclaimed, mode |-> "start"]]
    /\ UNCHANGED <<detail, minted, lockVars, procVars, exec>>

\* claim_plan(StartQueued), the second transaction of start_job, still under
\* the same mutex.  Another process may have cancelled or cleared the row.
PlanStart(t) ==
    /\ pc[t] = "enqueued"
    /\ LET j == plan[t].job IN
       IF status[j] = "queued" /\ attempt[j] = Unclaimed
       THEN /\ pc' = [pc EXCEPT ![t] = "planned"]
            /\ UNCHANGED plan
       ELSE /\ pc' = [pc EXCEPT ![t] = "idle"]
            /\ plan' = [plan EXCEPT ![t] = None]
    /\ UNCHANGED <<rowVars, lockVars, procVars, exec>>

\* claim_plan(RetryTerminal), the first step of prepare_job_retry.  A row
\* without an attempt is legacy-unknown and refused.
PlanRetry(t, j) ==
    /\ phase[Home[t]] = "up" /\ pc[t] = "idle" /\ StoreFree(Home[t])
    /\ attempt[j] # None
    /\ status[j] \in Retryable
    /\ pc' = [pc EXCEPT ![t] = "planned"]
    /\ plan' = [plan EXCEPT ![t] = [job |-> j, status |-> status[j],
                                     attempt |-> attempt[j], mode |-> "retry"]]
    /\ UNCHANGED <<rowVars, lockVars, procVars, exec>>

\* Faulty variant: cancelling also releases the guard of the live worker.
CancelReleasing(p, j) ==
    /\ phase[p] = "up" /\ StoreFree(p)
    /\ status[j] \in Cancellable
    /\ status' = [status EXCEPT ![j] = "cancelled"]
    /\ holder' = [holder EXCEPT ![j] = None]
    /\ UNCHANGED <<attempt, detail, minted, lockFile, procVars, threadVars>>

\* JobStore::cancel.  It touches only the row: the worker keeps its lock.
Cancel(p, j) ==
    /\ phase[p] = "up" /\ StoreFree(p)
    /\ status[j] \in Cancellable
    /\ status' = [status EXCEPT ![j] = "cancelled"]
    /\ UNCHANGED <<attempt, detail, minted, lockVars, procVars, threadVars>>

\* JobStore::clear_finished: every finished row goes, with its attempt.
ClearFinished(p) ==
    /\ phase[p] = "up" /\ StoreFree(p)
    /\ \E j \in Job : status[j] \in Finished
    /\ status' = [j \in Job |-> IF status[j] \in Finished THEN "cleared" ELSE status[j]]
    /\ attempt' = [j \in Job |-> IF status[j] \in Finished THEN None ELSE attempt[j]]
    /\ detail' = [j \in Job |-> IF status[j] \in Finished THEN 0 ELSE detail[j]]
    /\ UNCHANGED <<minted, lockVars, procVars, threadVars>>

-----------------------------------------------------------------------------
(* Reservation: JobExecutionLocks::try_reserve, outside every mutex. *)

\* Faulty variant: the lock attempt does not exclude another holder.
OsLockIgnored(j) == TRUE

\* File::try_lock on a fresh handle: the lock belongs to the open file, so it
\* excludes other threads of the same process as well.
OsLockFree(j) == holder[j] = None

\* private_file and try_lock.  A plan for a job that was claimed before must
\* find the lock file; a first claim may create it, not yet synced.  A missing
\* file (LockUnavailable) and a held lock (Busy) both give the plan up;
\* recovery skips a busy candidate and a missing file ends the startup.
TryLock(t) ==
    /\ pc[t] = "planned"
    /\ LET c == plan[t]
           found == lockFile[c.job] # "absent" \/ c.attempt.gen = 0
           acquired == found /\ OsLockFree(c.job)
           fatal == ~found /\ c.mode = "recover"
       IN /\ lockFile' = IF found /\ lockFile[c.job] = "absent"
                         THEN [lockFile EXCEPT ![c.job] = "unsynced"] ELSE lockFile
          /\ holder' = IF acquired THEN [holder EXCEPT ![c.job] = t] ELSE holder
          /\ pc' = [pc EXCEPT ![t] = IF acquired THEN "locked" ELSE "idle"]
          /\ plan' = IF acquired THEN plan ELSE [plan EXCEPT ![t] = None]
          /\ phase' = IF fatal THEN [phase EXCEPT ![Home[t]] = "down"] ELSE phase
          /\ candidates' = IF fatal THEN [candidates EXCEPT ![Home[t]] = {}] ELSE candidates
    /\ UNCHANGED <<rowVars, crashes, exec>>

\* Faulty variant: the reservation is handed out before anything is synced.
SyncNothing(t) ==
    /\ pc[t] = "locked"
    /\ pc' = [pc EXCEPT ![t] = "reserved"]
    /\ UNCHANGED <<rowVars, lockVars, procVars, plan, exec>>

\* sync_reservation: the file and every directory above it are synced before
\* the reservation is handed out.
SyncReservation(t) ==
    /\ pc[t] = "locked"
    /\ lockFile' = [lockFile EXCEPT ![plan[t].job] = "durable"]
    /\ pc' = [pc EXCEPT ![t] = "reserved"]
    /\ UNCHANGED <<rowVars, holder, procVars, plan, exec>>

\* An error between the plan and the claim: the source guards of a retry are
\* unavailable, the file does not verify, a sync or the claim transaction
\* fails.  The row stays as it is.  During recovery an error ends the startup.
Abandon(t) ==
    /\ pc[t] \in {"planned", "locked", "reserved"}
    /\ plan[t].mode # "recover"
    /\ Release(t)
    /\ UNCHANGED <<rowVars, lockFile, procVars>>

-----------------------------------------------------------------------------
(* Claim and fenced transitions of the row (jobs/execution.rs). *)

\* Faulty variant: the retried row keeps the detail of the attempt before.
ClaimRowKeepingDetail(j, next) ==
    /\ status' = [status EXCEPT ![j] = "running"]
    /\ attempt' = [attempt EXCEPT ![j] = next]
    /\ minted' = next.owner
    /\ UNCHANGED detail

\* The two updates of the claim transaction: the next attempt is recorded, and
\* the row becomes running and loses the detail of earlier attempts.
ClaimRow(j, next) ==
    /\ status' = [status EXCEPT ![j] = "running"]
    /\ attempt' = [attempt EXCEPT ![j] = next]
    /\ detail' = [detail EXCEPT ![j] = 0]
    /\ minted' = next.owner

\* The next generation, under an owner token drawn in the claim transaction.
NextAttempt(c) == [gen |-> c.attempt.gen + 1, owner |-> minted + 1]

\* claim_execution.  The plan must still match the row and the generation must
\* not overflow (StaleAttempt, GenerationOverflow).
ClaimExecution(t) ==
    /\ pc[t] = "reserved" /\ plan[t].mode # "recover" /\ StoreFree(Home[t])
    /\ IF MatchesPlan(plan[t]) /\ plan[t].attempt.gen < MaxGeneration
       THEN /\ ClaimRow(plan[t].job, NextAttempt(plan[t]))
            /\ pc' = [pc EXCEPT ![t] = "working"]
            /\ plan' = [plan EXCEPT ![t] = None]
            /\ exec' = [exec EXCEPT ![t] = [job |-> plan[t].job,
                                            attempt |-> NextAttempt(plan[t])]]
            /\ UNCHANGED holder
       ELSE Release(t) /\ UNCHANGED rowVars
    /\ UNCHANGED <<lockFile, procVars>>

\* Faulty variant: a late report overwrites whatever outcome the row has.
UpdateUnguarded(t, s) ==
    /\ pc[t] = "working" /\ StoreFree(Home[t])
    /\ LET e == exec[t] IN
       /\ Checked(e)
       /\ status' = [status EXCEPT ![e.job] = s]
       /\ detail' = [detail EXCEPT ![e.job] = e.attempt.gen]
    /\ UNCHANGED <<attempt, minted, lockVars, procVars, threadVars>>

\* update_execution on a running row of this handle's attempt: Applied.
Update(t, s) ==
    /\ pc[t] = "working" /\ StoreFree(Home[t])
    /\ LET e == exec[t] IN
       /\ Checked(e) /\ status[e.job] = "running"
       /\ status' = [status EXCEPT ![e.job] = s]
       /\ detail' = [detail EXCEPT ![e.job] = e.attempt.gen]
    /\ UNCHANGED <<attempt, minted, lockVars, procVars, threadVars>>

ProgressExecution(t) == Update(t, "running")
FinishExecution(t) == Update(t, "done")
FailExecution(t) == Update(t, "failed")

\* The worker returns and drops the last clone of its handle: its row has
\* settled, was cancelled, or is gone (Unchanged, Missing, Stopped, Stale), so
\* that update_execution has nothing left to apply.
Drop(t) ==
    /\ pc[t] = "working" /\ StoreFree(Home[t])
    /\ ~(Checked(exec[t]) /\ status[exec[t].job] = "running")
    /\ Release(t)
    /\ UNCHANGED <<rowVars, lockFile, procVars>>

\* The worker unwinds, or its last write fails and the error is ignored: the
\* handle goes and the row stays running.
DropUnsettled(t) ==
    /\ Faults
    /\ pc[t] = "working"
    /\ Release(t)
    /\ UNCHANGED <<rowVars, lockFile, procVars>>

-----------------------------------------------------------------------------
(* Startup recovery: recover_jobs, called by main before any command runs. *)

\* Faulty variant: rows without a recorded attempt are candidates too.
CandidatesWithLegacy ==
    {[job |-> j, status |-> "running", attempt |-> attempt[j], mode |-> "recover"] :
        j \in {i \in Job : status[i] = "running"}}

\* Faulty variant: only first attempts are looked for.
CandidatesFirstAttempt ==
    {[job |-> j, status |-> "running", attempt |-> attempt[j], mode |-> "recover"] :
        j \in {i \in Job : /\ status[i] = "running" /\ attempt[i] # None
                           /\ attempt[i].gen <= 1}}

\* recovery_candidates: running rows with a recorded attempt.
RecoveryCandidates ==
    {[job |-> j, status |-> "running", attempt |-> attempt[j], mode |-> "recover"] :
        j \in {i \in Job : status[i] = "running" /\ attempt[i] # None}}

\* Faulty variant: opening the store adopts rows without a recorded attempt.
StartAdopting(p) ==
    /\ phase[p] = "down"
    /\ phase' = [phase EXCEPT ![p] = "recovering"]
    /\ attempt' = [j \in Job |-> IF status[j] \in RowStatus /\ attempt[j] = None
                                 THEN Unclaimed ELSE attempt[j]]
    /\ candidates' = [candidates EXCEPT ![p] = RecoveryCandidates]
    /\ UNCHANGED <<status, detail, minted, lockVars, crashes, threadVars>>

\* The process opens the store and copies the candidates once.
Start(p) ==
    /\ phase[p] = "down"
    /\ phase' = [phase EXCEPT ![p] = "recovering"]
    /\ candidates' = [candidates EXCEPT ![p] = RecoveryCandidates]
    /\ UNCHANGED <<rowVars, lockVars, crashes, threadVars>>

\* The setup thread takes the candidates one by one, in the order of their id.
NextCandidate(t) ==
    /\ phase[Home[t]] = "recovering"
    /\ \A u \in Thread : Home[u] = Home[t] => pc[u] = "idle"
    /\ \E c \in candidates[Home[t]] :
          /\ \A d \in candidates[Home[t]] : c.job <= d.job
          /\ candidates' = [candidates EXCEPT ![Home[t]] = @ \ {c}]
          /\ plan' = [plan EXCEPT ![t] = c]
    /\ pc' = [pc EXCEPT ![t] = "planned"]
    /\ UNCHANGED <<rowVars, lockVars, phase, crashes, exec>>

\* recover_reserved: only the exact attempt that was observed running, under
\* its own lock, becomes interrupted; then the reservation is dropped.
RecoverReserved(t) ==
    /\ pc[t] = "reserved" /\ plan[t].mode = "recover"
    /\ status' = IF MatchesPlan(plan[t])
                 THEN [status EXCEPT ![plan[t].job] = "interrupted"] ELSE status
    /\ Release(t)
    /\ UNCHANGED <<attempt, detail, minted, lockFile, procVars>>

\* All candidates tried: the state is managed and commands may run.
FinishStartup(p) ==
    /\ phase[p] = "recovering" /\ candidates[p] = {}
    /\ \A t \in Thread : Home[t] = p => pc[t] = "idle"
    /\ phase' = [phase EXCEPT ![p] = "up"]
    /\ UNCHANGED <<rowVars, lockVars, candidates, crashes, threadVars>>

-----------------------------------------------------------------------------
(* Crashes. *)

\* The processes in S die: the operating system releases every lock their
\* threads held and their memory is gone.  Committed rows survive.
Die(S) ==
    /\ crashes < MaxCrashes
    /\ crashes' = crashes + 1
    /\ phase' = [p \in Proc |-> IF p \in S THEN "down" ELSE phase[p]]
    /\ candidates' = [p \in Proc |-> IF p \in S THEN {} ELSE candidates[p]]
    /\ holder' = [j \in Job |-> IF holder[j] \in Thread /\ Home[holder[j]] \in S
                                THEN None ELSE holder[j]]
    /\ pc' = [t \in Thread |-> IF Home[t] \in S THEN "idle" ELSE pc[t]]
    /\ plan' = [t \in Thread |-> IF Home[t] \in S THEN None ELSE plan[t]]
    /\ exec' = [t \in Thread |-> IF Home[t] \in S THEN None ELSE exec[t]]
    /\ UNCHANGED rowVars

Crash(p) == phase[p] # "down" /\ Die({p}) /\ UNCHANGED lockFile

\* Power loss also takes some of the lock files that were not synced.
PowerLoss ==
    /\ Die(Proc)
    /\ \E lost \in SUBSET {j \in Job : lockFile[j] = "unsynced"} :
          lockFile' = [j \in Job |-> IF j \in lost THEN "absent" ELSE lockFile[j]]

-----------------------------------------------------------------------------

Recovery(p) ==
    \/ FinishStartup(p)
    \/ \E t \in Thread :
          /\ Home[t] = p /\ phase[p] = "recovering"
          /\ NextCandidate(t) \/ TryLock(t) \/ SyncReservation(t) \/ RecoverReserved(t)

Next ==
    \/ \E t \in Thread, j \in Job : Enqueue(t, j) \/ PlanRetry(t, j)
    \/ \E t \in Thread :
          \/ PlanStart(t) \/ TryLock(t) \/ SyncReservation(t) \/ Abandon(t)
          \/ ClaimExecution(t)
          \/ ProgressExecution(t) \/ FinishExecution(t) \/ FailExecution(t)
          \/ Drop(t) \/ DropUnsettled(t)
          \/ NextCandidate(t) \/ RecoverReserved(t)
    \/ \E p \in Proc, j \in Job : Cancel(p, j)
    \/ \E p \in Proc : ClearFinished(p) \/ Start(p) \/ FinishStartup(p) \/ Crash(p)
    \/ PowerLoss

Spec == Init /\ [][Next]_vars

\* The user relaunches a process that went down, and its startup runs to its
\* end: every step of it is a bounded system call or transaction.  Nothing is
\* assumed of workers or of the user's other commands.
Fairness == \A p \in Proc : WF_vars(Start(p)) /\ WF_vars(Recovery(p))

FairSpec == Spec /\ Fairness

-----------------------------------------------------------------------------
(* Properties. *)

\* SPEC-07: "Opening another app process must not interrupt a live job."  The
\* row of a live worker carries exactly the worker's attempt, and its status is
\* one the worker wrote or a user cancellation - never queued, never
\* interrupted - or the row was cleared under it.  No superseded or interrupted
\* worker is still alive (checked_job and update_execution never return
\* StaleAttempt or Stopped to a worker that holds its lock).
LiveWorkerOwnsRow ==
    \A t \in Thread : pc[t] = "working" =>
        LET e == exec[t] IN
        \/ status[e.job] = "cleared"
        \/ /\ attempt[e.job] = e.attempt
           /\ status[e.job] \in {"running", "done", "failed", "cancelled"}

\* At most one thread of all processes executes a job, whatever was cancelled,
\* retried, recovered or crashed in between (the lock of job_execution.rs).
SingleWorker ==
    \A t, u \in Thread :
        pc[t] = "working" /\ pc[u] = "working" /\ exec[t].job = exec[u].job => t = u

\* try_reserve: "An earlier attempt must already have a lock inode".  Once an
\* attempt was claimed its lock file survives every power loss; otherwise the
\* row could never be reserved, retried or recovered again, and every later
\* startup would end at it.
ClaimedJobKeepsLockFile ==
    \A j \in Job : attempt[j] # None /\ attempt[j].gen > 0 => lockFile[j] = "durable"

\* A row shows the stage, progress and error of its current attempt only: a
\* late report of an earlier attempt never reaches a retried row.
DetailIsOwn ==
    \A j \in Job : detail[j] # 0 => attempt[j] # None /\ detail[j] = attempt[j].gen

\* The whole of what the attempt row and the lock file promise: one live owner per
\* job, whose row, lock file and progress are its own.
ExclusiveOwner ==
    TypeOK /\ LiveWorkerOwnsRow /\ SingleWorker /\ ClaimedJobKeepsLockFile /\ DetailIsOwn

\* Rows without an attempt are reported as legacy-unknown and nothing but a
\* cancellation or a clear may touch them: startup "never adopts them".
LegacyUntouched ==
    [][\A j \in Legacy :
         /\ attempt'[j] = attempt[j]
         /\ \/ status'[j] = status[j]
            \/ status[j] \in Cancellable /\ status'[j] = "cancelled"
            \/ status[j] \in Finished /\ status'[j] = "cleared"]_vars

\* recover_reserved: a running row becomes interrupted only when no thread of
\* any process executes it, and nothing but startup recovery interrupts a row.
InterruptOnlyDead ==
    [][\A j \in Job :
         status[j] # "interrupted" /\ status'[j] = "interrupted" =>
             /\ status[j] = "running"
             /\ Working(j) = {}
             /\ \E t \in Thread : holder[j] = t /\ phase[Home[t]] = "recovering"]_vars

\* An outcome is final: done only ever disappears with its row, and failed,
\* cancelled and interrupted change only by a new claim, which starts the next
\* generation with an owner nobody had before.
OutcomeFinal ==
    [][\A j \in Job : status[j] \in {"done", "failed", "cancelled", "interrupted"}
                      /\ status'[j] # status[j] =>
         \/ status'[j] = "cleared"
         \/ /\ status[j] \in Retryable
            /\ status'[j] = "running"
            /\ attempt'[j].gen = attempt[j].gen + 1
            /\ \A i \in Job : attempt[i] # None => attempt'[j].owner > attempt[i].owner]_vars

\* What no step of any process does to a row: adopt a legacy one, interrupt one
\* whose worker lives, or change an outcome other than by a new claim.
RowsRespected == LegacyUntouched /\ InterruptOnlyDead /\ OutcomeFinal

\* The store, the locks, the threads and the processes together implement the
\* life cycle of JobLifecycle: a job is live while a thread works on it.
Lifecycle == INSTANCE JobLifecycle WITH
    generation <- [j \in Job |-> IF attempt[j] = None THEN 0 ELSE attempt[j].gen],
    live <- {j \in Job : Working(j) # {}}

ImplementsLifecycle == Lifecycle!LifecycleSpec

\* A running row whose worker died is interrupted by a later startup, or
\* cancelled or claimed; it does not stay running with nobody behind it.
OrphanIsRecovered ==
    \A j \in Job \ Legacy :
        (status[j] = "running" /\ Working(j) = {}) ~> (status[j] # "running")

-----------------------------------------------------------------------------
(* The inductive invariant behind the safety properties. *)

Holding == {"locked", "reserved", "working"}
Planning == {"enqueued", "planned", "locked", "reserved"}

\* The job a thread has reserved or is working on.
JobOf(t) == IF pc[t] = "working" THEN exec[t].job ELSE plan[t].job

\* A thread between its plan and its claim has a plan, in a status its mode
\* allows; a working thread has a handle.
ThreadsEquipped ==
    \A t \in Thread :
        /\ pc[t] \in Planning =>
              /\ plan[t] \in Plan
              /\ plan[t].mode = "start" => plan[t].status = "queued"
              /\ plan[t].mode = "retry" => plan[t].status \in Retryable
              /\ plan[t].mode = "recover" => plan[t].status = "running"
        /\ pc[t] = "working" => exec[t] \in Exec

\* From its reservation to its end a thread holds the lock of its job.
HoldersHold == \A t \in Thread : pc[t] \in Holding => holder[JobOf(t)] = t

\* A reservation is handed out only with a lock file that survives power loss.
ReservedIsDurable ==
    \A t \in Thread : pc[t] = "reserved" => lockFile[plan[t].job] = "durable"

\* Rows, attempts and the tokens drawn so far agree.
RowsAgree ==
    \A j \in Job :
        /\ status[j] \in {"none", "cleared"} => attempt[j] = None
        /\ attempt[j] # None => attempt[j].owner <= minted

\* Recovery candidates were copied from running rows.
CandidatesRan == \A p \in Proc : \A c \in candidates[p] : c.status = "running" /\ c.mode = "recover"

IndInv ==
    /\ TypeOK
    /\ ThreadsEquipped
    /\ HoldersHold
    /\ ReservedIsDurable
    /\ RowsAgree
    /\ CandidatesRan
    /\ LiveWorkerOwnsRow
    /\ ClaimedJobKeepsLockFile
    /\ DetailIsOwn

-----------------------------------------------------------------------------
(* What RowsRespected and the refinement of JobLifecycle need on top of it. *)

\* A legacy row never gets an attempt, and its identifier is never enqueued.
LegacyUnclaimed == \A j \in Legacy : attempt[j] = None /\ status[j] # "none"

\* A first execution starts from the attempt that was enqueued with the row.
StartsUnclaimed ==
    \A t \in Thread : pc[t] \in Planning /\ plan[t].mode = "start" => plan[t].attempt = Unclaimed

\* A process that is down runs nothing; one that recovers runs its setup thread only,
\* and nobody else holds the plan of a recovery.
StartupAlone ==
    \A t \in Thread : pc[t] # "idle" =>
        /\ phase[Home[t]] # "down"
        /\ phase[Home[t]] = "recovering" <=> (pc[t] # "working" /\ plan[t].mode = "recover")
        /\ phase[Home[t]] = "recovering" =>
              \A u \in Thread : Home[u] = Home[t] /\ pc[u] # "idle" => u = t

LifeInv == LegacyUnclaimed /\ StartsUnclaimed /\ StartupAlone

=============================================================================
