---------------------------- MODULE PreflightRuns ----------------------------
(***************************************************************************)
(* Preflight scans and recovery reconciliations writing one findings       *)
(* register (PreflightRuns, preflight_blocking and the reconciliation of   *)
(* the recovery pipelines in src-tauri/src/main.rs; replace_for_if in      *)
(* src-tauri/src/findings.rs).                                             *)
(*                                                                         *)
(* Two locks: `current` guards short reads and swaps, each one action;     *)
(* `writes` is held across a register write, several actions, while        *)
(* begin, cancel and reserve go on.  A run leaves RUNNING once, by         *)
(* compare-and-swap.  An epoch orders starts of scans and fences of        *)
(* recoveries; the register is named here by the epoch of its last write.  *)
(***************************************************************************)
EXTENDS Integers, FiniteSets

CONSTANTS
    Run,            \* preflight scans the user starts
    Recovery,       \* recoveries that reconcile the register
    Repo,           \* repositories
    Targets,        \* Recovery -> repositories it covers, one or a manifest's
    None

ASSUME TargetsAssumption == Targets \in [Recovery -> SUBSET Repo]
ASSUME ActorsAssumption ==
    Run \cap Recovery = {} /\ None \notin Run \cup Recovery

Actor == Run \cup Recovery

VARIABLES
    epoch,       \* RunsState.epoch
    current,     \* RunsState.run
    reconciled,  \* RunsState.reconciled: epoch per repository, 0 for none
    persisted,   \* RunsState.persisted
    flag,        \* RunState of each run
    stamp,       \* PreflightToken.epoch and ReconcileFence.epoch, 0 before it is taken
    repo,        \* repository an actor is writing, None for none
    pc,          \* control state of each actor
    todo,        \* repositories a recovery has yet to reconcile
    writes,      \* holder of the write lock
    register,    \* epoch of the write the register holds, per repository
    answer,      \* epoch a run or the last reconciliation reported, 0 for none
    stopped,     \* runs a cancel command stopped
    sawDone      \* recoveries the user saw done when a run began

vars == <<epoch, current, reconciled, persisted, flag, stamp, repo, pc, todo, writes,
          register, answer, stopped, sawDone>>

state   == <<epoch, current, reconciled, persisted>>
history == <<stopped, sawDone>>

Flag   == {"idle", "RUNNING", "CANCELLED", "COMMITTING"}
Label  == {"idle", "scan", "lock", "check", "stage", "commit", "record",
           "fenced", "done", "answered", "failed"}

Init ==
    /\ epoch = 0 /\ current = None /\ writes = None
    /\ reconciled = [x \in Repo |-> 0] /\ persisted = [x \in Repo |-> 0]
    /\ register = [x \in Repo |-> 0]
    /\ flag = [r \in Run |-> "idle"]
    /\ stamp = [a \in Actor |-> 0] /\ repo = [a \in Actor |-> None]
    /\ pc = [a \in Actor |-> "idle"]
    /\ todo = Targets
    /\ answer = [a \in Actor |-> 0]
    /\ stopped = {} /\ sawDone = [r \in Run |-> {}]

Bigger(m, n) == IF m > n THEN m ELSE n
Goto(a, label) == pc' = [pc EXCEPT ![a] = label]

\* leave_running(CANCELLED) of the run in `current`, if it is still running.
CancelCurrent(f) ==
    IF current # None /\ f[current] = "RUNNING" THEN [f EXCEPT ![current] = "CANCELLED"] ELSE f

-----------------------------------------------------------------------------
(* Preflight *)

Visible == {x \in Recovery : pc[x] \notin {"idle", "fenced", "failed"}}

Begin(r, x) ==
    /\ pc[r] = "idle"
    /\ epoch' = epoch + 1
    /\ flag' = [CancelCurrent(flag) EXCEPT ![r] = "RUNNING"]
    /\ current' = r
    /\ stamp' = [stamp EXCEPT ![r] = epoch + 1]
    /\ repo' = [repo EXCEPT ![r] = x]
    /\ Goto(r, "scan")
    /\ sawDone' = [sawDone EXCEPT ![r] = Visible]
    /\ UNCHANGED <<reconciled, persisted, todo, writes, register, answer, stopped>>

\* cancel_preflight
Cancel ==
    /\ current # None
    /\ flag' = CancelCurrent(flag)
    /\ stopped' = IF flag[current] = "RUNNING" THEN stopped \cup {current} ELSE stopped
    /\ UNCHANGED <<state, stamp, repo, pc, todo, writes, register, answer, sawDone>>

\* preflight_scan polls the flag at every step and returns nothing once cancelled.
ScanStops(r) ==
    /\ pc[r] = "scan" /\ flag[r] = "CANCELLED"
    /\ Goto(r, "failed")
    /\ UNCHANGED <<state, flag, stamp, repo, todo, writes, register, answer, history>>

ScanEnds(r) ==
    /\ pc[r] = "scan"
    /\ Goto(r, "lock")
    /\ UNCHANGED <<state, flag, stamp, repo, todo, writes, register, answer, history>>

LockWrites(a) ==
    /\ pc[a] = "lock" /\ writes = None
    /\ writes' = a
    /\ Goto(a, "check")
    /\ UNCHANGED <<state, flag, stamp, repo, todo, register, answer, history>>

\* Faulty variant of CheckRun: an overtaken run reports its own scan.
CheckRunOwnReport(r) ==
    LET known == reconciled[repo[r]]
    IN  /\ r \in Run /\ pc[r] = "check"
        /\ \/ /\ flag[r] = "CANCELLED"
              /\ Goto(r, "failed") /\ writes' = None /\ UNCHANGED answer
           \/ /\ flag[r] # "CANCELLED" /\ known > stamp[r]
              /\ Goto(r, "answered") /\ writes' = None
              /\ answer' = [answer EXCEPT ![r] = stamp[r]]
           \/ /\ flag[r] # "CANCELLED" /\ known <= stamp[r]
              /\ Goto(r, "stage") /\ UNCHANGED <<writes, answer>>
        /\ UNCHANGED <<state, flag, stamp, repo, todo, register, history>>

\* persist_if_current up to the write: cancelled, answered by a newer
\* reconciliation, or on to the transaction.
CheckRun(r) ==
    LET known == reconciled[repo[r]]
    IN  /\ r \in Run /\ pc[r] = "check"
        /\ \/ /\ flag[r] = "CANCELLED"
              /\ Goto(r, "failed") /\ writes' = None /\ UNCHANGED answer
           \/ /\ flag[r] # "CANCELLED" /\ known > stamp[r]
              /\ Goto(r, "answered") /\ writes' = None
              /\ answer' = [answer EXCEPT ![r] = known]
           \/ /\ flag[r] # "CANCELLED" /\ known <= stamp[r]
              /\ Goto(r, "stage") /\ UNCHANGED <<writes, answer>>
        /\ UNCHANGED <<state, flag, stamp, repo, todo, register, history>>

\* Faulty variant of ClaimCommit: a cancel that landed during the write is ignored.
ClaimCommitAlways(r) ==
    /\ r \in Run /\ pc[r] = "stage"
    /\ flag' = [flag EXCEPT ![r] = "COMMITTING"]
    /\ Goto(r, "commit")
    /\ UNCHANGED <<state, stamp, repo, todo, writes, register, answer, history>>

\* replace_for_if staged its batch and asks for the commit claim.
ClaimCommit(r) ==
    LET won == flag[r] = "RUNNING"
    IN  /\ r \in Run /\ pc[r] = "stage"
        /\ flag' = IF won THEN [flag EXCEPT ![r] = "COMMITTING"] ELSE flag
        /\ Goto(r, IF won THEN "commit" ELSE "failed")
        /\ writes' = IF won THEN writes ELSE None
        /\ UNCHANGED <<state, stamp, repo, todo, register, answer, history>>

\* The transaction commits; or it does not, and the write is reported as failed.
Commit(a) ==
    /\ pc[a] = "commit"
    /\ \/ /\ register' = [register EXCEPT ![repo[a]] = stamp[a]]
          /\ Goto(a, "record") /\ UNCHANGED writes
       \/ /\ UNCHANGED register
          /\ Goto(a, "failed") /\ writes' = None
    /\ UNCHANGED <<state, flag, stamp, repo, todo, answer, history>>

\* The commit stands but list_for fails after it: the caller sees an error and
\* records nothing.
ReadbackError(a) ==
    /\ pc[a] = "record"
    /\ Goto(a, "failed") /\ writes' = None
    /\ UNCHANGED <<state, flag, stamp, repo, todo, register, answer, history>>

RecordRun(r) ==
    /\ r \in Run /\ pc[r] = "record"
    /\ persisted' = [persisted EXCEPT ![repo[r]] = Bigger(@, stamp[r])]
    /\ answer' = [answer EXCEPT ![r] = stamp[r]]
    /\ Goto(r, "answered") /\ writes' = None
    /\ UNCHANGED <<epoch, current, reconciled, flag, stamp, repo, todo, register, history>>

-----------------------------------------------------------------------------
(* Recovery *)

Reserve(x) ==
    /\ x \in Recovery /\ pc[x] = "idle"
    /\ epoch' = epoch + 1
    /\ stamp' = [stamp EXCEPT ![x] = epoch + 1]
    /\ Goto(x, "fenced")
    /\ UNCHANGED <<current, reconciled, persisted, flag, repo, todo, writes, register, answer,
                   history>>

\* finish_execution settles the job as done, published at once, or a cancel won.
Settle(x) ==
    /\ x \in Recovery /\ pc[x] = "fenced"
    /\ Goto(x, "done") \/ Goto(x, "failed")
    /\ UNCHANGED <<state, flag, stamp, repo, todo, writes, register, answer, history>>

\* Faulty variant of Reconcile: the fence is taken after the job shows done.
ReconcileLateFence(x, y) ==
    /\ x \in Recovery /\ pc[x] = "done" /\ y \in todo[x]
    /\ repo' = [repo EXCEPT ![x] = y]
    /\ todo' = [todo EXCEPT ![x] = @ \ {y}]
    /\ epoch' = epoch + 1
    /\ stamp' = [stamp EXCEPT ![x] = epoch + 1]
    /\ Goto(x, "lock")
    /\ UNCHANGED <<current, reconciled, persisted, flag, writes, register, answer, history>>

\* The next repository of the recovery.
Reconcile(x, y) ==
    /\ x \in Recovery /\ pc[x] = "done" /\ y \in todo[x]
    /\ repo' = [repo EXCEPT ![x] = y]
    /\ todo' = [todo EXCEPT ![x] = @ \ {y}]
    /\ Goto(x, "lock")
    /\ UNCHANGED <<state, flag, stamp, writes, register, answer, history>>

NewerWritten(x) == persisted[repo[x]] > stamp[x] \/ reconciled[repo[x]] > stamp[x]

\* Faulty variant of CheckRecovery: only other recoveries are compared.
CheckRecoveryAlone(x) ==
    LET newer == reconciled[repo[x]] > stamp[x]
    IN  /\ x \in Recovery /\ pc[x] = "check"
        /\ Goto(x, IF newer THEN "done" ELSE "commit")
        /\ writes' = IF newer THEN None ELSE writes
        /\ UNCHANGED <<state, flag, stamp, repo, todo, register, answer, history>>

\* Faulty variant of CheckRecovery: a refused reconciliation keeps the write lock.
CheckRecoveryHolding(x) ==
    /\ x \in Recovery /\ pc[x] = "check"
    /\ Goto(x, IF NewerWritten(x) THEN "done" ELSE "commit")
    /\ UNCHANGED <<state, flag, stamp, repo, todo, writes, register, answer, history>>

CheckRecovery(x) ==
    /\ x \in Recovery /\ pc[x] = "check"
    /\ Goto(x, IF NewerWritten(x) THEN "done" ELSE "commit")
    /\ writes' = IF NewerWritten(x) THEN None ELSE writes
    /\ UNCHANGED <<state, flag, stamp, repo, todo, register, answer, history>>

RecordRecovery(x) ==
    /\ x \in Recovery /\ pc[x] = "record"
    /\ reconciled' = [reconciled EXCEPT ![repo[x]] = stamp[x]]
    /\ answer' = [answer EXCEPT ![x] = stamp[x]]
    /\ Goto(x, "done") /\ writes' = None
    /\ UNCHANGED <<epoch, current, persisted, flag, stamp, repo, todo, register, history>>

Write(a) == LockWrites(a) \/ Commit(a) \/ ReadbackError(a)

RunStep(r) ==
    ScanStops(r) \/ ScanEnds(r) \/ CheckRun(r) \/ ClaimCommit(r) \/ RecordRun(r) \/ Write(r)
RecoveryStep(x) ==
    \/ Reserve(x) \/ Settle(x) \/ CheckRecovery(x) \/ RecordRecovery(x) \/ Write(x)
    \/ \E y \in Repo : Reconcile(x, y)

Next ==
    \/ \E r \in Run : RunStep(r) \/ \E x \in Repo : Begin(r, x)
    \/ \E x \in Recovery : RecoveryStep(x)
    \/ Cancel

Spec == Init /\ [][Next]_vars

\* Blocking workers are scheduled.  The write lock need not be fair: every actor
\* takes it only a few times.
Fairness ==
    /\ \A r \in Run : WF_vars(RunStep(r))
    /\ \A x \in Recovery : WF_vars(RecoveryStep(x))

FairSpec == Spec /\ Fairness

-----------------------------------------------------------------------------
(* Properties *)

WriteSection == {"check", "stage", "commit", "record"}

\* Types of the two locks, the flags and the epochs; whoever is between the checks
\* and the record of a register write is the one that holds the write lock.
TypeOK ==
    /\ epoch \in Nat
    /\ current \in Run \cup {None} /\ writes \in Actor \cup {None}
    /\ reconciled \in [Repo -> Nat] /\ persisted \in [Repo -> Nat] /\ register \in [Repo -> Nat]
    /\ flag \in [Run -> Flag]
    /\ stamp \in [Actor -> Nat] /\ answer \in [Actor -> Nat]
    /\ repo \in [Actor -> Repo \cup {None}]
    /\ pc \in [Actor -> Label]
    /\ todo \in [Recovery -> SUBSET Repo]
    /\ \A a \in Actor : pc[a] \in WriteSection => writes = a
    /\ stopped \subseteq Run /\ sawDone \in [Run -> SUBSET Recovery]

\* The register holds a write that its author, who could not read it back, reported
\* as failed: the epochs kept per repository do not say so.
Unrecorded(y) == \E a \in Actor : pc[a] = "failed" /\ repo[a] = y /\ stamp[a] = register[y]

\* RegisterStamp: "the register holds the write with the highest epoch".  A write
\* never replaces one with a higher epoch, unless that one was reported as failed,
\* so a surface that keeps the highest epoch it saw matches the register.
RegisterOrdered == [][\A y \in Repo : register[y] <= register'[y] \/ Unrecorded(y)]_vars

\* RunState: a commit never follows a successful cancel, also one that lands while
\* the write is staged.
CancelledWritesNothing ==
    \A r \in stopped, x \in Repo : register[x] # stamp[r]

\* PreflightResult: a preflight is answered with what the register holds at that
\* moment, its own write or the reconciliation that overtook it.
AnswerIsRegister ==
    [][\A r \in Run : answer'[r] # answer[r] =>
          answer'[r] = register'[repo[r]] \/ Unrecorded(repo[r])]_vars

\* ReconcileFence: a preflight started once the user saw a recovery done is newer
\* than its reconciliation: it is never answered with that recovery's report and
\* its write is never replaced by it.
StartedAfterDoneWins ==
    [][\A r \in Run : \A x \in sawDone[r] :
          /\ answer'[r] # stamp[x]
          /\ repo[r] # None /\ register[repo[r]] = stamp[r] =>
                register'[repo[r]] # stamp[x] \/ Unrecorded(repo[r])]_vars

\* The register can be trusted: it moves forward only, every answer is what it
\* holds, and a run the user started later wins.
RegisterTrusted == RegisterOrdered /\ AnswerIsRegister /\ StartedAfterDoneWins

\* Every preflight and reconciliation ends: the write lock is never left behind by
\* a cancel, a refusal or a failed write, so whoever is under way, in the end
\* nobody is.
Settled(a) == pc[a] \in {"idle", "done", "answered", "failed"}

AllEnd == (\E a \in Actor : ~Settled(a)) ~> \A a \in Actor : Settled(a)
-----------------------------------------------------------------------------
(* The inductive invariant behind the ordering of the register. *)

\* An actor that writes has a repository; a recovery neither scans nor stages.
ActorsEquipped ==
    /\ \A a \in Actor : pc[a] \in {"lock"} \cup WriteSection => repo[a] \in Repo
    /\ \A r \in Run : pc[r] # "idle" => repo[r] \in Repo
    /\ \A x \in Recovery : pc[x] \notin {"scan", "stage"}

\* Every start and every fence has an epoch of its own, none from the future.
StampsDistinct ==
    /\ \A a \in Actor : stamp[a] <= epoch /\ (stamp[a] = 0 <=> pc[a] = "idle")
    /\ \A a, b \in Actor : stamp[a] = stamp[b] /\ stamp[a] # 0 => a = b

\* Only the newest run is running, begin cancels the one before; a run has left
\* RUNNING for COMMITTING before its transaction commits.
NewestRuns ==
    \A r \in Run :
        /\ flag[r] = "idle" <=> pc[r] = "idle"
        /\ flag[r] = "RUNNING" => current = r /\ \A q \in Run : stamp[q] <= stamp[r]
        /\ pc[r] \in {"scan", "lock", "check", "stage"} => flag[r] \in {"RUNNING", "CANCELLED"}
        /\ pc[r] \in {"commit", "record"} => flag[r] = "COMMITTING"
        /\ r \in stopped => flag[r] = "CANCELLED"

\* A write that was admitted is the newest its repository has seen; persisted
\* epochs are those of runs.
AdmittedIsNewest ==
    /\ \A a \in Actor : pc[a] \in {"commit", "record"} =>
          persisted[repo[a]] <= stamp[a] /\ reconciled[repo[a]] <= stamp[a]
    /\ \A r \in Run : pc[r] = "stage" => reconciled[repo[r]] <= stamp[r]
    /\ \A y \in Repo : persisted[y] = 0 \/ \E r \in Run : persisted[y] = stamp[r]

\* The register never holds a write from the future, nor one of a run that has
\* not claimed its commit.
WrittenWasClaimed ==
    \A y \in Repo :
        /\ register[y] <= epoch
        /\ \A r \in Run : flag[r] \in {"RUNNING", "CANCELLED"} => register[y] # stamp[r]

\* A run is answered with its own epoch or a later one, and began after the
\* recoveries its user saw done had taken their fences.
AnswersFollow ==
    \A r \in Run :
        /\ answer[r] # 0 => pc[r] = "answered" /\ answer[r] >= stamp[r]
        /\ \A x \in sawDone[r] : pc[x] # "idle" /\ stamp[x] < stamp[r]

IndInv ==
    /\ TypeOK
    /\ ActorsEquipped
    /\ StampsDistinct
    /\ NewestRuns
    /\ AdmittedIsNewest
    /\ WrittenWasClaimed
    /\ AnswersFollow

\* The two epochs kept per repository say what the register holds, except while
\* a committed write is not recorded yet, or never is.
RegisterRecorded ==
    /\ \A a \in Actor : pc[a] = "record" => register[repo[a]] = stamp[a]
    /\ \A y \in Repo :
          \/ \E a \in Actor : pc[a] = "record" /\ repo[a] = y
          \/ Unrecorded(y)
          \/ /\ register[y] = persisted[y] \/ register[y] = reconciled[y]
             /\ register[y] >= persisted[y] /\ register[y] >= reconciled[y]
=============================================================================
