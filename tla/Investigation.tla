--------------------------- MODULE Investigation ---------------------------
(***************************************************************************)
(* The specialist investigation coordinator and its worker                 *)
(* (src-tauri/src/jobs/investigations/{transitions,storage}.rs,            *)
(* src-tauri/src/investigations/{worker,commands,runtime,recovery}.rs).    *)
(*                                                                         *)
(* A task is one durable record, advanced by compare-and-set on its        *)
(* revision.  Four parties race for it: the worker that owns the task's    *)
(* job execution, the user (cancel, approve, decline, clear the job list), *)
(* the startup recovery of any application process, and crashes.  Every    *)
(* store operation is one SQLite transaction, hence one action; a worker   *)
(* reads the revision in one transaction and uses it in a later one.       *)
(* The exclusive job lock is the subject of JobExecution; here a task's    *)
(* lock is held exactly while its worker runs.                             *)
(***************************************************************************)
EXTENDS Integers, FiniteSets

CONSTANTS
    Task,           \* investigation identities (request nonces)
    Proc,           \* application processes sharing the data directory
    MaxLive,        \* MAX_LIVE_TASKS, also the size of the runtime's live map
    MaxEvents,      \* MAX_EVENTS, the length of a task's event log
    MaxInvocations, \* InvestigationLimits.model_invocations
    MaxCrashes,     \* bound on process crashes
    MaxFaults,      \* bound on storage failures
    None            \* absent option

ASSUME BoundsAssumption ==
    /\ MaxLive \in Nat /\ MaxEvents \in Nat /\ MaxInvocations \in Nat
    /\ MaxCrashes \in Nat /\ MaxFaults \in Nat

ASSUME NoneAssumption ==
    None \notin [n : Nat, ledger : Nat] /\ None \notin {"QueryContext", "ReadEvidence"}

VARIABLES
    task,      \* investigation_tasks: the durable record, phase "absent" before it exists
    job,       \* status of the task's row in jobs, "absent" when there is none
    worker,    \* control state of the thread that starts and runs the task
    home,      \* process the worker runs in, None before it starts
    live,      \* InvestigationRuntime.live of each process
    preview,   \* LiveTask.pending: the consent preview on display
    seen,      \* previews the user was shown and may still answer
    proc,      \* "down", "recovering" or "up"
    cand,      \* recovery candidates a starting process has yet to try
    call,      \* per task: the step whose provider call is unanswered, or None
    called,    \* history: steps handed to the provider, with how often
    granted,   \* history: steps the user approved
    crashes, faults

vars == <<task, job, worker, home, live, preview, seen, proc, cand, call, called,
          granted, crashes, faults>>

consent == <<preview, seen, granted>>
calls   == <<call, called>>
system  == <<home, proc, cand, crashes>>

Phase  == {"absent", "Queued", "Preparing", "Ready", "Consent", "Invocation",
           "Action", "Tool", "Terminal"}
Ended  == {"Completed", "Failed", "Cancelled", "Interrupted", "OutcomeUnknown"}
Status == {"Queued", "Preparing", "Running", "AwaitingConsent"} \cup Ended
Tool   == {"QueryContext", "ReadEvidence"}
Mode   == {"Local", "Cloud"}
Step   == [n : 1 .. MaxInvocations, ledger : Nat]

JobStatus == {"absent", "queued", "running", "done", "failed", "cancelled", "interrupted"}

Record == [phase : Phase, status : Status, mode : Mode, rev : Nat, seq : Nat,
           cancel : BOOLEAN, owned : BOOLEAN, ledger : Nat, pending : Step \cup {None},
           approved : BOOLEAN, tool : Tool \cup {None}, used : Nat, result : BOOLEAN]

NoRecord == [phase |-> "absent", status |-> "Queued", mode |-> "Local", rev |-> 0, seq |-> 0,
             cancel |-> FALSE, owned |-> FALSE, ledger |-> 0, pending |-> None,
             approved |-> FALSE, tool |-> None, used |-> 0, result |-> FALSE]

\* What the worker is about to ask of the store.
Op == {"InputPrepared", "AwaitConsent", "BeginInvocation", "ActionAdmitted", "BeginTool",
       "ChargeEvidence", "InputAdmitted"}
\* InvestigationStopReason, as far as stop() tells reasons apart.
Reason == {"Cancelled", "OutcomeUnknown", "Other"}

\* Where a worker is: at a check_new_work, at the transition after it, waiting for
\* consent, about to call the provider, calling, publishing a finish or a stop
\* (a read, then a compare-and-set), or cleaning up.
At == {"none", "insert", "claim", "check", "apply", "consent", "dispatch", "calling",
       "finishRead", "finishApply", "stopRead", "stopApply", "cleanup", "gone"}

Worker   == [at : At, op : Op, rev : Nat, tool : Tool \cup {None},
             tries : 0 .. 3, why : Reason]
NoWorker == [at |-> "none", op |-> "InputPrepared", rev |-> 0, tool |-> None,
             tries |-> 0, why |-> "Other"]

Idle == {"none", "insert", "claim", "gone"}
\* The worker owns the job execution, hence the OS lock.
Holds(t) == worker[t].at \notin Idle

Live(t) == task[t].phase \notin {"absent", "Terminal"}

Init ==
    /\ task = [t \in Task |-> NoRecord]
    /\ job = [t \in Task |-> "absent"]
    /\ worker = [t \in Task |-> NoWorker]
    /\ home = [t \in Task |-> None]
    /\ live = [p \in Proc |-> {}]
    /\ preview = [t \in Task |-> None]
    /\ seen = [t \in Task |-> {}]
    /\ proc = [p \in Proc |-> "up"]
    /\ cand = [p \in Proc |-> {}]
    /\ call = [t \in Task |-> None]
    /\ called = [t \in Task |-> [n \in 1 .. MaxInvocations |-> 0]]
    /\ granted = [t \in Task |-> {}]
    /\ crashes = 0
    /\ faults = 0

-----------------------------------------------------------------------------
(* Parts of a transaction *)

\* Faulty variant of EventLimit: no slot is kept for a cancel request.
EventLimitTight(phase, kind) == IF phase = "Terminal" THEN MaxEvents ELSE MaxEvents - 2

\* The largest sequence number an event of this kind may take in this phase.
EventLimit(phase, kind) ==
    IF phase = "Terminal" THEN MaxEvents
    ELSE IF kind = "CancelRequested" THEN MaxEvents - 2 ELSE MaxEvents - 3

\* Whether k events fit after record r moved to its new phase; if not the
\* transaction rolls back with Capacity.
EventsFit(r, kind, k) == r.seq + k <= EventLimit(r.phase, kind)

\* bump, then k events.
Bumped(r, k) == [r EXCEPT !.rev = @ + 1, !.seq = @ + k]

\* sync_terminal_job: only a queued or running row follows the task.
SyncedJob(r, row) ==
    CASE row \notin {"queued", "running"} -> row
      [] r.cancel -> "cancelled"
      [] ~r.cancel /\ r.status = "Completed" -> "done"
      [] ~r.cancel /\ r.status \in {"Interrupted", "OutcomeUnknown"} -> "interrupted"
      [] OTHER -> "failed"

\* Faulty variant of Stopped: the pending step is not cleared.
StoppedKeepingStep(r, reason) ==
    LET cancelled == r.cancel \/ reason = "Cancelled"
    IN  [r EXCEPT !.phase = "Terminal", !.approved = FALSE, !.tool = None, !.cancel = cancelled,
                  !.status = IF reason = "OutcomeUnknown" THEN "OutcomeUnknown"
                             ELSE IF cancelled THEN "Cancelled" ELSE "Failed"]

\* Faulty variant of Stopped: a cancel request hides an unknown outcome.
StoppedCancelledFirst(r, reason) ==
    LET cancelled == r.cancel \/ reason = "Cancelled"
    IN  [r EXCEPT !.phase = "Terminal", !.pending = None, !.approved = FALSE, !.tool = None,
                  !.cancel = cancelled,
                  !.status = IF cancelled THEN "Cancelled"
                             ELSE IF reason = "OutcomeUnknown" THEN reason ELSE "Failed"]

\* stop: the terminal record for a reason.
Stopped(r, reason) ==
    LET cancelled == r.cancel \/ reason = "Cancelled"
    IN  [r EXCEPT !.phase = "Terminal", !.pending = None, !.approved = FALSE, !.tool = None,
                  !.cancel = cancelled,
                  !.status = IF reason = "OutcomeUnknown" THEN "OutcomeUnknown"
                             ELSE IF cancelled THEN "Cancelled" ELSE "Failed"]

\* recover_investigation: the terminal record of a task whose owner is dead.
Recovered(r) ==
    [r EXCEPT !.phase = "Terminal", !.pending = None, !.approved = FALSE, !.tool = None,
              !.status = IF r.phase = "Invocation" THEN "OutcomeUnknown" ELSE "Interrupted"]

\* check_job: the row still belongs to the worker's attempt.
JobAllows(t, late) ==
    job[t] = "running" \/ (late /\ job[t] \in {"cancelled", "absent"})

\* The tests advance_investigation makes before it looks at the transition.
MayAdvance(t, rev, late) ==
    /\ task[t].rev = rev
    /\ JobAllows(t, late)
    /\ task[t].phase # "Terminal"
    /\ task[t].cancel => late

\* validate_task: what load_task and save_task demand of a record.  A record that
\* fails it can no longer be read, cancelled or recovered.
ValidRecord(r) ==
    /\ CASE r.phase = "Queued"    -> r.status = "Queued" /\ ~r.owned
         [] r.phase = "Preparing" -> r.status = "Preparing" /\ r.owned
         [] r.phase = "Consent"   -> r.status = "AwaitingConsent" /\ r.pending # None
         [] r.phase = "Terminal"  -> r.status \in Ended
         [] OTHER                 -> r.status = "Running"
    /\ r.result <=> r.status = "Completed"
    /\ r.phase \in {"Queued", "Terminal"} \/ r.owned
    /\ r.pending # None <=> r.phase \in {"Consent", "Invocation"}
    /\ r.approved => r.phase = "Consent"
    /\ r.tool # None <=> r.phase \in {"Action", "Tool"}
    /\ r.seq <= MaxEvents
    /\ r.used <= MaxInvocations

Put(t, r) == task' = [task EXCEPT ![t] = r]
Go(t, w)  == worker' = [worker EXCEPT ![t] = w]

\* The worker gives up with a reason: stop() is next.
Failing(t, reason) == [worker[t] EXCEPT !.at = "stopRead", !.tries = 0, !.why = reason]
\* The worker continues with a check_new_work before its next request.
Onward(t, op) == [worker[t] EXCEPT !.at = "check", !.op = op]

\* Faulty variant of StepOf: numbered before the new invocation is counted.
StepOfUncounted(r) == [n |-> r.used, ledger |-> r.ledger]

\* The step the worker prepares: numbered by the invocations used, bound to the
\* input ledger.  Its payload is determined by both.
StepOf(r) == [n |-> r.used + 1, ledger |-> r.ledger]
FirstOp(r) == IF r.mode = "Cloud" THEN "AwaitConsent" ELSE "BeginInvocation"

-----------------------------------------------------------------------------
(* Starting a task: start_investigation commits it, the runtime takes a slot  *)
(* for it, and only then its job is claimed.                                  *)

\* Faulty variant of StartInvestigation: off by one at the live cap.
StartOverCap(p, t, m) ==
    LET r == [NoRecord EXCEPT !.phase = "Queued", !.mode = m]
    IN  /\ proc[p] = "up"
        /\ task[t].phase = "absent"
        /\ Cardinality({u \in Task : Live(u)}) <= MaxLive
        /\ EventsFit(r, "Created", 1)
        /\ Put(t, [r EXCEPT !.seq = 1])
        /\ job' = [job EXCEPT ![t] = "queued"]
        /\ home' = [home EXCEPT ![t] = p]
        /\ Go(t, [NoWorker EXCEPT !.at = "insert"])
        /\ UNCHANGED <<live, consent, calls, proc, cand, crashes, faults>>

StartInvestigation(p, t, m) ==
    LET r == [NoRecord EXCEPT !.phase = "Queued", !.mode = m]
    IN  /\ proc[p] = "up"
        /\ task[t].phase = "absent"
        /\ Cardinality({u \in Task : Live(u)}) < MaxLive
        /\ EventsFit(r, "Created", 1)
        /\ Put(t, [r EXCEPT !.seq = 1])
        /\ job' = [job EXCEPT ![t] = "queued"]
        /\ home' = [home EXCEPT ![t] = p]
        /\ Go(t, [NoWorker EXCEPT !.at = "insert"])
        /\ UNCHANGED <<live, consent, calls, proc, cand, crashes, faults>>

\* A full live map abandons the committed task: it stays queued and cancellable.
InsertLive(t) ==
    LET p == home[t]
        room == Cardinality(live[p]) < MaxLive
    IN  /\ worker[t].at = "insert"
        /\ live' = IF room THEN [live EXCEPT ![p] = @ \cup {t}] ELSE live
        /\ Go(t, [worker[t] EXCEPT !.at = IF room THEN "claim" ELSE "gone"])
        /\ UNCHANGED <<task, job, consent, calls, system, faults>>

\* claim_execution with attach_execution in its transaction.
CanClaim(t) ==
    LET r == task[t]
    IN  /\ job[t] = "queued"
        /\ r.phase = "Queued" /\ ~r.owned /\ ~r.cancel
        /\ EventsFit([r EXCEPT !.phase = "Preparing"], "PreparationStarted", 1)

Claim(t) ==
    /\ worker[t].at = "claim"
    /\ CanClaim(t)
    /\ Put(t, Bumped([task[t] EXCEPT !.phase = "Preparing", !.status = "Preparing",
                                     !.owned = TRUE], 1))
    /\ job' = [job EXCEPT ![t] = "running"]
    /\ Go(t, Onward(t, "InputPrepared"))
    /\ UNCHANGED <<live, consent, calls, system, faults>>

ClaimRefused(t) ==
    /\ worker[t].at = "claim"
    /\ ~CanClaim(t)
    /\ live' = [live EXCEPT ![home[t]] = @ \ {t}]
    /\ Go(t, [worker[t] EXCEPT !.at = "gone"])
    /\ UNCHANGED <<task, job, consent, calls, system, faults>>

-----------------------------------------------------------------------------
(* The worker loop *)

\* check_new_work, and at the head of the loop the invocation limit.  Two checks
\* with only local work between them are one.
CheckNewWork(t) ==
    LET w == worker[t]
        r == task[t]
        spent == w.op = FirstOp(r) /\ r.used >= MaxInvocations
    IN  /\ w.at = "check"
        /\ Go(t, CASE r.phase = "Terminal" -> [w EXCEPT !.at = "cleanup"]
                   [] r.phase # "Terminal" /\ r.cancel -> Failing(t, "Cancelled")
                   [] r.phase # "Terminal" /\ ~r.cancel /\ (job[t] # "running" \/ spent)
                        -> Failing(t, "Other")
                   [] OTHER -> [w EXCEPT !.at = "apply", !.rev = r.rev])
        /\ UNCHANGED <<task, job, live, consent, calls, system, faults>>

\* Faulty variant of Awaiting: the approval flag is not reset.
AwaitingApproved(r) ==
    [r EXCEPT !.phase = "Consent", !.status = "AwaitingConsent", !.pending = StepOf(r),
              !.approved = TRUE]

\* The record AwaitConsent commits.
Awaiting(r) ==
    [r EXCEPT !.phase = "Consent", !.status = "AwaitingConsent", !.pending = StepOf(r),
              !.approved = FALSE]

\* What each transition of advance_investigation asks of the phase, and the record
\* it moves to, before the revision and the events are counted.
PhaseAllows(r, op, tool) ==
    CASE op = "InputPrepared"   -> r.phase = "Preparing" /\ r.ledger = 0
      [] op = "InputAdmitted"   -> r.phase = "Tool"
      [] op = "AwaitConsent"    -> r.phase = "Ready" /\ r.mode = "Cloud"
      [] op = "BeginInvocation" ->
            /\ r.used < MaxInvocations
            /\ IF r.mode = "Local" THEN r.phase = "Ready"
               ELSE r.phase = "Consent" /\ r.approved /\ r.pending = StepOf(r)
      [] op = "ActionAdmitted"  -> r.phase = "Invocation"
      [] op = "BeginTool"       -> r.phase = "Action" /\ r.tool = tool
      [] op = "ChargeEvidence"  -> r.phase = "Tool" /\ r.tool = "ReadEvidence"

Moved(r, op, tool) ==
    CASE op \in {"InputPrepared", "InputAdmitted"} ->
            [r EXCEPT !.phase = "Ready", !.status = "Running", !.ledger = @ + 1, !.tool = None]
      [] op = "AwaitConsent" -> Awaiting(r)
      [] op = "BeginInvocation" ->
            [r EXCEPT !.phase = "Invocation", !.status = "Running", !.pending = StepOf(r),
                      !.approved = FALSE, !.used = @ + 1]
      [] op = "ActionAdmitted" ->
            [r EXCEPT !.phase = "Action", !.pending = None, !.approved = FALSE, !.tool = tool]
      [] op = "BeginTool" -> [r EXCEPT !.phase = "Tool"]
      [] op = "ChargeEvidence" -> r

EventCount(op) == IF op = "ActionAdmitted" THEN 2 ELSE 1

CanAdvance(t) ==
    LET w == worker[t]
    IN  /\ MayAdvance(t, w.rev, FALSE)
        /\ PhaseAllows(task[t], w.op, w.tool)
        /\ EventsFit(Moved(task[t], w.op, w.tool), "Other", EventCount(w.op))

\* What the worker does once its transition is committed.
After(t, r) ==
    LET w == worker[t]
    IN  CASE w.op \in {"InputPrepared", "InputAdmitted"} -> {Onward(t, FirstOp(r))}
          [] w.op = "AwaitConsent"    -> {[w EXCEPT !.at = "consent"]}
          [] w.op = "BeginInvocation" -> {[w EXCEPT !.at = "dispatch"]}
          [] w.op = "ActionAdmitted"  -> {Onward(t, "BeginTool")}
          [] w.op = "BeginTool"       ->
                {Onward(t, "InputAdmitted")} \cup
                {Onward(t, o) : o \in IF w.tool = "ReadEvidence" THEN {"ChargeEvidence"} ELSE {}}
          [] w.op = "ChargeEvidence"  -> {Onward(t, "InputAdmitted")}

Advance(t) ==
    LET w == worker[t]
        r == Bumped(Moved(task[t], w.op, w.tool), EventCount(w.op))
    IN  /\ w.at = "apply"
        /\ CanAdvance(t)
        /\ Put(t, r)
        /\ \E next \in After(t, r) : Go(t, next)
        /\ preview' = [preview EXCEPT ![t] =
                          CASE w.op = "AwaitConsent" -> [rev |-> r.rev, step |-> r.pending]
                            [] w.op = "BeginInvocation" -> None
                            [] OTHER -> @]
        /\ UNCHANGED <<job, live, seen, granted, calls, system, faults>>

AdvanceRefused(t) ==
    /\ worker[t].at = "apply"
    /\ ~CanAdvance(t)
    /\ Go(t, Failing(t, "Other"))
    /\ UNCHANGED <<task, job, live, consent, calls, system, faults>>

\* One turn of await_consent that does not keep waiting.
PollConsent(t) ==
    LET w == worker[t]
        r == task[t]
        over == r.phase = "Terminal" \/ r.cancel \/ job[t] # "running"
    IN  /\ w.at = "consent"
        /\ over \/ r.approved
        /\ Go(t, CASE r.phase = "Terminal" -> [w EXCEPT !.at = "cleanup"]
                   [] r.phase # "Terminal" /\ r.cancel -> Failing(t, "Cancelled")
                   [] r.phase # "Terminal" /\ ~r.cancel /\ over -> Failing(t, "Other")
                   [] OTHER -> Onward(t, "BeginInvocation"))
        /\ preview' = IF over THEN [preview EXCEPT ![t] = None] ELSE preview
        /\ UNCHANGED <<task, job, live, seen, granted, calls, system, faults>>

\* Faulty variant of GiveUp: the consent wait has no deadline.
GiveUpButWait(t) ==
    /\ worker[t].at \in {"check", "apply", "dispatch"}
    /\ Go(t, Failing(t, "Other"))
    /\ UNCHANGED <<task, job, live, consent, calls, system, faults>>

\* The active or consent time is spent, preparation fails, the policy or the
\* provider refuses before anything is sent, a source is unavailable.
GiveUp(t) ==
    /\ worker[t].at \in {"check", "apply", "consent", "dispatch"}
    /\ Go(t, Failing(t, "Other"))
    /\ preview' = IF worker[t].at = "consent" THEN [preview EXCEPT ![t] = None] ELSE preview
    /\ UNCHANGED <<task, job, live, seen, granted, calls, system, faults>>

\* complete_bounded: the request leaves the process.
Dispatch(t) ==
    /\ worker[t].at = "dispatch"
    /\ call' = [call EXCEPT ![t] = task[t].pending]
    /\ called' = [called EXCEPT ![t][task[t].pending.n] = @ + 1]
    /\ Go(t, [worker[t] EXCEPT !.at = "calling"])
    /\ UNCHANGED <<task, job, live, consent, system, faults>>

\* A complete response: a tool action, a finish, or nothing admissible.
Answer(t) ==
    /\ worker[t].at = "calling"
    /\ call' = [call EXCEPT ![t] = None]
    /\ \/ \E tool \in Tool : Go(t, [Onward(t, "ActionAdmitted") EXCEPT !.tool = tool])
       \/ Go(t, [worker[t] EXCEPT !.at = "finishRead", !.tries = 0])
       \/ Go(t, Failing(t, "Other"))
    /\ UNCHANGED <<task, job, live, consent, called, system, faults>>

\* The call fails after it was sent: its outcome is unknown and stays unanswered.
NoAnswer(t) ==
    /\ worker[t].at = "calling"
    /\ Go(t, Failing(t, "OutcomeUnknown"))
    /\ UNCHANGED <<task, job, live, consent, calls, system, faults>>

\* Faulty variant of Rounds: no second attempt.
OneRound == 1

\* admit_finish: up to three rounds of reading the revision and publishing the
\* result at it.  Another process can write between the two.
Rounds == 3

\* Faulty variant of FinishRead: a finish that met a cancel is not tried again.
FinishReadOnce(t) ==
    LET w == worker[t]
    IN  /\ w.at = "finishRead"
        /\ Go(t, IF w.tries = 1 THEN Failing(t, "OutcomeUnknown")
                 ELSE [w EXCEPT !.at = "finishApply", !.rev = task[t].rev])
        /\ UNCHANGED <<task, job, live, consent, calls, system, faults>>

FinishRead(t) ==
    LET w == worker[t]
    IN  /\ w.at = "finishRead"
        /\ Go(t, IF w.tries = Rounds THEN Failing(t, "OutcomeUnknown")
                 ELSE [w EXCEPT !.at = "finishApply", !.rev = task[t].rev])
        /\ UNCHANGED <<task, job, live, consent, calls, system, faults>>

Completed(r) == [r EXCEPT !.phase = "Terminal", !.status = "Completed", !.result = TRUE,
                          !.pending = None, !.approved = FALSE]

\* advance_investigation's answer to a publication of record r with k events: Stale
\* is tried again, any other refusal is not.
Verdict(t, r, stale, k) ==
    CASE task[t].rev # worker[t].rev \/ task[t].phase = "Terminal" \/ stale -> "stale"
      [] MayAdvance(t, worker[t].rev, TRUE) /\ ~stale /\ EventsFit(r, "Other", k) -> "ok"
      [] OTHER -> "refused"

\* Faulty variant of Publish: the job row is left as it was.
PublishTaskOnly(t, r, k, verdict) ==
    /\ IF verdict = "ok" THEN Put(t, Bumped(r, k)) ELSE UNCHANGED task
    /\ UNCHANGED job

\* Commit r with k events if the verdict is "ok".
Publish(t, r, k, verdict) ==
    IF verdict = "ok"
    THEN /\ Put(t, Bumped(r, k))
         /\ job' = [job EXCEPT ![t] = SyncedJob(r, @)]
    ELSE UNCHANGED <<task, job>>

FinishApply(t) ==
    LET w == worker[t]
        r == Completed(task[t])
        v == Verdict(t, r, task[t].phase # "Invocation", 2)
    IN  /\ w.at = "finishApply"
        /\ Publish(t, r, 2, v)
        /\ Go(t, CASE v = "ok"      -> [w EXCEPT !.at = "cleanup"]
                   [] v = "stale"   -> [w EXCEPT !.at = "finishRead", !.tries = @ + 1]
                   [] v = "refused" -> Failing(t, "OutcomeUnknown"))
        /\ UNCHANGED <<live, consent, calls, system, faults>>

\* stop: the same rounds for the terminal state of a failure.
StopRead(t) ==
    LET w == worker[t]
    IN  /\ w.at = "stopRead"
        /\ Go(t, IF w.tries = Rounds \/ task[t].phase = "Terminal"
                 THEN [w EXCEPT !.at = "cleanup"]
                 ELSE [w EXCEPT !.at = "stopApply", !.rev = task[t].rev])
        /\ UNCHANGED <<task, job, live, consent, calls, system, faults>>

StopApply(t) ==
    LET w == worker[t]
        r == Stopped(task[t], w.why)
        v == Verdict(t, r, w.why = "OutcomeUnknown" /\ task[t].phase # "Invocation", 1)
    IN  /\ w.at = "stopApply"
        /\ Publish(t, r, 1, v)
        /\ Go(t, IF v = "stale" THEN [w EXCEPT !.at = "stopRead", !.tries = @ + 1]
                 ELSE [w EXCEPT !.at = "cleanup"])
        /\ UNCHANGED <<live, consent, calls, system, faults>>

\* Drop for Cleanup; the last holder of the execution leaves with the worker.
Cleanup(t) ==
    /\ worker[t].at = "cleanup"
    /\ preview' = [preview EXCEPT ![t] = None]
    /\ live' = [live EXCEPT ![home[t]] = @ \ {t}]
    /\ Go(t, [worker[t] EXCEPT !.at = "gone"])
    /\ UNCHANGED <<task, job, seen, granted, calls, system, faults>>

\* A store operation of the worker fails and rolls back.
StorageFault(t) ==
    LET w == worker[t]
    IN  /\ faults < MaxFaults
        /\ faults' = faults + 1
        /\ \/ /\ w.at = "claim"
              /\ live' = [live EXCEPT ![home[t]] = @ \ {t}]
              /\ Go(t, [w EXCEPT !.at = "gone"])
           \/ /\ w.at \in {"check", "apply", "consent", "finishRead", "finishApply"}
              /\ Go(t, Failing(t, IF w.at = "finishApply" THEN "OutcomeUnknown" ELSE "Other"))
              /\ UNCHANGED live
           \/ /\ w.at \in {"stopRead", "stopApply"}
              /\ Go(t, [w EXCEPT !.at = "cleanup"])
              /\ UNCHANGED live
        /\ preview' = IF w.at = "consent" THEN [preview EXCEPT ![t] = None] ELSE preview
        /\ UNCHANGED <<task, job, seen, granted, calls, system>>

-----------------------------------------------------------------------------
(* The user *)

\* investigation_consent: the preview is shown while the durable step matches it.
FetchConsent(t) ==
    LET r == task[t]
    IN  /\ preview[t] # None
        /\ r.phase = "Consent" /\ ~r.cancel /\ ~r.approved
        /\ preview[t] = [rev |-> r.rev, step |-> r.pending]
        /\ seen' = [seen EXCEPT ![t] = @ \cup {preview[t]}]
        /\ UNCHANGED <<task, job, worker, live, preview, granted, calls, system, faults>>

\* Faulty variant of DecisionStands: only the step is compared.
DecisionOnStep(t, c) ==
    LET r == task[t]
    IN  r.phase = "Consent" /\ ~r.approved /\ r.pending = c.step

\* consent_decision: the command found the preview on display some time before the
\* store decides, so the answer may name any preview that was shown.
DecisionStands(t, c) ==
    LET r == task[t]
    IN  r.rev = c.rev /\ r.phase = "Consent" /\ ~r.approved /\ r.pending = c.step /\ ~r.cancel

Approve(t, c) ==
    LET r == [task[t] EXCEPT !.approved = TRUE]
    IN  /\ DecisionStands(t, c)
        /\ EventsFit(r, "ConsentApproved", 1)
        /\ Put(t, Bumped(r, 1))
        /\ granted' = [granted EXCEPT ![t] = @ \cup {c.step}]
        /\ UNCHANGED <<job, worker, live, preview, seen, calls, system, faults>>

Decline(t, c) ==
    LET r == Stopped(task[t], "Cancelled")
    IN  /\ DecisionStands(t, c)
        /\ EventsFit(r, "ConsentDeclined", 1)
        /\ Put(t, Bumped(r, 1))
        /\ job' = [job EXCEPT ![t] = SyncedJob(r, @)]
        /\ UNCHANGED <<worker, live, consent, calls, system, faults>>

\* request_cancel, from the investigation (cancel_investigation) or from its job
\* row (JobStore::cancel, cancel_for_job).
CancelledRecord(r) ==
    IF r.phase = "Queued"
    THEN [r EXCEPT !.cancel = TRUE, !.phase = "Terminal", !.status = "Cancelled"]
    ELSE [r EXCEPT !.cancel = TRUE]

Cancel(t) ==
    LET r == CancelledRecord(task[t])
    IN  /\ \E p \in Proc : proc[p] = "up"
        /\ Live(t) /\ ~task[t].cancel
        /\ EventsFit(r, "CancelRequested", 1)
        /\ Put(t, Bumped(r, 1))
        /\ job' = [job EXCEPT ![t] = IF @ \in {"queued", "running"} THEN "cancelled" ELSE @]
        /\ UNCHANGED <<worker, live, consent, calls, system, faults>>

\* clear_finished, as far as it touches investigation rows.
Clearable(t) ==
    \/ job[t] \in {"done", "failed", "cancelled"}
    \/ job[t] = "interrupted" /\ task[t].phase = "Terminal"

ClearFinished ==
    /\ \E p \in Proc : proc[p] = "up"
    /\ \E t \in Task : Clearable(t)
    /\ job' = [t \in Task |-> IF Clearable(t) THEN "absent" ELSE job[t]]
    /\ UNCHANGED <<task, worker, live, consent, calls, system, faults>>

-----------------------------------------------------------------------------
(* Processes *)

Crash(p) ==
    LET lost == {t \in Task : home[t] = p /\ worker[t].at \notin {"none", "gone"}}
    IN  /\ proc[p] # "down" /\ crashes < MaxCrashes
        /\ crashes' = crashes + 1
        /\ proc' = [proc EXCEPT ![p] = "down"]
        /\ cand' = [cand EXCEPT ![p] = {}]
        /\ live' = [live EXCEPT ![p] = {}]
        /\ worker' = [t \in Task |-> IF t \in lost THEN [worker[t] EXCEPT !.at = "gone"]
                                                   ELSE worker[t]]
        /\ preview' = [t \in Task |-> IF t \in lost THEN None ELSE preview[t]]
        /\ seen' = [t \in Task |-> IF home[t] = p THEN {} ELSE seen[t]]
        /\ UNCHANGED <<task, job, home, granted, calls, faults>>

\* investigation_recovery_candidates: live tasks that recorded an owner.
Candidates == {[task |-> t, rev |-> task[t].rev] : t \in {u \in Task : Live(u) /\ task[u].owned}}

Startup(p) ==
    /\ proc[p] = "down"
    /\ Cardinality({t \in Task : Live(t)}) <= MaxLive
    /\ proc' = [proc EXCEPT ![p] = "recovering"]
    /\ cand' = [cand EXCEPT ![p] = Candidates]
    /\ UNCHANGED <<task, job, worker, home, live, consent, calls, crashes, faults>>

\* The task's lock is taken by its worker or by another starting process.
Contended(p, t) == \E q \in Proc \ {p} : \E c \in cand[q] : c.task = t

\* Faulty variant of Recover: a candidate that ended meanwhile is not recognised.
RecoverStale(p, c) ==
    LET t == c.task
        r == Recovered(task[t])
    IN  /\ ~Holds(t)
        /\ cand' = [cand EXCEPT ![p] = @ \ {c}]
        /\ Put(t, Bumped(r, 1))
        /\ job' = [job EXCEPT ![t] = SyncedJob(r, @)]
        /\ UNCHANGED <<worker, home, live, consent, calls, proc, crashes, faults>>

\* try_reserve, then recover_investigation for an unchanged candidate.
Recover(p, c) ==
    LET t == c.task
        r == Recovered(task[t])
        unchanged == Live(t) /\ task[t].rev = c.rev
    IN  /\ ~Holds(t)
        /\ cand' = [cand EXCEPT ![p] = @ \ {c}]
        /\ \/ /\ unchanged /\ EventsFit(r, "Recovered", 1)
              /\ Put(t, Bumped(r, 1))
              /\ job' = [job EXCEPT ![t] = SyncedJob(r, @)]
           \/ /\ ~unchanged
              /\ UNCHANGED <<task, job>>
        /\ UNCHANGED <<worker, home, live, consent, calls, proc, crashes, faults>>

SkipBusy(p, c) ==
    /\ Holds(c.task) \/ Contended(p, c.task)
    /\ cand' = [cand EXCEPT ![p] = @ \ {c}]
    /\ UNCHANGED <<task, job, worker, home, live, consent, calls, proc, crashes, faults>>

FinishStartup(p) ==
    /\ proc[p] = "recovering" /\ cand[p] = {}
    /\ proc' = [proc EXCEPT ![p] = "up"]
    /\ UNCHANGED <<task, job, worker, home, live, consent, calls, cand, crashes, faults>>

WorkerStep(t) ==
    \/ InsertLive(t) \/ Claim(t) \/ ClaimRefused(t)
    \/ CheckNewWork(t) \/ Advance(t) \/ AdvanceRefused(t) \/ PollConsent(t) \/ GiveUp(t)
    \/ Dispatch(t) \/ Answer(t) \/ NoAnswer(t)
    \/ FinishRead(t) \/ FinishApply(t) \/ StopRead(t) \/ StopApply(t) \/ Cleanup(t)

Next ==
    \/ \E t \in Task :
          \/ \E p \in Proc, m \in Mode : StartInvestigation(p, t, m)
          \/ WorkerStep(t)
          \/ StorageFault(t)
          \/ FetchConsent(t)
          \/ \E c \in seen[t] : Approve(t, c) \/ Decline(t, c)
          \/ Cancel(t)
    \/ ClearFinished
    \/ \E p \in Proc :
          \/ Crash(p) \/ Startup(p) \/ FinishStartup(p)
          \/ \E c \in cand[p] : Recover(p, c) \/ SkipBusy(p, c)

Spec == Init /\ [][Next]_vars

\* A worker thread is scheduled; its waits end by timeout (the provider call by its
\* deadline, the consent wait by remaining_wall).
FairSpec == Spec /\ \A t \in Task : WF_vars(WorkerStep(t))

-----------------------------------------------------------------------------
(* Properties *)

\* Types: every record, row, worker and preview keeps its shape.
TypeOK ==
    /\ task \in [Task -> Record]
    /\ job \in [Task -> JobStatus]
    /\ worker \in [Task -> Worker]
    /\ home \in [Task -> Proc \cup {None}]
    /\ live \in [Proc -> SUBSET Task]
    /\ preview \in [Task -> [rev : Nat, step : Step] \cup {None}]
    /\ \A t \in Task : \A c \in seen[t] : c \in [rev : Nat, step : Step]
    /\ proc \in [Proc -> {"down", "recovering", "up"}]
    /\ \A p \in Proc : \A c \in cand[p] : c \in [task : Task, rev : Nat]
    /\ call \in [Task -> Step \cup {None}]
    /\ granted \in [Task -> SUBSET Step]
    /\ called \in [Task -> [1 .. MaxInvocations -> Nat]]
    /\ crashes \in Nat /\ faults \in Nat

\* No sequence of transitions, cancels, decisions and recoveries leaves a record
\* that validate_task rejects: such a task could not even be cancelled, and would
\* fail every later startup (storage.rs load_task, recovery.rs recover).
NeverWedged == \A t \in Task : task[t].phase # "absent" => ValidRecord(task[t])

\* The reserve of the event log (storage.rs event): ordinary work leaves room for a
\* cancel request, and a cancelled task still has room for the two events of a late
\* finish, so neither a cancel nor an ending is ever refused for lack of capacity.
EventReserve ==
    \A t \in Task : Live(t) => task[t].seq <= MaxEvents - (IF task[t].cancel THEN 2 ELSE 3)

\* A live task can always be loaded, cancelled and ended.
RecordUsable == NeverWedged /\ EventReserve

\* A cloud request leaves the process only for the exact step the user approved, and
\* no step is sent twice: not by a stale approval, a retry, or a restart.
ConsentedOnce ==
    \A t \in Task :
        /\ task[t].mode = "Cloud" /\ call[t] # None => call[t] \in granted[t]
        /\ \A n \in 1 .. MaxInvocations :
              /\ called[t][n] <= 1
              /\ task[t].mode = "Cloud" /\ called[t][n] > 0 => \E s \in granted[t] : s.n = n

\* A call that was sent and never answered is reported as OutcomeUnknown, whichever
\* of a failure, a cancel or a crash ended the task: never as failed, cancelled or
\* interrupted, which would tell the user that nothing was sent.
UnansweredIsUnknown ==
    \A t \in Task : task[t].phase = "Terminal" /\ call[t] # None
                        => task[t].status = "OutcomeUnknown"

\* Every request to a provider is one the user approved, sent once, and accounted
\* for when the task has ended.
CallsAccounted == ConsentedOnce /\ UnansweredIsUnknown

\* The job row agrees with its task: no row waits or runs for a task that has ended,
\* "done" means a result nobody cancelled, and an owned task keeps a running row
\* until it is cancelled, also while its row is cleared or its owner is dead.
JobFollowsTask ==
    \A t \in Task :
        /\ task[t].phase = "Terminal" => job[t] \notin {"queued", "running"}
        /\ job[t] = "done" => task[t].result /\ ~task[t].cancel
        /\ Live(t) /\ task[t].owned /\ ~task[t].cancel => job[t] = "running"

\* Three rounds are enough: without a storage fault a worker never leaves its task
\* behind in a live phase, however cancels race with its publications.
WorkerLeavesItEnded ==
    \A t \in Task : faults = 0 /\ worker[t].at = "cleanup" => task[t].phase = "Terminal"

\* Task record, job row and worker agree on whether the task has ended.
EndsTogether == TypeOK /\ JobFollowsTask /\ WorkerLeavesItEnded

\* Startups never find more live tasks than they accept (recovery would refuse).
LiveWithinCap == Cardinality({t \in Task : Live(t)}) <= MaxLive

\* A validated answer is not lost to a race: publication is abandoned only for a
\* storage fault (admit_finish).
FinishKept ==
    [][\A t \in Task : worker[t].at \in {"finishRead", "finishApply"} /\ worker'[t].at = "stopRead"
                          => faults' > faults]_vars

\* Once cancelled a task starts nothing new: its phase stays or becomes Terminal.
CancelOnlyEnds ==
    [][\A t \in Task : task[t].cancel /\ task'[t] # task[t]
                          => task'[t].phase = "Terminal" /\ task'[t].used = task[t].used]_vars

\* History is append-only: an ended task never changes again, and a live one never
\* takes back a revision, an event, a charge or a cancel request.
HistoryKept ==
    [][\A t \in Task :
          /\ task[t].phase = "Terminal" => task'[t] = task[t]
          /\ task'[t] # task[t] /\ task[t].phase # "absent" =>
                /\ task'[t].rev = task[t].rev + 1
                /\ task'[t].seq > task[t].seq
                /\ task'[t].used >= task[t].used
                /\ task[t].cancel => task'[t].cancel]_vars

\* What no step does to a task: start work after a cancel, or rewrite what was recorded.
RecordKept == CancelOnlyEnds /\ HistoryKept

\* Every worker ends: no consent wait, provider call, retry or limit keeps it.
WorkerEnds == \A t \in Task : Holds(t) ~> ~Holds(t)

-----------------------------------------------------------------------------
(* The inductive invariant behind NeverWedged, EventReserve, HistoryKept and   *)
(* CancelOnlyEnds: a statement about each record on its own, and about the     *)
(* action a worker is about to admit.                                          *)

\* A record as it is stored; the number of a pending step is not bounded here.
Stored == [phase : Phase, status : Status, mode : Mode, rev : Nat, seq : Nat,
           cancel : BOOLEAN, owned : BOOLEAN, ledger : Nat,
           pending : [n : Nat, ledger : Nat] \cup {None},
           approved : BOOLEAN, tool : Tool \cup {None}, used : Nat, result : BOOLEAN]

\* A record that loads, with room for a cancel and for its ending.
Sound(r) ==
    /\ r \in Stored
    /\ r.phase = "absent" => ~r.cancel
    /\ r.phase # "absent" => ValidRecord(r)
    /\ r.phase \notin {"absent", "Terminal"} =>
          r.seq <= MaxEvents - (IF r.cancel THEN 2 ELSE 3)

\* What a transaction may make of record r.
Succeeds(r, s) ==
    /\ r.phase # "Terminal"
    /\ Sound(s) /\ s.phase # "absent"
    /\ r.phase # "absent" =>
          /\ s.rev = r.rev + 1 /\ s.seq > r.seq /\ s.used >= r.used
          /\ r.cancel => s.cancel
    /\ r.cancel => s.phase = "Terminal" /\ s.used = r.used

\* A worker has a task, and an action it received names a tool.
Equipped(w) ==
    /\ w \in [at : At, op : Op, rev : Nat, tool : Tool \cup {None}, tries : Nat, why : Reason]
    /\ w.at \in {"check", "apply"} /\ w.op = "ActionAdmitted" => w.tool \in Tool

WorkersEquipped ==
    /\ worker = [t \in Task |-> worker[t]]
    /\ \A t \in Task :
          Equipped(worker[t]) /\ (worker[t].at # "none" => task[t].phase # "absent")

RecordInv ==
    /\ task \in [Task -> Stored]
    /\ \A t \in Task : Sound(task[t])
    /\ WorkersEquipped

-----------------------------------------------------------------------------
(* The inductive invariant behind FinishKept, CallsAccounted and EndsTogether: *)
(* for each task, how record, job row, worker, calls and approvals fit         *)
(* together.  What a task holds is passed as values, so that each part says    *)
(* which of them it relates.                                                   *)

\* An absent record is blank; a pending step is within the invocation limit, and an
\* approved one was approved by the user.
RecordFits(r, grants) ==
    /\ r.phase = "absent" => r = NoRecord
    /\ r.pending # None => r.pending \in Step
    /\ r.approved => r.pending \in grants

\* The row follows the task, also once a cancelled row is cleared.
RowFits(r, row) ==
    /\ row \in JobStatus
    /\ r.phase = "Terminal" => row \notin {"queued", "running"}
    /\ row = "done" => r.result /\ ~r.cancel
    /\ r.phase \notin {"absent", "Terminal"} /\ r.owned =>
          IF r.cancel THEN row \in {"cancelled", "absent"} ELSE row = "running"

\* Nobody moves a task out of the phase its worker is in the middle of.
PlaceFits(r, w) ==
    /\ w.at \notin Idle => r.phase \notin {"absent", "Queued"}
    /\ w.at \in {"dispatch", "calling", "finishRead", "finishApply"} => r.phase = "Invocation"
    /\ w.at \in {"stopRead", "stopApply"} /\ w.why = "OutcomeUnknown" =>
          r.phase \in {"Invocation", "Terminal"}
    /\ w.at = "apply" /\ w.op = "AwaitConsent" /\ r.mode = "Cloud" => r.used < MaxInvocations

\* How often the revision can still have moved under a worker that publishes: once by
\* a cancel, once by an approval that came too late.
RevisionMoves(r) == (IF r.cancel THEN 1 ELSE 0) + (IF r.approved THEN 1 ELSE 0)

RoundsFit(r, w, faulted) ==
    /\ w.tries \in 0 .. 3
    /\ w.at \in {"finishRead", "stopRead"} => r.phase = "Terminal" \/ w.tries <= RevisionMoves(r)
    /\ w.at \in {"finishApply", "stopApply"} =>
          /\ w.tries <= 2
          /\ r.phase = "Terminal" \/ w.tries < RevisionMoves(r) \/ (w.rev = r.rev /\ w.tries <= RevisionMoves(r))
    /\ ~faulted /\ w.at = "cleanup" => r.phase = "Terminal"

\* An unanswered call holds the task in its invocation; steps are numbered by the
\* invocations charged, and sent at most once.
CallFits(r, w, open, counts, grants) ==
    /\ grants \subseteq Step
    /\ counts \in [1 .. MaxInvocations -> {0, 1}]
    /\ open # None =>
          /\ open \in Step
          /\ r.phase = "Invocation" \/ (r.phase = "Terminal" /\ r.status = "OutcomeUnknown")
          /\ r.mode = "Cloud" => open \in grants
          /\ \/ w.at \in {"calling", "cleanup", "gone"}
             \/ w.at \in {"stopRead", "stopApply"} /\ w.why = "OutcomeUnknown"
    /\ \A n \in 1 .. MaxInvocations : counts[n] # 0 =>
          n <= r.used /\ (r.mode = "Cloud" => \E s \in grants : s.n = n)
    /\ w.at = "dispatch" =>
          /\ r.pending.n = r.used /\ counts[r.used] = 0
          /\ r.mode = "Cloud" => r.pending \in grants

Preview == [rev : Nat, step : Step]

TaskFits(t) ==
    /\ RecordFits(task[t], granted[t])
    /\ RowFits(task[t], job[t])
    /\ PlaceFits(task[t], worker[t])
    /\ RoundsFit(task[t], worker[t], faults > 0)
    /\ CallFits(task[t], worker[t], call[t], called[t], granted[t])
    /\ preview[t] \in Preview \cup {None} /\ \A c \in seen[t] : c \in Preview

\* The variables are functions of the right domains.
Shapes ==
    /\ job \in [Task -> JobStatus] /\ home \in [Task -> Proc \cup {None}]
    /\ live \in [Proc -> SUBSET Task] /\ proc \in [Proc -> {"down", "recovering", "up"}]
    /\ preview \in [Task -> Preview \cup {None}] /\ DOMAIN seen = Task
    /\ call \in [Task -> Step \cup {None}] /\ granted \in [Task -> SUBSET Step]
    /\ called \in [Task -> [1 .. MaxInvocations -> {0, 1}]]
    /\ DOMAIN cand = Proc /\ \A p \in Proc : \A c \in cand[p] : c \in [task : Task, rev : Nat]
    /\ crashes \in Nat /\ faults \in Nat

TasksInv == Shapes /\ \A t \in Task : TaskFits(t)

=============================================================================
