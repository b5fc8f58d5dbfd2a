------------------------ MODULE InvestigationProofs ------------------------
(***************************************************************************)
(* Proofs about Investigation, for any number of tasks and processes and   *)
(* any limits.  The first half is about the durable record: what each      *)
(* transaction makes of a sound record, and that every action is one of    *)
(* these transactions or leaves the record alone.  The second half is      *)
(* about a task as a whole: how record, row, worker and calls fit together *)
(* (TasksInv), step by step.                                               *)
(***************************************************************************)
EXTENDS Investigation, FiniteSetTheorems, TLAPS

USE DEF Phase, Ended, Status, Tool, Mode

-----------------------------------------------------------------------------
(* Transactions on one record. *)

\* start_investigation writes a sound record.
LEMMA StartedSound ==
    ASSUME NEW m \in Mode,
           EventsFit([NoRecord EXCEPT !.phase = "Queued", !.mode = m], "Created", 1)
    PROVE  Sound([[NoRecord EXCEPT !.phase = "Queued", !.mode = m] EXCEPT !.seq = 1])
<1> DEFINE s == [[NoRecord EXCEPT !.phase = "Queued", !.mode = m] EXCEPT !.seq = 1]
<1>1. s \in Stored
    BY DEF NoRecord, Stored
<1>2. /\ s.phase = "Queued" /\ s.status = "Queued" /\ s.seq = 1 /\ ~s.cancel /\ ~s.owned
      /\ s.pending = None /\ ~s.approved /\ s.tool = None /\ s.used = 0 /\ ~s.result
    BY DEF NoRecord
<1>3. 1 <= MaxEvents - 3
    BY BoundsAssumption DEF EventsFit, EventLimit, NoRecord
<1> HIDE DEF s
<1>4. QED
    <2>1. ValidRecord(s)
      BY <1>1, <1>2, <1>3, BoundsAssumption DEF ValidRecord
    <2>2. Sound(s)
      BY <1>1, <1>2, <1>3, <2>1, BoundsAssumption DEF Sound
    <2>3. QED
      BY <2>2 DEF s

\* bump and the events change the revision and the sequence number only.
LEMMA BumpedFields ==
    ASSUME NEW s \in Stored, NEW k \in Nat
    PROVE  /\ Bumped(s, k) \in Stored
           /\ Bumped(s, k).rev = s.rev + 1 /\ Bumped(s, k).seq = s.seq + k
           /\ Bumped(s, k).phase = s.phase /\ Bumped(s, k).status = s.status
           /\ Bumped(s, k).cancel = s.cancel /\ Bumped(s, k).owned = s.owned
           /\ Bumped(s, k).pending = s.pending /\ Bumped(s, k).approved = s.approved
           /\ Bumped(s, k).tool = s.tool /\ Bumped(s, k).used = s.used
           /\ Bumped(s, k).result = s.result
<1>1. s.rev + 1 \in Nat /\ s.seq + k \in Nat
    BY DEF Stored
<1>2. \A m, n \in Nat : [s EXCEPT !.rev = m, !.seq = n] \in Stored
    BY DEF Stored
<1>3. Bumped(s, k) \in Stored
    BY <1>1, <1>2 DEF Bumped
<1>4. QED
    BY <1>3 DEF Bumped, Stored

\* Whatever a transaction makes of a record before it counts the revision and the
\* events: if it is valid, and the events fit, the record that is saved is sound.
LEMMA BumpedSucceeds ==
    ASSUME NEW r, Sound(r), r.phase # "Terminal",
           NEW s \in Stored, s.phase # "absent", ValidRecord(s),
           s.rev = r.rev, s.seq = r.seq, s.used >= r.used,
           r.cancel => s.cancel /\ s.phase = "Terminal" /\ s.used = r.used,
           NEW k \in Nat \ {0}, NEW kind, EventsFit(s, kind, k),
           kind = "CancelRequested" => s.cancel
    PROVE  Succeeds(r, Bumped(s, k))
<1> DEFINE b == Bumped(s, k)
<1>1. /\ b \in Stored /\ b.rev = s.rev + 1 /\ b.seq = s.seq + k /\ b.phase = s.phase
      /\ b.status = s.status /\ b.cancel = s.cancel /\ b.owned = s.owned
      /\ b.pending = s.pending /\ b.approved = s.approved /\ b.tool = s.tool
      /\ b.used = s.used /\ b.result = s.result
    BY BumpedFields
<1> HIDE DEF b
<1>2. r.seq \in Nat /\ s.seq \in Nat /\ r.rev \in Nat /\ s.used \in Nat /\ r.used \in Nat
    BY DEF Sound, Stored
<1>3. /\ b.seq <= MaxEvents
      /\ b.phase # "Terminal" => b.seq <= MaxEvents - (IF b.cancel THEN 2 ELSE 3)
    BY <1>1, <1>2, BoundsAssumption DEF EventsFit, EventLimit
<1>4. ValidRecord(b)
    BY <1>1, <1>3 DEF ValidRecord
<1>5. Sound(b)
    BY <1>1, <1>3, <1>4 DEF Sound
<1>6. QED
    BY <1>1, <1>2, <1>5 DEF Succeeds, b

\* attach_execution
LEMMA ClaimedSucceeds ==
    ASSUME NEW r, Sound(r), r.phase = "Queued", ~r.cancel,
           EventsFit([r EXCEPT !.phase = "Preparing"], "PreparationStarted", 1)
    PROVE  Succeeds(r, Bumped([r EXCEPT !.phase = "Preparing", !.status = "Preparing",
                                        !.owned = TRUE], 1))
<1> DEFINE s == [r EXCEPT !.phase = "Preparing", !.status = "Preparing", !.owned = TRUE]
<1>1. s \in Stored /\ s.phase = "Preparing" /\ s.rev = r.rev /\ s.seq = r.seq /\ s.used = r.used
    BY DEF Sound, Stored
<1>2. ValidRecord(s)
    BY BoundsAssumption, NoneAssumption DEF Sound, Stored, ValidRecord
<1>3. EventsFit(s, "PreparationStarted", 1)
    BY DEF EventsFit, EventLimit, Sound, Stored
<1> HIDE DEF s
<1>4. r.used \in Nat
    BY DEF Sound, Stored
<1>5. Succeeds(r, Bumped(s, 1))
    BY <1>1, <1>2, <1>3, <1>4, BumpedSucceeds
<1>6. QED
    BY <1>5 DEF s
\* admit_finish
LEMMA CompletedSucceeds ==
    ASSUME NEW r, Sound(r), r.phase = "Invocation", EventsFit(Completed(r), "Other", 2)
    PROVE  Succeeds(r, Bumped(Completed(r), 2))
<1> DEFINE s == Completed(r)
<1>1. s \in Stored /\ s.phase = "Terminal" /\ s.rev = r.rev /\ s.seq = r.seq /\ s.used = r.used /\ (r.cancel => s.cancel)
    BY DEF Sound, Stored, Completed
<1>2. ValidRecord(s)
    BY BoundsAssumption, NoneAssumption DEF Sound, Stored, ValidRecord, Completed
<1> HIDE DEF s
<1>3. r.used \in Nat
    BY DEF Sound, Stored
<1>4. Succeeds(r, Bumped(s, 2))
    BY <1>1, <1>2, <1>3, BumpedSucceeds DEF s
<1>5. QED
    BY <1>4 DEF s

\* stop, for a failure, a cancel or a declined consent.
LEMMA StoppedSucceeds ==
    ASSUME NEW r, Sound(r), NEW reason \in Reason, NEW kind,
           kind # "CancelRequested", r.phase \notin {"absent", "Terminal"},
           EventsFit(Stopped(r, reason), kind, 1)
    PROVE  Succeeds(r, Bumped(Stopped(r, reason), 1))
<1> DEFINE s == Stopped(r, reason)
<1>1. PICK c \in BOOLEAN, st \in {"OutcomeUnknown", "Cancelled", "Failed"} :
        /\ s = [r EXCEPT !.phase = "Terminal", !.pending = None, !.approved = FALSE,
                         !.tool = None, !.cancel = c, !.status = st]
        /\ r.cancel => c
  <2>1. r.cancel \in BOOLEAN
    BY DEF Sound, Stored
  <2>2. QED
    BY <2>1 DEF Stopped
<1> HIDE DEF s
<1>2. /\ s \in Stored /\ s.phase = "Terminal" /\ s.rev = r.rev /\ s.seq = r.seq
      /\ s.used = r.used /\ (r.cancel => s.cancel)
    BY <1>1, ZenonT(60) DEF Sound, Stored
<1>3. ValidRecord(s)
    BY <1>1, BoundsAssumption, NoneAssumption DEF Sound, Stored, ValidRecord
<1>4. r.used \in Nat
    BY DEF Sound, Stored
<1>5. Succeeds(r, Bumped(s, 1))
    BY <1>2, <1>3, <1>4, BumpedSucceeds DEF s
<1>6. QED
    BY <1>5 DEF s

\* recover_investigation
LEMMA RecoveredSucceeds ==
    ASSUME NEW r, Sound(r), r.phase \notin {"absent", "Terminal"},
           EventsFit(Recovered(r), "Recovered", 1)
    PROVE  Succeeds(r, Bumped(Recovered(r), 1))
<1> DEFINE s == Recovered(r)
<1>1. /\ s \in Stored /\ s.phase = "Terminal" /\ s.rev = r.rev /\ s.seq = r.seq
      /\ s.used = r.used /\ (r.cancel => s.cancel)
  <2>1. PICK st \in {"OutcomeUnknown", "Interrupted"} :
          s = [r EXCEPT !.phase = "Terminal", !.pending = None, !.approved = FALSE,
                        !.tool = None, !.status = st]
      BY DEF Recovered
  <2> HIDE DEF s
  <2>2. QED
      BY <2>1 DEF Sound, Stored
<1>2. ValidRecord(s)
    BY BoundsAssumption, NoneAssumption DEF Sound, Stored, ValidRecord, Recovered
<1> HIDE DEF s
<1>3. r.used \in Nat
    BY DEF Sound, Stored
<1>4. Succeeds(r, Bumped(s, 1))
    BY <1>1, <1>2, <1>3, BumpedSucceeds DEF s
<1>5. QED
    BY <1>4 DEF s

\* consent_decision, approved.
LEMMA ApprovedSucceeds ==
    ASSUME NEW r, Sound(r), r.phase = "Consent", ~r.cancel,
           EventsFit([r EXCEPT !.approved = TRUE], "ConsentApproved", 1)
    PROVE  Succeeds(r, Bumped([r EXCEPT !.approved = TRUE], 1))
<1> DEFINE s == [r EXCEPT !.approved = TRUE]
<1>1. s \in Stored /\ s.phase = "Consent" /\ s.rev = r.rev /\ s.seq = r.seq /\ s.used = r.used
    BY DEF Sound, Stored
<1>2. ValidRecord(s)
    BY BoundsAssumption, NoneAssumption DEF Sound, Stored, ValidRecord
<1>3. EventsFit(s, "ConsentApproved", 1) /\ r.used \in Nat
    BY DEF Sound, Stored
<1> HIDE DEF s
<1>4. Succeeds(r, Bumped(s, 1))
    BY <1>1, <1>2, <1>3, BumpedSucceeds, "ConsentApproved" # "CancelRequested"
<1>5. QED
    BY <1>4 DEF s

\* request_cancel
LEMMA CancelledSucceeds ==
    ASSUME NEW r, Sound(r), r.phase \notin {"absent", "Terminal"}, ~r.cancel,
           EventsFit(CancelledRecord(r), "CancelRequested", 1)
    PROVE  Succeeds(r, Bumped(CancelledRecord(r), 1))
<1> DEFINE s == CancelledRecord(r)
<1>1. s \in Stored /\ s.phase # "absent" /\ s.rev = r.rev /\ s.seq = r.seq /\ s.used = r.used /\ s.cancel
    BY DEF Sound, Stored, CancelledRecord
<1>2. ValidRecord(s)
    BY BoundsAssumption, NoneAssumption DEF Sound, Stored, ValidRecord, CancelledRecord
<1> HIDE DEF s
<1>3. r.used \in Nat
    BY DEF Sound, Stored
<1>4. Succeeds(r, Bumped(s, 1))
    BY <1>1, <1>2, <1>3, BumpedSucceeds DEF s
<1>5. QED
    BY <1>4 DEF s

\* The record each transition of the worker loop makes is valid, and counts at most
\* one invocation more.
LEMMA MovedValid ==
    ASSUME NEW r, Sound(r), NEW op \in Op, NEW tool \in Tool \cup {None},
           op = "ActionAdmitted" => tool \in Tool,
           r.phase # "Terminal", PhaseAllows(r, op, tool)
    PROVE  LET s == Moved(r, op, tool) IN
           /\ s \in Stored /\ s.phase # "absent" /\ ValidRecord(s)
           /\ s.rev = r.rev /\ s.seq = r.seq /\ s.used >= r.used /\ s.used \in Nat
<1>1. /\ r \in Stored /\ r.used \in Nat /\ r.used + 1 \in Nat /\ r.ledger + 1 \in Nat
      /\ r.phase # "absent" /\ ValidRecord(r) /\ StepOf(r) \in [n : Nat, ledger : Nat]
  <2>1. r \in Stored /\ r.used \in Nat /\ r.ledger \in Nat
    BY DEF Sound, Stored
  <2>2. r.phase # "absent"
    BY DEF PhaseAllows, Op
  <2>3. StepOf(r) \in [n : Nat, ledger : Nat]
    BY <2>1 DEF StepOf
  <2>4. QED
    BY <2>1, <2>2, <2>3 DEF Sound
<1>2. CASE op \in {"InputPrepared", "InputAdmitted"}
  <2>1. Moved(r, op, tool) = [r EXCEPT !.phase = "Ready", !.status = "Running",
                                       !.ledger = r.ledger + 1, !.tool = None]
    BY <1>2 DEF Moved
  <2>2. r.phase \in {"Preparing", "Tool"}
    BY <1>2 DEF PhaseAllows
  <2>3. QED
    <3> DEFINE s == Moved(r, op, tool)
    <3>1. s \in Stored
      BY <1>1, <2>1 DEF Stored
    <3>2. /\ s.rev = r.rev /\ s.seq = r.seq /\ s.used >= r.used /\ s.phase # "absent"
      BY <1>1, <2>1 DEF Stored
    <3>3. ValidRecord(s)
      BY <1>1, <2>1, <2>2, BoundsAssumption, NoneAssumption DEF Stored, ValidRecord
    <3>4. QED
      BY <3>1, <3>2, <3>3 DEF Stored
<1>3. CASE op = "AwaitConsent"
  <2>1. Moved(r, op, tool) = [r EXCEPT !.phase = "Consent", !.status = "AwaitingConsent",
                                       !.pending = StepOf(r), !.approved = FALSE]
    BY <1>3 DEF Moved, Awaiting
  <2>2. r.phase = "Ready"
    BY <1>3 DEF PhaseAllows
  <2>3. QED
    <3> DEFINE s == Moved(r, op, tool)
    <3>1. s \in Stored
      BY <1>1, <2>1 DEF Stored
    <3>2. /\ s.rev = r.rev /\ s.seq = r.seq /\ s.used >= r.used /\ s.phase # "absent"
      BY <1>1, <2>1 DEF Stored
    <3>3. ValidRecord(s)
      BY <1>1, <2>1, <2>2, BoundsAssumption, NoneAssumption DEF Stored, ValidRecord
    <3>4. QED
      BY <3>1, <3>2, <3>3 DEF Stored
<1>4. CASE op = "BeginInvocation"
  <2>1. Moved(r, op, tool) = [r EXCEPT !.phase = "Invocation", !.status = "Running",
                                       !.pending = StepOf(r), !.approved = FALSE,
                                       !.used = r.used + 1]
    BY <1>4 DEF Moved
  <2>2. r.phase \in {"Ready", "Consent"} /\ r.used + 1 <= MaxInvocations
    BY <1>1, <1>4, BoundsAssumption DEF PhaseAllows
  <2>3. QED
    <3> DEFINE s == Moved(r, op, tool)
    <3>1. s \in Stored
      BY <1>1, <2>1, ZenonT(60) DEF Stored
    <3>2. /\ s.rev = r.rev /\ s.seq = r.seq /\ s.used >= r.used /\ s.phase # "absent"
      BY <1>1, <2>1 DEF Stored
    <3>3. ValidRecord(s)
      BY <1>1, <2>1, <2>2, BoundsAssumption, NoneAssumption DEF Stored, ValidRecord
    <3>4. QED
      BY <3>1, <3>2, <3>3 DEF Stored
<1>5. CASE op = "ActionAdmitted"
  <2>1. Moved(r, op, tool) = [r EXCEPT !.phase = "Action", !.pending = None, !.approved = FALSE,
                                       !.tool = tool]
    BY <1>5 DEF Moved
  <2>2. r.phase = "Invocation" /\ tool \in Tool
    BY <1>5 DEF PhaseAllows
  <2>3. QED
    <3> DEFINE s == Moved(r, op, tool)
    <3>1. s \in Stored
      BY <1>1, <2>1 DEF Stored
    <3>2. /\ s.rev = r.rev /\ s.seq = r.seq /\ s.used >= r.used /\ s.phase # "absent"
      BY <1>1, <2>1 DEF Stored
    <3>3. ValidRecord(s)
      BY <1>1, <2>1, <2>2, BoundsAssumption, NoneAssumption DEF Stored, ValidRecord
    <3>4. QED
      BY <3>1, <3>2, <3>3 DEF Stored
<1>6. CASE op = "BeginTool"
  <2>1. Moved(r, op, tool) = [r EXCEPT !.phase = "Tool"] /\ r.phase = "Action"
    BY <1>6 DEF Moved, PhaseAllows
  <2>2. QED
    BY <1>1, <2>1, BoundsAssumption, NoneAssumption DEF Stored, ValidRecord
<1>7. CASE op = "ChargeEvidence"
    BY <1>1, <1>7 DEF Moved
<1>8. QED
    BY <1>2, <1>3, <1>4, <1>5, <1>6, <1>7 DEF Op

\* advance_investigation for the worker loop.
LEMMA MovedSucceeds ==
    ASSUME NEW r, Sound(r), NEW op \in Op, NEW tool \in Tool \cup {None},
           op = "ActionAdmitted" => tool \in Tool,
           r.phase # "Terminal", ~r.cancel, PhaseAllows(r, op, tool),
           EventsFit(Moved(r, op, tool), "Other", EventCount(op))
    PROVE  Succeeds(r, Bumped(Moved(r, op, tool), EventCount(op)))
<1>1. EventCount(op) \in Nat \ {0}
    BY DEF EventCount
<1>2. QED
    BY <1>1, MovedValid, BumpedSucceeds, "Other" # "CancelRequested"

-----------------------------------------------------------------------------
(* Actions. *)

\* Every record is left alone or succeeded by one transaction.
RecordsStep ==
    /\ task' \in [Task -> Stored]
    /\ \A t \in Task : task'[t] = task[t] \/ Succeeds(task[t], task'[t])

\* One record is saved.
LEMMA PutStep ==
    ASSUME RecordInv, NEW t \in Task, NEW s, Succeeds(task[t], s), Put(t, s)
    PROVE  RecordsStep
BY DEF RecordInv, RecordsStep, Succeeds, Sound, Put

\* start_investigation: the record did not exist, so nothing is asked of its past.
LEMMA StartStep ==
    ASSUME RecordInv, NEW p \in Proc, NEW t \in Task, NEW m \in Mode, StartInvestigation(p, t, m)
    PROVE  RecordsStep
<1> DEFINE q == [NoRecord EXCEPT !.phase = "Queued", !.mode = m]
           s == [q EXCEPT !.seq = 1]
<1>1. task[t].phase = "absent" /\ EventsFit(q, "Created", 1) /\ Put(t, s)
    BY DEF StartInvestigation
<1>2. Sound(s)
    BY <1>1, StartedSound
<1>3. s.phase = "Queued"
    BY DEF NoRecord
<1>4. ~task[t].cancel
    BY <1>1 DEF RecordInv, Sound
<1> HIDE DEF s, q
<1>5. Succeeds(task[t], s)
    BY <1>1, <1>2, <1>3, <1>4 DEF Succeeds
<1>6. QED
    BY <1>1, <1>5, PutStep

\* claim_execution with attach_execution.
LEMMA ClaimStep == ASSUME RecordInv, NEW t \in Task, Claim(t) PROVE RecordsStep
BY ClaimedSucceeds, PutStep DEF Claim, CanClaim, RecordInv

\* The transitions of the worker loop.
LEMMA AdvanceStep == ASSUME RecordInv, NEW t \in Task, Advance(t) PROVE RecordsStep
<1> DEFINE op == worker[t].op
           tool == worker[t].tool
<1>1. /\ op \in Op /\ tool \in Tool \cup {None} /\ (op = "ActionAdmitted" => tool \in Tool)
    BY DEF Advance, RecordInv, WorkersEquipped, Equipped
<1>2. /\ task[t].phase # "Terminal" /\ ~task[t].cancel /\ PhaseAllows(task[t], op, tool)
      /\ EventsFit(Moved(task[t], op, tool), "Other", EventCount(op))
      /\ Put(t, Bumped(Moved(task[t], op, tool), EventCount(op)))
    BY DEF Advance, CanAdvance, MayAdvance
<1>3. Sound(task[t])
    BY DEF RecordInv
<1> HIDE DEF op, tool
<1>4. QED
    BY <1>1, <1>2, <1>3, MovedSucceeds, PutStep

\* A verdict of "ok" was given to a live record, with room for the events.
LEMMA VerdictOk ==
    ASSUME NEW t \in Task, NEW r, NEW stale \in BOOLEAN, NEW k \in Nat, Verdict(t, r, stale, k) = "ok"
    PROVE  task[t].phase # "Terminal" /\ ~stale /\ EventsFit(r, "Other", k)
BY DEF Verdict, MayAdvance

\* admit_finish
LEMMA FinishStep == ASSUME RecordInv, NEW t \in Task, FinishApply(t) PROVE RecordsStep
<1> DEFINE r == Completed(task[t])
           v == Verdict(t, r, task[t].phase # "Invocation", 2)
<1>1. IF v = "ok" THEN Put(t, Bumped(r, 2)) ELSE task' = task
    BY DEF FinishApply, Publish
<1>2. CASE v = "ok"
  <2>1. task[t].phase = "Invocation" /\ EventsFit(r, "Other", 2)
    BY <1>2, VerdictOk
  <2>2. QED
    BY <1>1, <1>2, <2>1, CompletedSucceeds, PutStep DEF RecordInv
<1>3. CASE v # "ok"
    BY <1>1, <1>3 DEF RecordInv, RecordsStep
<1>4. QED
    BY <1>2, <1>3

\* stop
LEMMA StopStep == ASSUME RecordInv, NEW t \in Task, StopApply(t) PROVE RecordsStep
<1> DEFINE why == worker[t].why
           r == Stopped(task[t], why)
           v == Verdict(t, r, why = "OutcomeUnknown" /\ task[t].phase # "Invocation", 1)
<1>1. IF v = "ok" THEN Put(t, Bumped(r, 1)) ELSE task' = task
    BY DEF StopApply, Publish
<1>2. why \in Reason /\ task[t].phase # "absent" /\ Sound(task[t])
    BY DEF StopApply, RecordInv, WorkersEquipped, Equipped, At
<1>3. CASE v = "ok"
  <2>1. task[t].phase # "Terminal" /\ EventsFit(r, "Other", 1)
    BY <1>3, VerdictOk
  <2>2. Succeeds(task[t], Bumped(r, 1))
    BY <1>2, <2>1, StoppedSucceeds, "Other" # "CancelRequested"
  <2>3. QED
    BY <1>1, <1>3, <2>2, PutStep
<1>4. CASE v # "ok"
    BY <1>1, <1>4 DEF RecordInv, RecordsStep
<1>5. QED
    BY <1>3, <1>4

\* consent_decision
LEMMA DecisionStep ==
    ASSUME RecordInv, NEW t \in Task, NEW c, Approve(t, c) \/ Decline(t, c)
    PROVE  RecordsStep
<1>1. Sound(task[t])
    BY DEF RecordInv
<1>2. CASE Approve(t, c)
    BY <1>1, <1>2, ApprovedSucceeds, PutStep DEF Approve, DecisionStands
<1>3. CASE Decline(t, c)
  <2>1. /\ task[t].phase = "Consent" /\ EventsFit(Stopped(task[t], "Cancelled"), "ConsentDeclined", 1)
        /\ Put(t, Bumped(Stopped(task[t], "Cancelled"), 1)) /\ "Cancelled" \in Reason
    BY <1>3 DEF Decline, DecisionStands, Reason
  <2>2. QED
    BY <1>1, <2>1, StoppedSucceeds, PutStep, "ConsentDeclined" # "CancelRequested"
<1>4. QED
    BY <1>2, <1>3

\* request_cancel
LEMMA CancelStep == ASSUME RecordInv, NEW t \in Task, Cancel(t) PROVE RecordsStep
BY CancelledSucceeds, PutStep DEF Cancel, Live, RecordInv

\* recover_investigation
LEMMA RecoverStep ==
    ASSUME RecordInv, NEW p, NEW c, c.task \in Task, Recover(p, c)
    PROVE  RecordsStep
<1>1. CASE task' = task
    BY <1>1 DEF RecordInv, RecordsStep
<1>2. CASE /\ task[c.task].phase \notin {"absent", "Terminal"}
           /\ EventsFit(Recovered(task[c.task]), "Recovered", 1)
           /\ Put(c.task, Bumped(Recovered(task[c.task]), 1))
    BY <1>2, RecoveredSucceeds, PutStep DEF RecordInv
<1>3. QED
    BY <1>1, <1>2 DEF Recover, Live

\* A worker that moves on is still equipped, and its task does not vanish.
LEMMA GoStep ==
    ASSUME RecordInv, RecordsStep, NEW t \in Task, NEW w, Equipped(w), Go(t, w),
           worker[t].at # "none" \/ task'[t].phase # "absent"
    PROVE  WorkersEquipped'
<1>1. \A u \in Task : task[u].phase # "absent" => task'[u].phase # "absent"
    BY DEF RecordsStep, Succeeds
<1>2. worker' = [worker EXCEPT ![t] = w] /\ worker = [u \in Task |-> worker[u]]
    BY DEF Go, RecordInv, WorkersEquipped
<1>3. worker'[t] = w /\ \A u \in Task \ {t} : worker'[u] = worker[u]
    BY <1>2
<1>4. \A u \in Task : Equipped(worker'[u])
    BY <1>3 DEF RecordInv, WorkersEquipped
<1>5. \A u \in Task : worker'[u].at # "none" => task'[u].phase # "absent"
    BY <1>1, <1>3 DEF RecordInv, WorkersEquipped
<1>6. worker' = [u \in Task |-> worker'[u]]
    BY <1>2
<1>7. QED
    BY <1>4, <1>5, <1>6 DEF WorkersEquipped, Equipped

\* A step that leaves every worker where it is.
LEMMA StayStep == ASSUME RecordInv, RecordsStep, worker' = worker PROVE WorkersEquipped'
BY DEF RecordInv, RecordsStep, Succeeds, WorkersEquipped, Equipped

\* The moves of a worker other than Advance: where it may go.
LEMMA Moves ==
    ASSUME NEW t \in Task, Equipped(worker[t])
    PROVE  /\ \A reason \in Reason : Equipped(Failing(t, reason))
           /\ \A op \in Op \ {"ActionAdmitted"} : Equipped(Onward(t, op))
           /\ \A at \in At \ {"check", "apply"} : Equipped([worker[t] EXCEPT !.at = at])
<1> USE DEF Equipped, At, Op, Reason
<1>1. \A reason \in Reason : Equipped(Failing(t, reason))
    BY DEF Failing
<1>2. \A op \in Op \ {"ActionAdmitted"} : Equipped(Onward(t, op))
    BY DEF Onward
<1>3. \A at \in At \ {"check", "apply"} : Equipped([worker[t] EXCEPT !.at = at])
    OBVIOUS
<1>4. QED
    BY <1>1, <1>2, <1>3

\* Where a worker keeps its operation and its tool, it may also take a revision or
\* count a round.
LEMMA Rounded ==
    ASSUME NEW t \in Task, Equipped(worker[t]), NEW n \in Nat
    PROVE  /\ worker[t].at = "check" => Equipped([worker[t] EXCEPT !.at = "apply", !.rev = n])
           /\ \A at \in At \ {"check", "apply"} :
                 /\ Equipped([worker[t] EXCEPT !.at = at, !.rev = n])
                 /\ Equipped([worker[t] EXCEPT !.at = at, !.tries = n])
                 /\ Equipped([worker[t] EXCEPT !.at = at, !.tries = @ + 1])
<1> USE DEF Equipped, At, Op, Reason
<1>1. worker[t].at = "check" => Equipped([worker[t] EXCEPT !.at = "apply", !.rev = n])
    OBVIOUS
<1>2. \A at \in At \ {"check", "apply"} :
         /\ Equipped([worker[t] EXCEPT !.at = at, !.rev = n])
         /\ Equipped([worker[t] EXCEPT !.at = at, !.tries = n])
    BY ZenonT(60)
<1>3. ASSUME NEW at \in At \ {"check", "apply"}
      PROVE  Equipped([worker[t] EXCEPT !.at = at, !.tries = @ + 1])
  <2>1. worker[t].tries + 1 \in Nat
    OBVIOUS
  <2>2. \A m \in Nat : Equipped([worker[t] EXCEPT !.at = at, !.tries = m])
    BY <1>3
  <2> HIDE DEF Equipped, At, Op, Reason
  <2>3. QED
    BY <2>1, <2>2
<1> HIDE DEF Equipped, At, Op, Reason
<1>4. QED
    BY <1>1, <1>2, <1>3

\* An action that was received names its tool.
LEMMA Received ==
    ASSUME NEW t \in Task, Equipped(worker[t]), NEW tool \in Tool
    PROVE  Equipped([Onward(t, "ActionAdmitted") EXCEPT !.tool = tool])
BY DEF Equipped, Onward, At, Op

\* Every step of a worker leaves it equipped.
LEMMA WorkerMoves ==
    ASSUME RecordInv, RecordsStep, NEW t \in Task, WorkerStep(t) \/ StorageFault(t)
    PROVE  WorkersEquipped'
<1>1. Equipped(worker[t]) /\ task[t].rev \in Nat
    BY DEF RecordInv, WorkersEquipped, Stored
<1>2. /\ \A reason \in Reason : Equipped(Failing(t, reason))
      /\ \A op \in Op \ {"ActionAdmitted"} : Equipped(Onward(t, op))
      /\ \A at \in At \ {"check", "apply"} : Equipped([worker[t] EXCEPT !.at = at])
    BY <1>1, Moves
<1>3. /\ worker[t].at = "check" => Equipped([worker[t] EXCEPT !.at = "apply", !.rev = task[t].rev])
      /\ \A at \in At \ {"check", "apply"} :
            /\ Equipped([worker[t] EXCEPT !.at = at, !.rev = task[t].rev])
            /\ Equipped([worker[t] EXCEPT !.at = at, !.tries = @ + 1])
            /\ Equipped([worker[t] EXCEPT !.at = at, !.tries = 0])
    BY <1>1, Rounded
<1>4. \A tool \in Tool : Equipped([Onward(t, "ActionAdmitted") EXCEPT !.tool = tool])
    BY <1>1, Received
<1>5. SUFFICES \E w : Equipped(w) /\ Go(t, w) /\ worker[t].at # "none"
    BY GoStep
<1> HIDE DEF Tool
<1> USE <1>2 DEF At, Op, Reason
<1>6. CASE InsertLive(t) \/ Claim(t) \/ ClaimRefused(t) \/ Cleanup(t)
    BY <1>6 DEF InsertLive, Claim, ClaimRefused, Cleanup
<1>7. CASE CheckNewWork(t)
    BY <1>3, <1>7 DEF CheckNewWork
<1>8. CASE Advance(t)
  <2>1. PICK r : \E next \in After(t, r) : Go(t, next) /\ worker[t].at = "apply"
    BY <1>8 DEF Advance
  <2>2. \A next \in After(t, r) :
           \/ \E op \in Op \ {"ActionAdmitted"} : next = Onward(t, op)
           \/ \E at \in At \ {"check", "apply"} : next = [worker[t] EXCEPT !.at = at]
    <3>1. worker[t].op \in Op
      BY <1>1 DEF Equipped
    <3>2. QED
      BY <3>1 DEF After, FirstOp
  <2>3. PICK next \in After(t, r) : Go(t, next)
    BY <2>1
  <2>4. Equipped(next)
    BY <2>2, <2>3
  <2>5. QED
    BY <2>1, <2>3, <2>4
<1>9. CASE AdvanceRefused(t) \/ GiveUp(t) \/ Dispatch(t) \/ NoAnswer(t)
    BY <1>9 DEF AdvanceRefused, GiveUp, Dispatch, NoAnswer
<1>10. CASE PollConsent(t)
    BY <1>10 DEF PollConsent
<1>11. CASE Answer(t)
    BY <1>3, <1>4, <1>11 DEF Answer
<1>12. CASE FinishRead(t) \/ StopRead(t)
    BY <1>3, <1>12 DEF FinishRead, StopRead
<1>13. CASE FinishApply(t)
  <2>1. \/ Go(t, [worker[t] EXCEPT !.at = "cleanup"])
        \/ Go(t, [worker[t] EXCEPT !.at = "finishRead", !.tries = @ + 1])
        \/ Go(t, Failing(t, "OutcomeUnknown"))
    <3>1. \A r, stale, k : Verdict(t, r, stale, k) \in {"ok", "stale", "refused"}
      BY DEF Verdict
    <3>2. QED
      BY <1>13, <3>1 DEF FinishApply
  <2>2. QED
    BY <1>3, <1>13, <2>1 DEF FinishApply
<1>14. CASE StopApply(t)
  <2>1. \/ Go(t, [worker[t] EXCEPT !.at = "cleanup"])
        \/ Go(t, [worker[t] EXCEPT !.at = "stopRead", !.tries = @ + 1])
    BY <1>14 DEF StopApply
  <2>2. QED
    BY <1>3, <1>14, <2>1 DEF StopApply
<1>15. CASE StorageFault(t)
    BY <1>15 DEF StorageFault
<1>16. QED
    BY <1>6, <1>7, <1>8, <1>9, <1>10, <1>11, <1>12, <1>13, <1>14, <1>15 DEF WorkerStep

\* A process dies: its workers are gone.
LEMMA CrashMoves ==
    ASSUME RecordInv, RecordsStep, NEW p \in Proc, Crash(p)
    PROVE  WorkersEquipped'
<1>1. \A t \in Task : worker'[t] = worker[t] \/ worker'[t] = [worker[t] EXCEPT !.at = "gone"]
    BY DEF Crash
<1>2. \A t \in Task : worker'[t] # worker[t] => worker[t].at # "none"
    BY DEF Crash
<1>3. \A t \in Task : Equipped(worker[t]) /\ Equipped([worker[t] EXCEPT !.at = "gone"])
    BY Moves DEF RecordInv, WorkersEquipped, At
<1>4. \A t \in Task : Equipped(worker'[t])
    BY <1>1, <1>3
<1>5. \A t \in Task : task[t].phase # "absent" => task'[t].phase # "absent"
    BY DEF RecordsStep, Succeeds
<1>6. \A t \in Task : worker'[t].at # "none" => task'[t].phase # "absent"
    BY <1>1, <1>2, <1>5 DEF RecordInv, WorkersEquipped
<1>7. worker' = [t \in Task |-> worker'[t]]
    BY DEF Crash
<1>8. QED
    BY <1>4, <1>6, <1>7 DEF WorkersEquipped, Equipped

\* start_investigation gives the new task a worker.
LEMMA StartMoves ==
    ASSUME RecordInv, RecordsStep, NEW p \in Proc, NEW t \in Task, NEW m \in Mode,
           StartInvestigation(p, t, m)
    PROVE  WorkersEquipped'
<1>1. Equipped([NoWorker EXCEPT !.at = "insert"])
    BY DEF NoWorker, Equipped, At, Op, Reason
<1>2. task'[t] # task[t] \/ task[t].phase # "absent"
  <2>1. task'[t].phase = "Queued"
    BY DEF StartInvestigation, Put, RecordInv, NoRecord
  <2>2. QED
    BY <2>1
<1>3. task'[t].phase # "absent"
    BY <1>2 DEF RecordsStep, Succeeds
<1>4. QED
    BY <1>1, <1>3, GoStep DEF StartInvestigation

-----------------------------------------------------------------------------
(* The invariant and the theorems. *)

\* Initially no record exists and no worker runs.
LEMMA InitRecordInv == Init => RecordInv
<1> SUFFICES ASSUME Init PROVE RecordInv
    OBVIOUS
<1>1. NoRecord \in Stored /\ NoRecord.phase = "absent" /\ ~NoRecord.cancel
    BY DEF NoRecord, Stored
<1>2. Sound(NoRecord)
    BY <1>1 DEF Sound
<1>3. Equipped(NoWorker) /\ NoWorker.at = "none"
    BY DEF NoWorker, Equipped, At, Op, Reason
<1>4. QED
    BY <1>1, <1>2, <1>3 DEF Init, RecordInv, WorkersEquipped

\* Every step of the system is one transaction on one record, or none.
LEMMA NextRecords == ASSUME RecordInv, [Next]_vars PROVE RecordsStep /\ WorkersEquipped'
<1>1. CASE \E p \in Proc, t \in Task, m \in Mode : StartInvestigation(p, t, m)
    BY <1>1, StartStep, StartMoves
<1>2. ASSUME NEW t \in Task, WorkerStep(t) \/ StorageFault(t)
      PROVE  RecordsStep /\ WorkersEquipped'
  <2>1. RecordsStep
    <3>1. CASE Claim(t) \/ Advance(t) \/ FinishApply(t) \/ StopApply(t)
      BY <3>1, ClaimStep, AdvanceStep, FinishStep, StopStep
    <3>2. CASE task' = task
      BY <3>2 DEF RecordInv, RecordsStep
    <3>3. QED
      BY <1>2, <3>1, <3>2 DEF WorkerStep, StorageFault, InsertLive, ClaimRefused, CheckNewWork,
         AdvanceRefused, PollConsent, GiveUp, Dispatch, Answer, NoAnswer, FinishRead, StopRead,
         Cleanup
  <2>2. QED
    BY <1>2, <2>1, WorkerMoves
<1>3. CASE \E t \in Task : Cancel(t) \/ \E c \in seen[t] : Approve(t, c) \/ Decline(t, c)
  <2>1. RecordsStep
    BY <1>3, CancelStep, DecisionStep
  <2>2. worker' = worker
    BY <1>3 DEF Cancel, Approve, Decline
  <2>3. QED
    BY <2>1, <2>2, StayStep
<1>4. CASE \E p \in Proc : \E c \in cand[p] : Recover(p, c)
  <2>1. PICK p \in Proc : \E c \in cand[p] : Recover(p, c)
    BY <1>4
  <2>2. PICK c \in cand[p] : Recover(p, c)
    BY <2>1
  <2>3. RecordsStep
    <3>1. CASE c.task \in Task
      BY <2>2, <3>1, RecoverStep
    <3>2. CASE c.task \notin Task
      BY <2>2, <3>2 DEF Recover, Put, RecordInv, RecordsStep
    <3>3. QED
      BY <3>1, <3>2
  <2>4. worker' = worker
    BY <2>2 DEF Recover
  <2>5. QED
    BY <2>3, <2>4, StayStep
<1>5. CASE \E p \in Proc : Crash(p)
  <2>1. RecordsStep
    BY <1>5 DEF Crash, RecordInv, RecordsStep
  <2>2. QED
    BY <1>5, <2>1, CrashMoves
<1>6. CASE task' = task /\ worker' = worker
  <2>1. RecordsStep
    BY <1>6 DEF RecordInv, RecordsStep
  <2>2. QED
    BY <1>6, <2>1, StayStep
<1>7. QED
    BY <1>1, <1>2, <1>3, <1>4, <1>5, <1>6
       DEF Next, vars, FetchConsent, ClearFinished, Startup, FinishStartup, SkipBusy

\* Every step keeps the invariant.
LEMMA NextRecordInv == RecordInv /\ [Next]_vars => RecordInv'
<1> SUFFICES ASSUME RecordInv, [Next]_vars PROVE RecordInv'
    OBVIOUS
<1>1. RecordsStep /\ WorkersEquipped'
    BY NextRecords
<1>2. \A t \in Task : Sound(task[t])
    BY DEF RecordInv
<1>3. task' \in [Task -> Stored] /\ \A t \in Task : Sound(task'[t])
    BY <1>1, <1>2 DEF RecordsStep, Succeeds
<1>4. QED
    BY <1>1, <1>3 DEF RecordInv, Sound, ValidRecord

\* The invariant holds in every reachable state.
THEOREM Inductive == Spec => []RecordInv
BY InitRecordInv, NextRecordInv, PTL DEF Spec

\* validate_task accepts every record that is ever stored, so no task is wedged.
THEOREM RecordsLoad == Spec => []NeverWedged
<1>1. RecordInv => NeverWedged
    BY DEF RecordInv, Sound, NeverWedged
<1>2. QED
    BY <1>1, Inductive, PTL

\* The reserve of the event log: a cancel and an ending always have room.
THEOREM ReserveKept == Spec => []EventReserve
<1>1. RecordInv => EventReserve
    BY DEF RecordInv, Sound, EventReserve, Live
<1>2. QED
    BY <1>1, Inductive, PTL

\* History is append-only, an ended task included.
THEOREM HistoryAppendOnly == Spec => HistoryKept
<1>1. RecordInv /\ [Next]_vars =>
        [\A t \in Task :
          /\ task[t].phase = "Terminal" => task'[t] = task[t]
          /\ task'[t] # task[t] /\ task[t].phase # "absent" =>
                /\ task'[t].rev = task[t].rev + 1
                /\ task'[t].seq > task[t].seq
                /\ task'[t].used >= task[t].used
                /\ task[t].cancel => task'[t].cancel]_vars
    BY NextRecords DEF RecordsStep, Succeeds
<1>2. QED
    BY <1>1, Inductive, PTL DEF Spec, HistoryKept

\* A cancelled task starts nothing new: its next change, if any, ends it.
THEOREM CancelledOnlyEnds == Spec => CancelOnlyEnds
<1>1. RecordInv /\ [Next]_vars =>
        [\A t \in Task : task[t].cancel /\ task'[t] # task[t]
                          => task'[t].phase = "Terminal" /\ task'[t].used = task[t].used]_vars
    BY NextRecords DEF RecordsStep, Succeeds
<1>2. QED
    BY <1>1, Inductive, PTL DEF Spec, CancelOnlyEnds

\* A live task can always be loaded, cancelled and ended.
THEOREM AlwaysUsable == Spec => []RecordUsable
BY RecordsLoad, ReserveKept, PTL DEF RecordUsable

\* No step starts work after a cancel or rewrites what was recorded.
THEOREM RecordsKept == Spec => RecordKept
BY HistoryAppendOnly, CancelledOnlyEnds, PTL DEF RecordKept

-----------------------------------------------------------------------------
(* How record, row, worker and calls of a task fit together: what one step may do. *)

\* What a step that concerns task t leaves alone.
OthersStay(t) ==
    /\ \A u \in Task \ {t} :
          /\ task'[u] = task[u] /\ job'[u] = job[u] /\ worker'[u] = worker[u]
          /\ preview'[u] = preview[u] /\ seen'[u] = seen[u] /\ granted'[u] = granted[u]
          /\ call'[u] = call[u] /\ called'[u] = called[u]
    /\ faults' >= faults

\* A step that concerns one task keeps the others fitting.
LEMMA OthersFit ==
    ASSUME TasksInv, NEW t \in Task, OthersStay(t), Shapes', TaskFits(t)'
    PROVE  TasksInv'
<1>1. ASSUME NEW u \in Task \ {t}
      PROVE  TaskFits(u)'
    <2>1. RoundsFit(task[u], worker[u], faults' > 0)
        BY DEF TasksInv, TaskFits, RoundsFit, OthersStay, Shapes
    <2>2. QED  BY <2>1 DEF TasksInv, TaskFits, OthersStay
<1>2. QED  BY <1>1 DEF TasksInv

\* The moves of a worker that leave record, row and calls alone.
MayMove(r, w, v, faulted) ==
    \/ w.at \in {"insert", "claim"} /\ v.at \in {"claim", "gone"} /\ v.tries = w.tries
    \/ w.at = "cleanup" /\ v.at = "gone" /\ v.tries = w.tries
    \/ /\ w.at \in {"check", "consent", "stopRead", "stopApply"} /\ v.at = "cleanup" /\ v.tries = w.tries
       /\ r.phase = "Terminal" \/ faulted
    \/ /\ w.at \in {"check", "apply", "consent", "dispatch", "finishRead"}
       /\ v.at = "stopRead" /\ v.tries = 0 /\ v.why # "OutcomeUnknown"
    \/ /\ w.at \in {"calling", "finishRead", "finishApply"}
       /\ v.at = "stopRead" /\ v.tries = 0 /\ v.why = "OutcomeUnknown"
    \/ w.at = "consent" /\ v.at = "check" /\ v.tries = w.tries
    \/ /\ w.at = "check" /\ v.at = "apply" /\ v.tries = w.tries
       /\ v.op = "AwaitConsent" /\ r.mode = "Cloud" => r.used < MaxInvocations
    \/ /\ <<w.at, v.at>> \in {<<"finishRead", "finishApply">>, <<"stopRead", "stopApply">>}
       /\ v.tries = w.tries /\ v.why = w.why /\ v.rev = r.rev /\ w.tries # Rounds
       /\ r.phase # "Terminal"
    \/ /\ <<w.at, v.at>> \in {<<"finishApply", "finishRead">>, <<"stopApply", "stopRead">>}
       /\ v.tries = w.tries + 1 /\ v.why = w.why
       /\ r.phase = "Terminal" \/ w.rev # r.rev

\* Such a move keeps the task fitting, its rounds included.
LEMMA MoveFits ==
    ASSUME RecordInv, TasksInv, NEW t \in Task, OthersStay(t), Shapes',
           UNCHANGED <<task, job, granted, call, called>>,
           MayMove(task[t], worker[t], worker'[t], faults' > 0),
           preview'[t] \in {preview[t], None}, seen'[t] = seen[t]
    PROVE  TasksInv'
<1> DEFINE r == task[t]
           w == worker[t]
           v == worker'[t]
<1>1. Sound(r) /\ Equipped(w) /\ TaskFits(t)
    BY DEF RecordInv, WorkersEquipped, TasksInv
<1>2. PlaceFits(r, v)
    BY <1>1 DEF TaskFits, PlaceFits, MayMove, Idle
<1>3. RoundsFit(r, v, faults' > 0)
    <2>1. RevisionMoves(r) \in 0 .. 2 /\ (r.phase # "Consent" => RevisionMoves(r) <= 1)
        BY <1>1 DEF RevisionMoves, Sound, Stored, ValidRecord
    <2>2. QED  BY <1>1, <2>1 DEF TaskFits, RoundsFit, PlaceFits, MayMove, Rounds
<1>4. CallFits(r, v, call[t], called[t], granted[t])
    BY <1>1 DEF TaskFits, CallFits, MayMove
<1>5. TaskFits(t)'
    BY <1>1, <1>2, <1>3, <1>4 DEF TaskFits
<1>6. QED  BY <1>5, OthersFit

\* Where a worker goes when record, row and calls stay as they are.
LEMMA WorkerMovesFit ==
    ASSUME RecordInv, TasksInv, NEW t \in Task,
           \/ InsertLive(t) \/ ClaimRefused(t) \/ CheckNewWork(t) \/ AdvanceRefused(t)
           \/ PollConsent(t) \/ GiveUp(t) \/ NoAnswer(t) \/ FinishRead(t) \/ StopRead(t)
           \/ Cleanup(t) \/ StorageFault(t)
    PROVE  TasksInv'
<1> DEFINE r == task[t]
           w == worker[t]
           v == worker'[t]
<1> USE DEF consent, calls, system, Go
<1>1. Sound(r) /\ Equipped(w) /\ TaskFits(t)
    BY DEF RecordInv, WorkersEquipped, TasksInv
<1>2. /\ UNCHANGED <<task, job, seen, granted, call, called, home, proc, cand, crashes>>
      /\ preview' = preview \/ preview' = [preview EXCEPT ![t] = None]
      /\ live' = live \/ live' = [live EXCEPT ![home[t]] = @ \cup {t}] \/ live' = [live EXCEPT ![home[t]] = @ \ {t}]
      /\ faults' = faults \/ faults' = faults + 1
    BY DEF InsertLive, ClaimRefused, CheckNewWork, AdvanceRefused, PollConsent, GiveUp, NoAnswer,
       FinishRead, StopRead, Cleanup, StorageFault
<1>3. \E x : worker' = [worker EXCEPT ![t] = x]
    BY DEF InsertLive, ClaimRefused, CheckNewWork, AdvanceRefused, PollConsent, GiveUp, NoAnswer,
       FinishRead, StopRead, Cleanup, StorageFault
<1>4. OthersStay(t)
    BY <1>2, <1>3 DEF OthersStay, RecordInv, WorkersEquipped, TasksInv, Shapes
<1>5. Shapes'
    <2>1. live' \in [Proc -> SUBSET Task]
        <3>1. CASE live' = live
            BY <3>1 DEF Shapes, TasksInv
        <3>2. CASE live' = [live EXCEPT ![home[t]] = @ \cup {t}]
            BY <3>2 DEF Shapes, TasksInv
        <3>3. CASE live' = [live EXCEPT ![home[t]] = @ \ {t}]
            BY <3>3 DEF Shapes, TasksInv
        <3>4. QED  BY <1>2, <3>1, <3>2, <3>3
    <2>2. preview' \in [Task -> Preview \cup {None}] /\ faults' \in Nat
        BY <1>2 DEF Shapes, TasksInv
    <2>3. QED  BY <1>2, <2>1, <2>2 DEF Shapes, TasksInv
<1>6. preview'[t] \in {preview[t], None}
    BY <1>2 DEF Shapes, TasksInv
<1>7. MayMove(r, w, v, faults' > 0)
    <2>0. /\ t \in DOMAIN worker /\ r.phase \in Phase
          /\ w \in [at : At, op : Op, rev : Nat, tool : Tool \cup {None}, tries : Nat, why : Reason]
        BY <1>1 DEF RecordInv, WorkersEquipped, Sound, Stored, Equipped
    <2>1. CASE InsertLive(t) \/ ClaimRefused(t) \/ Cleanup(t)
        BY <2>0, <2>1 DEF InsertLive, ClaimRefused, Cleanup, MayMove
    <2>2. CASE AdvanceRefused(t) \/ GiveUp(t) \/ NoAnswer(t)
        BY <2>0, <2>2 DEF AdvanceRefused, GiveUp, NoAnswer, Failing, MayMove
    <2>3. CASE CheckNewWork(t)
        <3>1. w.at = "check"
            BY <2>3 DEF CheckNewWork
        <3>2. CASE r.phase = "Terminal"
            <4>1. v = [w EXCEPT !.at = "cleanup"]
                BY <2>0, <2>3, <3>2 DEF CheckNewWork
            <4>2. QED  BY <2>0, <3>1, <3>2, <4>1 DEF MayMove
        <3>3. CASE r.phase # "Terminal" /\ r.cancel
            <4>1. v = Failing(t, "Cancelled")
                BY <2>0, <2>3, <3>3 DEF CheckNewWork
            <4>2. QED  BY <2>0, <3>1, <4>1 DEF MayMove, Failing
        <3>4. CASE r.phase # "Terminal" /\ ~r.cancel
            <4>1. CASE job[t] # "running" \/ (w.op = FirstOp(r) /\ r.used >= MaxInvocations)
                <5>1. v = Failing(t, "Other")
                    BY <2>0, <2>3, <3>4, <4>1 DEF CheckNewWork
                <5>2. QED  BY <2>0, <3>1, <5>1 DEF MayMove, Failing
            <4>2. CASE ~(job[t] # "running" \/ (w.op = FirstOp(r) /\ r.used >= MaxInvocations))
                <5>1. v = [w EXCEPT !.at = "apply", !.rev = r.rev]
                    BY <2>0, <2>3, <3>4, <4>2 DEF CheckNewWork
                <5>2. w.op = "AwaitConsent" /\ r.mode = "Cloud" => r.used < MaxInvocations
                    BY <1>1, <4>2, BoundsAssumption DEF FirstOp, Sound, Stored
                <5>3. QED  BY <2>0, <3>1, <5>1, <5>2 DEF MayMove
            <4>3. QED  BY <4>1, <4>2
        <3>5. QED  BY <3>2, <3>3, <3>4
    <2>4. CASE PollConsent(t)
        BY <2>0, <2>4 DEF PollConsent, Failing, Onward, MayMove
    <2>5. RevisionMoves(r) \in 0 .. 2 /\ (r.phase # "Consent" => RevisionMoves(r) <= 1)
        BY <1>1 DEF RevisionMoves, Sound, Stored, ValidRecord
    <2>6. CASE FinishRead(t)
        BY <1>1, <2>0, <2>5, <2>6 DEF FinishRead, Rounds, TaskFits, RoundsFit, PlaceFits, MayMove
    <2>7. CASE StopRead(t)
        BY <1>1, <2>0, <2>5, <2>7 DEF StopRead, Rounds, TaskFits, RoundsFit, MayMove
    <2>8. CASE StorageFault(t)
        <3>1. faults' > 0
            BY <2>8 DEF StorageFault, TasksInv, Shapes
        <3>2. CASE w.at = "claim"
            BY <2>0, <2>8, <3>2 DEF StorageFault, MayMove
        <3>3. CASE w.at \in {"check", "apply", "consent", "finishRead", "finishApply"}
            <4>1. v = Failing(t, IF w.at = "finishApply" THEN "OutcomeUnknown" ELSE "Other")
                BY <2>0, <2>8, <3>3 DEF StorageFault
            <4>2. v.at = "stopRead" /\ v.tries = 0
                  /\ v.why = IF w.at = "finishApply" THEN "OutcomeUnknown" ELSE "Other"
                BY <2>0, <4>1 DEF Failing
            <4>3. QED  BY <3>3, <4>2 DEF MayMove
        <3>4. CASE w.at \in {"stopRead", "stopApply"}
            BY <2>0, <2>8, <3>1, <3>4 DEF StorageFault, MayMove
        <3>5. QED  BY <2>8, <3>2, <3>3, <3>4 DEF StorageFault
    <2>9. QED  BY <2>1, <2>2, <2>3, <2>4, <2>6, <2>7, <2>8
<1>8. QED  BY <1>2, <1>4, <1>5, <1>6, <1>7, MoveFits

\* What every ending does to a record.
Ending(r, s) ==
    s.phase = "Terminal" /\ s.pending = None /\ ~s.approved /\ s.mode = r.mode /\ s.used = r.used

\* sync_terminal_job leaves no row that waits or runs, and "done" only for a result.
LEMMA SyncedRow ==
    ASSUME NEW row \in JobStatus, row # "done", NEW s, s.cancel \in BOOLEAN
    PROVE  /\ SyncedJob(s, row) \in JobStatus \ {"queued", "running"}
           /\ SyncedJob(s, row) = "done" => s.status = "Completed" /\ ~s.cancel
BY DEF SyncedJob, JobStatus

\* A live task's row is not "done".
LEMMA LiveRow ==
    ASSUME RecordInv, TasksInv, NEW t \in Task, Live(t)
    PROVE  job[t] \in JobStatus /\ job[t] # "done" /\ ~task[t].result /\ Sound(task[t])
BY DEF RecordInv, TasksInv, TaskFits, RowFits, Live, Sound, ValidRecord, Ended

\* A task that ends, with its row: the worker is done, or is told at its next read.
LEMMA EndFits ==
    ASSUME RecordInv, TasksInv, RecordInv', NEW t \in Task, OthersStay(t), Shapes', Live(t),
           Ending(task[t], task'[t]),
           job'[t] \in JobStatus \ {"queued", "running"},
           job'[t] = "done" => task'[t].status = "Completed" /\ ~task'[t].cancel,
           \/ worker'[t] = worker[t] /\ worker[t].at \notin {"dispatch", "calling", "finishRead", "finishApply"}
           \/ worker'[t].at = "cleanup" /\ worker'[t].tries = worker[t].tries,
           call[t] # None => task'[t].status = "OutcomeUnknown",
           UNCHANGED <<granted, call, called, preview, seen>>
    PROVE  TasksInv'
<1> DEFINE r == task[t]
           s == task'[t]
           w == worker[t]
           v == worker'[t]
<1>1. Sound(r) /\ Sound(s) /\ Equipped(w) /\ TaskFits(t)
    BY DEF RecordInv, WorkersEquipped, TasksInv
<1>2. s.result <=> s.status = "Completed"
    BY <1>1 DEF Sound, ValidRecord, Ending
<1>3. RecordFits(s, granted[t]) /\ RowFits(s, job'[t])
    BY <1>2 DEF RecordFits, RowFits, Ending
<1>4. PlaceFits(s, v)
    BY <1>1 DEF TaskFits, PlaceFits, Ending, Idle
<1>5. RoundsFit(s, v, faults' > 0)
    BY <1>1 DEF TaskFits, RoundsFit, Ending
<1>6. CallFits(s, v, call[t], called[t], granted[t])
    BY <1>1 DEF TaskFits, CallFits, Ending
<1>7. TaskFits(t)'
    BY <1>1, <1>3, <1>4, <1>5, <1>6 DEF TaskFits
<1>8. QED  BY <1>7, OthersFit

\* stop, recover_investigation and a finish each end the record and keep what the calls rely on.
LEMMA StoppedEnds ==
    ASSUME NEW r \in Stored, NEW reason \in Reason
    PROVE  /\ Ending(r, Bumped(Stopped(r, reason), 1))
           /\ LET s == Stopped(r, reason) IN
              /\ s.cancel \in BOOLEAN
              /\ Bumped(s, 1).status = s.status /\ Bumped(s, 1).cancel = s.cancel
              /\ reason = "OutcomeUnknown" => s.status = "OutcomeUnknown"
BY DEF Ending, Stored, Bumped, Stopped

\* The record recovery writes: an invocation in flight is of unknown outcome.
LEMMA RecoveredEnds ==
    ASSUME NEW r \in Stored
    PROVE  /\ Ending(r, Bumped(Recovered(r), 1))
           /\ LET s == Recovered(r) IN
              /\ s.cancel \in BOOLEAN
              /\ Bumped(s, 1).status = s.status /\ Bumped(s, 1).cancel = s.cancel
              /\ r.phase = "Invocation" => s.status = "OutcomeUnknown"
BY DEF Ending, Stored, Bumped, Recovered

\* The record a finish writes.
LEMMA CompletedEnds ==
    ASSUME NEW r \in Stored
    PROVE  /\ Ending(r, Bumped(Completed(r), 2))
           /\ LET s == Completed(r) IN
              /\ s.cancel \in BOOLEAN
              /\ Bumped(s, 2).status = s.status /\ Bumped(s, 2).cancel = s.cancel
BY DEF Ending, Stored, Bumped, Completed

\* The only way a publication fails is a revision that moved: the row of a running
\* execution allows it and the event log has room for it.
LEMMA PublicationDecided ==
    ASSUME RecordInv, TasksInv, NEW t \in Task, worker[t].at \in {"finishApply", "stopApply"},
           NEW r, r.phase = "Terminal", r.seq = task[t].seq, NEW stale \in BOOLEAN, NEW k \in {1, 2}
    PROVE  Verdict(t, r, stale, k) =
              IF task[t].rev # worker[t].rev \/ task[t].phase = "Terminal" \/ stale
              THEN "stale" ELSE "ok"
<1>1. Sound(task[t]) /\ TaskFits(t)
    BY DEF RecordInv, TasksInv
<1>2. task[t].phase \notin {"absent", "Queued"}
    BY <1>1 DEF TaskFits, PlaceFits, Idle
<1>3. ASSUME task[t].phase # "Terminal", task[t].rev = worker[t].rev
      PROVE  MayAdvance(t, worker[t].rev, TRUE) /\ EventsFit(r, "Other", k)
    <2>1. task[t].owned /\ task[t].cancel \in BOOLEAN
        BY <1>1, <1>2, <1>3 DEF Sound, ValidRecord, Stored
    <2>2. JobAllows(t, TRUE)
        BY <1>1, <1>2, <1>3, <2>1 DEF TaskFits, RowFits, JobAllows
    <2>3. EventsFit(r, "Other", k)
        BY <1>1, <1>2, <1>3, BoundsAssumption DEF Sound, Stored, EventsFit, EventLimit
    <2>4. QED  BY <1>3, <2>2, <2>3 DEF MayAdvance
<1>4. CASE task[t].rev # worker[t].rev \/ task[t].phase = "Terminal" \/ stale
    <2>1. ~(MayAdvance(t, worker[t].rev, TRUE) /\ ~stale)
        BY <1>4 DEF MayAdvance
    <2>2. QED  BY <1>4, <2>1, Zenon DEF Verdict
<1>5. CASE ~(task[t].rev # worker[t].rev \/ task[t].phase = "Terminal" \/ stale)
    <2>1. MayAdvance(t, worker[t].rev, TRUE) /\ EventsFit(r, "Other", k)
        BY <1>3, <1>5
    <2>2. QED  BY <1>5, <2>1, Zenon DEF Verdict
<1>6. QED  BY <1>4, <1>5

\* A finish is published or tried again; it is never refused.
LEMMA FinishFits ==
    ASSUME RecordInv, TasksInv, RecordInv', NEW t \in Task, FinishApply(t)
    PROVE  TasksInv' /\ worker'[t].at # "stopRead"
<1> DEFINE w == worker[t]
           r == Completed(task[t])
           stale == task[t].phase # "Invocation"
           v == Verdict(t, r, stale, 2)
<1> USE DEF consent, calls, system
<1>1. /\ Sound(task[t]) /\ Equipped(w) /\ TaskFits(t) /\ t \in DOMAIN worker
      /\ task[t] \in Stored /\ w.at = "finishApply" /\ task[t].phase = "Invocation"
    BY DEF RecordInv, WorkersEquipped, TasksInv, FinishApply, TaskFits, PlaceFits
<1>2. r.phase = "Terminal" /\ r.seq = task[t].seq /\ r.status = "Completed"
    BY <1>1 DEF Completed, Stored
<1>3. /\ Publish(t, r, 2, v)
      /\ worker' = [worker EXCEPT ![t] =
            CASE v = "ok"      -> [w EXCEPT !.at = "cleanup"]
              [] v = "stale"   -> [w EXCEPT !.at = "finishRead", !.tries = @ + 1]
              [] v = "refused" -> Failing(t, "OutcomeUnknown")]
      /\ UNCHANGED <<live, preview, seen, granted, call, called, home, proc, cand, crashes, faults>>
    BY DEF FinishApply, Go
<1>4. Live(t) /\ job[t] \in JobStatus /\ job[t] # "done"
    BY <1>1, LiveRow DEF Live
<1>5. v = IF task[t].rev # w.rev THEN "stale" ELSE "ok"
    BY <1>1, <1>2, PublicationDecided
<1> HIDE DEF r, v, stale
<1>6. CASE v = "ok"
    <2>1. task' = [task EXCEPT ![t] = Bumped(r, 2)] /\ job' = [job EXCEPT ![t] = SyncedJob(r, job[t])]
        BY <1>3, <1>6 DEF Publish, Put
    <2>2. worker' = [worker EXCEPT ![t] = [w EXCEPT !.at = "cleanup"]]
        BY <1>3, <1>6
    <2>3. /\ Ending(task[t], Bumped(r, 2)) /\ r.cancel \in BOOLEAN
          /\ Bumped(r, 2).status = r.status /\ Bumped(r, 2).cancel = r.cancel
        BY <1>1, CompletedEnds DEF r
    <2>4. /\ SyncedJob(r, job[t]) \in JobStatus \ {"queued", "running"}
          /\ SyncedJob(r, job[t]) = "done" => r.status = "Completed" /\ ~r.cancel
        BY <1>4, <2>3, SyncedRow
    <2>5. call[t] = None
        BY <1>1 DEF TaskFits, CallFits
    <2>6. /\ task'[t] = Bumped(r, 2) /\ job'[t] = SyncedJob(r, job[t])
          /\ worker'[t].at = "cleanup" /\ worker'[t].tries = w.tries
        BY <1>1, <2>1, <2>2 DEF TasksInv, Shapes, RecordInv, Equipped
    <2>7. OthersStay(t)
        BY <1>1, <1>3, <2>1, <2>2 DEF OthersStay, RecordInv, WorkersEquipped, TasksInv, Shapes
    <2>8. Shapes'
        BY <1>3, <2>1, <2>4 DEF Shapes, TasksInv
    <2>9. QED  BY <1>3, <1>4, <2>3, <2>4, <2>5, <2>6, <2>7, <2>8, EndFits
<1>7. CASE v = "stale"
    <2>1. worker' = [worker EXCEPT ![t] = [w EXCEPT !.at = "finishRead", !.tries = @ + 1]] /\ UNCHANGED <<task, job>>
        BY <1>3, <1>7 DEF Publish
    <2>2. MayMove(task[t], w, worker'[t], faults' > 0)
        BY <1>1, <1>5, <1>7, <2>1 DEF MayMove, Equipped
    <2>3. OthersStay(t)
        BY <1>1, <1>3, <2>1 DEF OthersStay, RecordInv, WorkersEquipped, TasksInv, Shapes
    <2>4. Shapes'
        BY <1>3, <2>1 DEF Shapes, TasksInv
    <2>5. worker'[t].at = "finishRead"
        BY <1>1, <2>1 DEF Equipped
    <2>6. QED  BY <1>3, <2>1, <2>2, <2>3, <2>4, <2>5, MoveFits
<1>8. QED  BY <1>5, <1>6, <1>7

\* A stop is published or tried again, and ends the task as of unknown outcome when a call is open.
LEMMA StopFits ==
    ASSUME RecordInv, TasksInv, RecordInv', NEW t \in Task, StopApply(t)
    PROVE  TasksInv'
<1> DEFINE w == worker[t]
           r == Stopped(task[t], w.why)
           stale == w.why = "OutcomeUnknown" /\ task[t].phase # "Invocation"
           v == Verdict(t, r, stale, 1)
<1> USE DEF consent, calls, system
<1>1. /\ Sound(task[t]) /\ Equipped(w) /\ TaskFits(t) /\ t \in DOMAIN worker
      /\ task[t] \in Stored /\ w.at = "stopApply" /\ w.why \in Reason
      /\ task[t].phase \notin {"absent", "Queued"}
      /\ stale => task[t].phase = "Terminal"
    BY DEF RecordInv, WorkersEquipped, TasksInv, StopApply, TaskFits, PlaceFits, Equipped, Idle
<1>2. r.phase = "Terminal" /\ r.seq = task[t].seq
    BY <1>1 DEF Stopped, Stored
<1>3. /\ Publish(t, r, 1, v)
      /\ worker' = [worker EXCEPT ![t] =
            IF v = "stale" THEN [w EXCEPT !.at = "stopRead", !.tries = @ + 1]
            ELSE [w EXCEPT !.at = "cleanup"]]
      /\ UNCHANGED <<live, preview, seen, granted, call, called, home, proc, cand, crashes, faults>>
    BY DEF StopApply, Go
<1>4. v = IF task[t].rev # w.rev \/ task[t].phase = "Terminal" THEN "stale" ELSE "ok"
    <2>1. stale \in BOOLEAN
        OBVIOUS
    <2>2. v = IF task[t].rev # w.rev \/ task[t].phase = "Terminal" \/ stale THEN "stale" ELSE "ok"
        BY <1>1, <1>2, <2>1, PublicationDecided
    <2>3. QED  BY <1>1, <2>2
<1> HIDE DEF r, v, stale
<1>5. CASE v = "ok"
    <2>1. task' = [task EXCEPT ![t] = Bumped(r, 1)] /\ job' = [job EXCEPT ![t] = SyncedJob(r, job[t])]
        BY <1>3, <1>5 DEF Publish, Put
    <2>2. worker' = [worker EXCEPT ![t] = [w EXCEPT !.at = "cleanup"]]
        BY <1>3, <1>5
    <2>3. Live(t) /\ job[t] \in JobStatus /\ job[t] # "done"
        BY <1>1, <1>4, <1>5, LiveRow DEF Live
    <2>4. /\ Ending(task[t], Bumped(r, 1)) /\ r.cancel \in BOOLEAN
          /\ Bumped(r, 1).status = r.status /\ Bumped(r, 1).cancel = r.cancel
          /\ w.why = "OutcomeUnknown" => r.status = "OutcomeUnknown"
        BY <1>1, StoppedEnds DEF r
    <2>5. /\ SyncedJob(r, job[t]) \in JobStatus \ {"queued", "running"}
          /\ SyncedJob(r, job[t]) = "done" => r.status = "Completed" /\ ~r.cancel
        BY <2>3, <2>4, SyncedRow
    <2>6. call[t] # None => w.why = "OutcomeUnknown"
        BY <1>1 DEF TaskFits, CallFits
    <2>7. /\ task'[t] = Bumped(r, 1) /\ job'[t] = SyncedJob(r, job[t])
          /\ worker'[t].at = "cleanup" /\ worker'[t].tries = w.tries
        BY <1>1, <2>1, <2>2 DEF TasksInv, Shapes, RecordInv, Equipped
    <2>8. OthersStay(t)
        BY <1>1, <1>3, <2>1, <2>2 DEF OthersStay, RecordInv, WorkersEquipped, TasksInv, Shapes
    <2>9. Shapes'
        BY <1>3, <2>1, <2>5 DEF Shapes, TasksInv
    <2>10. QED  BY <1>3, <2>3, <2>4, <2>5, <2>6, <2>7, <2>8, <2>9, EndFits
<1>6. CASE v = "stale"
    <2>1. worker' = [worker EXCEPT ![t] = [w EXCEPT !.at = "stopRead", !.tries = @ + 1]] /\ UNCHANGED <<task, job>>
        BY <1>3, <1>6 DEF Publish
    <2>2. MayMove(task[t], w, worker'[t], faults' > 0)
        BY <1>1, <1>4, <1>6, <2>1 DEF MayMove, Equipped
    <2>3. OthersStay(t)
        BY <1>1, <1>3, <2>1 DEF OthersStay, RecordInv, WorkersEquipped, TasksInv, Shapes
    <2>4. Shapes'
        BY <1>3, <2>1 DEF Shapes, TasksInv
    <2>5. QED  BY <1>3, <2>1, <2>2, <2>3, <2>4, MoveFits
<1>7. QED  BY <1>4, <1>5, <1>6

\* A declined consent ends a task that has no call open.
LEMMA DeclineFits ==
    ASSUME RecordInv, TasksInv, RecordInv', NEW t \in Task, NEW c, Decline(t, c)
    PROVE  TasksInv'
<1> DEFINE r == Stopped(task[t], "Cancelled")
<1> USE DEF consent, calls, system
<1>1. /\ Sound(task[t]) /\ TaskFits(t) /\ task[t] \in Stored /\ task[t].phase = "Consent" /\ Live(t)
      /\ task' = [task EXCEPT ![t] = Bumped(r, 1)] /\ job' = [job EXCEPT ![t] = SyncedJob(r, job[t])]
      /\ UNCHANGED <<worker, live, preview, seen, granted, call, called, home, proc, cand, crashes, faults>>
    BY DEF RecordInv, TasksInv, Decline, DecisionStands, Put, Live
<1>2. job[t] \in JobStatus /\ job[t] # "done"
    BY <1>1, LiveRow
<1>3. /\ Ending(task[t], Bumped(r, 1)) /\ r.cancel \in BOOLEAN
      /\ Bumped(r, 1).status = r.status /\ Bumped(r, 1).cancel = r.cancel
    BY <1>1, StoppedEnds DEF Reason
<1> HIDE DEF r
<1>4. /\ SyncedJob(r, job[t]) \in JobStatus \ {"queued", "running"}
      /\ SyncedJob(r, job[t]) = "done" => r.status = "Completed" /\ ~r.cancel
    BY <1>2, <1>3, SyncedRow
<1>5. call[t] = None /\ worker[t].at \notin {"dispatch", "calling", "finishRead", "finishApply"}
    BY <1>1 DEF TaskFits, CallFits, PlaceFits
<1>6. task'[t] = Bumped(r, 1) /\ job'[t] = SyncedJob(r, job[t])
    BY <1>1 DEF TasksInv, Shapes, RecordInv
<1>7. OthersStay(t)
    BY <1>1 DEF OthersStay, RecordInv, TasksInv, Shapes
<1>8. Shapes'
    BY <1>1, <1>4 DEF Shapes, TasksInv
<1>9. QED  BY <1>1, <1>3, <1>4, <1>5, <1>6, <1>7, <1>8, EndFits

\* Recovery ends a task whose worker is dead.
LEMMA RecoverFits ==
    ASSUME RecordInv, TasksInv, RecordInv', NEW p \in Proc, NEW c \in cand[p], Recover(p, c)
    PROVE  TasksInv'
<1> DEFINE t == c.task
           r == Recovered(task[t])
<1> USE DEF consent, calls, system
<1>1. /\ t \in Task /\ ~Holds(t) /\ cand' = [cand EXCEPT ![p] = @ \ {c}]
      /\ UNCHANGED <<worker, home, live, preview, seen, granted, call, called, proc, crashes, faults>>
    BY DEF Recover, TasksInv, Shapes
<1>2. DOMAIN cand' = Proc /\ \A q \in Proc : \A d \in cand'[q] : d \in [task : Task, rev : Nat]
    BY <1>1 DEF TasksInv, Shapes
<1>3. CASE UNCHANGED <<task, job>>
    <2>1. Shapes'
        BY <1>1, <1>2, <1>3 DEF TasksInv, Shapes
    <2>2. QED  BY <1>1, <1>3, <2>1 DEF TasksInv, TaskFits
<1>4. CASE ~UNCHANGED <<task, job>>
    <2>1. /\ Live(t) /\ task' = [task EXCEPT ![t] = Bumped(r, 1)]
          /\ job' = [job EXCEPT ![t] = SyncedJob(r, job[t])]
        BY <1>4 DEF Recover, Put
    <2>2. Sound(task[t]) /\ TaskFits(t) /\ task[t] \in Stored
        BY <1>1 DEF RecordInv, TasksInv
    <2>3. job[t] \in JobStatus /\ job[t] # "done"
        BY <1>1, <2>1, LiveRow
    <2>4. /\ Ending(task[t], Bumped(r, 1)) /\ r.cancel \in BOOLEAN
          /\ Bumped(r, 1).status = r.status /\ Bumped(r, 1).cancel = r.cancel
          /\ task[t].phase = "Invocation" => r.status = "OutcomeUnknown"
        BY <2>2, RecoveredEnds
    <2>5. call[t] # None => task[t].phase = "Invocation"
        BY <2>1, <2>2 DEF TaskFits, CallFits, Live
    <2>6. worker[t].at \notin {"dispatch", "calling", "finishRead", "finishApply"}
        BY <1>1 DEF Holds, Idle
    <2> HIDE DEF r, t
    <2>7. /\ SyncedJob(r, job[t]) \in JobStatus \ {"queued", "running"}
          /\ SyncedJob(r, job[t]) = "done" => r.status = "Completed" /\ ~r.cancel
        BY <2>3, <2>4, SyncedRow
    <2>8. task'[t] = Bumped(r, 1) /\ job'[t] = SyncedJob(r, job[t])
        BY <1>1, <2>1 DEF TasksInv, Shapes, RecordInv
    <2>9. OthersStay(t)
        BY <1>1, <2>1 DEF OthersStay, RecordInv, TasksInv, Shapes
    <2>10. Shapes'
        BY <1>1, <1>2, <2>1, <2>7 DEF Shapes, TasksInv
    <2>11. QED  BY <1>1, <2>1, <2>4, <2>5, <2>6, <2>7, <2>8, <2>9, <2>10, EndFits
<1>5. QED  BY <1>3, <1>4

\* An approval moves the revision once and grants the pending step.
LEMMA ApproveFits ==
    ASSUME RecordInv, TasksInv, RecordInv', NEW t \in Task, NEW c \in seen[t], Approve(t, c)
    PROVE  TasksInv'
<1> DEFINE r == task[t]
           s == task'[t]
           w == worker[t]
<1> USE DEF consent, calls, system
<1>1. /\ Sound(r) /\ Sound(s) /\ TaskFits(t) /\ r \in Stored /\ Equipped(w)
      /\ r.phase = "Consent" /\ ~r.approved /\ ~r.cancel /\ r.pending = c.step /\ r.pending # None
    BY DEF RecordInv, TasksInv, WorkersEquipped, Approve, DecisionStands, Sound, ValidRecord
<1>2. /\ task' = [task EXCEPT ![t] = Bumped([r EXCEPT !.approved = TRUE], 1)]
      /\ granted' = [granted EXCEPT ![t] = @ \cup {c.step}]
      /\ UNCHANGED <<job, worker, live, preview, seen, call, called, home, proc, cand, crashes, faults>>
    BY DEF Approve, Put
<1>3. /\ s.phase = r.phase /\ s.status = r.status /\ s.mode = r.mode /\ s.pending = r.pending /\ s.used = r.used
      /\ s.cancel = r.cancel /\ s.owned = r.owned /\ s.result = r.result /\ s.approved
    BY <1>1, <1>2 DEF Bumped, Stored, RecordInv
<1>4. c.step \in Step /\ granted'[t] = granted[t] \cup {c.step}
    BY <1>1, <1>2 DEF TaskFits, RecordFits, TasksInv, Shapes
<1>5. RecordFits(s, granted'[t]) /\ RowFits(s, job[t]) /\ PlaceFits(s, w)
    BY <1>1, <1>3, <1>4 DEF TaskFits, RecordFits, RowFits, PlaceFits
<1>6. RoundsFit(s, w, faults' > 0)
    BY <1>1, <1>2, <1>3 DEF TaskFits, RoundsFit, RevisionMoves, Equipped
<1>7. CallFits(s, w, call[t], called[t], granted'[t])
    BY <1>1, <1>3, <1>4 DEF TaskFits, CallFits
<1>8. TaskFits(t)'
    BY <1>1, <1>2, <1>5, <1>6, <1>7 DEF TaskFits
<1>9. OthersStay(t)
    BY <1>2 DEF OthersStay, RecordInv, TasksInv, Shapes
<1>10. Shapes'
    BY <1>2, <1>4 DEF Shapes, TasksInv
<1>11. QED  BY <1>8, <1>9, <1>10, OthersFit

\* A cancel moves the revision once and takes the row with it.
LEMMA CancelFits ==
    ASSUME RecordInv, TasksInv, RecordInv', NEW t \in Task, Cancel(t)
    PROVE  TasksInv'
<1> DEFINE r == task[t]
           s == task'[t]
           w == worker[t]
<1> USE DEF consent, calls, system
<1>1. Sound(r) /\ Sound(s) /\ TaskFits(t) /\ r \in Stored /\ Equipped(w) /\ Live(t) /\ ~r.cancel
    BY DEF RecordInv, TasksInv, WorkersEquipped, Cancel
<1>2. /\ task' = [task EXCEPT ![t] = Bumped(CancelledRecord(r), 1)]
      /\ job' = [job EXCEPT ![t] = IF @ \in {"queued", "running"} THEN "cancelled" ELSE @]
      /\ UNCHANGED <<worker, live, preview, seen, granted, call, called, home, proc, cand, crashes, faults>>
    BY DEF Cancel, Put
<1>3. /\ s.mode = r.mode /\ s.pending = r.pending /\ s.used = r.used /\ s.cancel
      /\ s.owned = r.owned /\ s.result = r.result /\ s.approved = r.approved
      /\ IF r.phase = "Queued" THEN s.phase = "Terminal" ELSE s.phase = r.phase /\ s.status = r.status
    BY <1>1, <1>2 DEF Bumped, Stored, RecordInv, CancelledRecord
<1>4. job'[t] = IF job[t] \in {"queued", "running"} THEN "cancelled" ELSE job[t]
    BY <1>2 DEF TasksInv, Shapes
<1>5. job[t] \in JobStatus /\ job[t] # "done"
    BY <1>1, LiveRow
<1>6. RecordFits(s, granted[t]) /\ PlaceFits(s, w)
    BY <1>1, <1>3 DEF TaskFits, RecordFits, PlaceFits, Live, Idle
<1>7. RowFits(s, job'[t])
    BY <1>1, <1>3, <1>4, <1>5 DEF TaskFits, RowFits, JobStatus, Live
<1>8. RoundsFit(s, w, faults' > 0)
    BY <1>1, <1>2, <1>3 DEF TaskFits, RoundsFit, RevisionMoves, Equipped, PlaceFits, Idle
<1>9. CallFits(s, w, call[t], called[t], granted[t])
    BY <1>1, <1>3 DEF TaskFits, CallFits, Live
<1>10. TaskFits(t)'
    BY <1>1, <1>2, <1>6, <1>7, <1>8, <1>9 DEF TaskFits
<1>11. OthersStay(t)
    BY <1>2 DEF OthersStay, RecordInv, TasksInv, Shapes
<1>12. Shapes'
    BY <1>2, <1>5 DEF Shapes, TasksInv, JobStatus
<1>13. QED  BY <1>10, <1>11, <1>12, OthersFit

\* A new task has a queued row and a worker that owns nothing yet.
LEMMA StartFits ==
    ASSUME RecordInv, TasksInv, RecordInv', NEW p \in Proc, NEW t \in Task, NEW m \in Mode,
           StartInvestigation(p, t, m)
    PROVE  TasksInv'
<1> DEFINE r == task[t]
           s == task'[t]
           w == worker[t]
           v == worker'[t]
<1> USE DEF consent, calls, system
<1>1. /\ Sound(r) /\ Sound(s) /\ TaskFits(t) /\ Equipped(w) /\ r.phase = "absent" /\ r = NoRecord
      /\ w.at = "none" /\ t \in DOMAIN worker
    BY DEF RecordInv, TasksInv, WorkersEquipped, StartInvestigation, TaskFits, RecordFits
<1>2. /\ task' = [task EXCEPT ![t] = [[NoRecord EXCEPT !.phase = "Queued", !.mode = m] EXCEPT !.seq = 1]]
      /\ job' = [job EXCEPT ![t] = "queued"]
      /\ home' = [home EXCEPT ![t] = p]
      /\ worker' = [worker EXCEPT ![t] = [NoWorker EXCEPT !.at = "insert"]]
      /\ UNCHANGED <<live, preview, seen, granted, call, called, proc, cand, crashes, faults>>
    BY DEF StartInvestigation, Put, Go
<1>3. /\ s.phase = "Queued" /\ s.pending = None /\ ~s.approved /\ s.used = 0 /\ ~s.owned
      /\ r.used = 0 /\ v.at = "insert" /\ v.tries = 0
    BY <1>1, <1>2 DEF NoRecord, NoWorker, RecordInv
<1>4. RecordFits(s, granted[t]) /\ RowFits(s, job'[t]) /\ PlaceFits(s, v) /\ RoundsFit(s, v, faults' > 0)
    BY <1>2, <1>3 DEF RecordFits, RowFits, PlaceFits, RoundsFit, Idle, JobStatus, TasksInv, Shapes
<1>5. CallFits(s, v, call[t], called[t], granted[t])
    BY <1>1, <1>3, BoundsAssumption DEF TaskFits, CallFits
<1>6. TaskFits(t)'
    BY <1>1, <1>2, <1>4, <1>5 DEF TaskFits
<1>7. OthersStay(t)
    BY <1>2 DEF OthersStay, RecordInv, WorkersEquipped, TasksInv, Shapes
<1>8. Shapes'
    BY <1>2 DEF Shapes, TasksInv, JobStatus
<1>9. QED  BY <1>6, <1>7, <1>8, OthersFit

\* A claimed task has a running row.
LEMMA ClaimFits ==
    ASSUME RecordInv, TasksInv, RecordInv', NEW t \in Task, Claim(t)
    PROVE  TasksInv'
<1> DEFINE r == task[t]
           s == task'[t]
           w == worker[t]
           v == worker'[t]
<1> USE DEF consent, calls, system
<1>1. /\ Sound(r) /\ Sound(s) /\ TaskFits(t) /\ r \in Stored /\ Equipped(w) /\ t \in DOMAIN worker
      /\ r.phase = "Queued" /\ ~r.cancel /\ w.at = "claim" /\ ~r.result
    BY DEF RecordInv, TasksInv, WorkersEquipped, Claim, CanClaim, Sound, ValidRecord
<1>2. /\ task' = [task EXCEPT ![t] = Bumped([r EXCEPT !.phase = "Preparing", !.status = "Preparing",
                                                      !.owned = TRUE], 1)]
      /\ job' = [job EXCEPT ![t] = "running"]
      /\ worker' = [worker EXCEPT ![t] = [w EXCEPT !.at = "check", !.op = "InputPrepared"]]
      /\ UNCHANGED <<live, preview, seen, granted, call, called, home, proc, cand, crashes, faults>>
    BY DEF Claim, Put, Go, Onward
<1>3. /\ s.phase = "Preparing" /\ s.mode = r.mode /\ s.pending = r.pending /\ s.used = r.used
      /\ s.cancel = r.cancel /\ s.approved = r.approved
      /\ v.at = "check" /\ v.tries = w.tries /\ job'[t] = "running"
    BY <1>1, <1>2 DEF Bumped, Stored, RecordInv, Equipped, TasksInv, Shapes
<1>4. RecordFits(s, granted[t]) /\ RowFits(s, job'[t]) /\ PlaceFits(s, v) /\ RoundsFit(s, v, faults' > 0)
    BY <1>1, <1>3 DEF TaskFits, RecordFits, RowFits, PlaceFits, RoundsFit, Idle, JobStatus
<1>5. CallFits(s, v, call[t], called[t], granted[t])
    BY <1>1, <1>3 DEF TaskFits, CallFits
<1>6. TaskFits(t)'
    BY <1>1, <1>2, <1>4, <1>5 DEF TaskFits
<1>7. OthersStay(t)
    BY <1>2 DEF OthersStay, RecordInv, WorkersEquipped, TasksInv, Shapes
<1>8. Shapes'
    BY <1>2 DEF Shapes, TasksInv, JobStatus
<1>9. QED  BY <1>6, <1>7, <1>8, OthersFit

\* What a transition of the worker loop makes of the fields that others rely on.
LEMMA MovedFields ==
    ASSUME NEW r \in Stored, NEW op \in Op, NEW tool \in Tool \cup {None}, PhaseAllows(r, op, tool)
    PROVE  LET s == Bumped(Moved(r, op, tool), EventCount(op)) IN
           /\ s.mode = r.mode /\ s.cancel = r.cancel /\ s.result = r.result
           /\ s.phase \notin {"absent", "Queued", "Terminal"}
           /\ op \in {"AwaitConsent", "BeginInvocation"} => s.pending = StepOf(r) /\ ~s.approved
           /\ op \notin {"AwaitConsent", "BeginInvocation"} =>
                 s.pending \in {r.pending, None} /\ (s.approved => r.approved /\ s.pending = r.pending)
           /\ IF op = "BeginInvocation" THEN s.used = r.used + 1 /\ s.phase = "Invocation" ELSE s.used = r.used
<1> DEFINE q == Moved(r, op, tool)
           s == Bumped(q, EventCount(op))
<1>1. CASE op \in {"InputPrepared", "InputAdmitted"}
    <2>1. q = [r EXCEPT !.phase = "Ready", !.status = "Running", !.ledger = @ + 1, !.tool = None]
        BY <1>1 DEF Moved
    <2>2. QED  BY <1>1, <2>1 DEF Bumped, Stored
<1>2. CASE op = "AwaitConsent"
    <2>1. q = [r EXCEPT !.phase = "Consent", !.status = "AwaitingConsent", !.pending = StepOf(r), !.approved = FALSE]
        BY <1>2 DEF Moved, Awaiting
    <2>2. QED  BY <1>2, <2>1 DEF Bumped, Stored
<1>3. CASE op = "BeginInvocation"
    <2>1. q = [r EXCEPT !.phase = "Invocation", !.status = "Running", !.pending = StepOf(r),
                        !.approved = FALSE, !.used = @ + 1]
        BY <1>3 DEF Moved
    <2>2. QED  BY <1>3, <2>1 DEF Bumped, Stored
<1>4. CASE op = "ActionAdmitted"
    <2>1. q = [r EXCEPT !.phase = "Action", !.pending = None, !.approved = FALSE, !.tool = tool]
        BY <1>4 DEF Moved
    <2>2. QED  BY <1>4, <2>1 DEF Bumped, Stored
<1>5. CASE op = "BeginTool"
    <2>1. q = [r EXCEPT !.phase = "Tool"]
        BY <1>5 DEF Moved
    <2>2. QED  BY <1>5, <2>1 DEF Bumped, Stored
<1>6. CASE op = "ChargeEvidence"
    <2>1. q = r /\ r.phase = "Tool"
        BY <1>6 DEF Moved, PhaseAllows
    <2>2. QED  BY <1>6, <2>1 DEF Bumped, Stored
<1>7. QED  BY <1>1, <1>2, <1>3, <1>4, <1>5, <1>6 DEF Op

\* Where the worker goes after it.
LEMMA AfterFields ==
    ASSUME NEW t \in Task, Equipped(worker[t]), NEW s, NEW v \in After(t, s)
    PROVE  /\ v.tries = worker[t].tries
           /\ v.at = (IF worker[t].op = "AwaitConsent" THEN "consent"
                      ELSE IF worker[t].op = "BeginInvocation" THEN "dispatch" ELSE "check")
<1> DEFINE w == worker[t]
<1>1. CASE w.op = "AwaitConsent"
    BY <1>1 DEF After, Equipped
<1>2. CASE w.op = "BeginInvocation"
    BY <1>2 DEF After, Equipped
<1>3. CASE w.op \notin {"AwaitConsent", "BeginInvocation"}
    <2>1. \E op \in Op : v = Onward(t, op)
        BY <1>3 DEF After, Equipped, Op, FirstOp
    <2>2. QED  BY <1>3, <2>1 DEF Onward, Equipped
<1>4. QED  BY <1>1, <1>2, <1>3

\* A transition of the worker loop: an invocation is charged before it is dispatched, and a cloud one was granted.
LEMMA AdvanceFits ==
    ASSUME RecordInv, TasksInv, RecordInv', NEW t \in Task, Advance(t)
    PROVE  TasksInv'
<1> DEFINE r == task[t]
           w == worker[t]
           s == Bumped(Moved(r, w.op, w.tool), EventCount(w.op))
           v == worker'[t]
<1> USE DEF consent, calls, system
<1>1. /\ Sound(r) /\ TaskFits(t) /\ r \in Stored /\ Equipped(w) /\ t \in DOMAIN worker
      /\ w.at = "apply" /\ w.op \in Op /\ w.tool \in Tool \cup {None} /\ PhaseAllows(r, w.op, w.tool)
      /\ job[t] = "running" /\ ~r.cancel
    BY DEF RecordInv, TasksInv, WorkersEquipped, Equipped, Advance, CanAdvance, MayAdvance, JobAllows
<1>2. /\ task' = [task EXCEPT ![t] = s]
      /\ \E x \in After(t, s) : worker' = [worker EXCEPT ![t] = x]
      /\ UNCHANGED <<job, live, seen, granted, call, called, home, proc, cand, crashes, faults>>
    BY DEF Advance, Put, Go
<1>3. preview' = [preview EXCEPT ![t] =
                     CASE w.op = "AwaitConsent" -> [rev |-> s.rev, step |-> s.pending]
                       [] w.op = "BeginInvocation" -> None
                       [] OTHER -> @]
    BY DEF Advance
<1>4. /\ s.mode = r.mode /\ s.cancel = r.cancel /\ s.result = r.result
      /\ s.phase \notin {"absent", "Queued", "Terminal"}
      /\ w.op \in {"AwaitConsent", "BeginInvocation"} => s.pending = StepOf(r) /\ ~s.approved
      /\ w.op \notin {"AwaitConsent", "BeginInvocation"} =>
            s.pending \in {r.pending, None} /\ (s.approved => r.approved /\ s.pending = r.pending)
      /\ IF w.op = "BeginInvocation" THEN s.used = r.used + 1 /\ s.phase = "Invocation" ELSE s.used = r.used
    BY <1>1, MovedFields
<1>5. /\ v.tries = w.tries
      /\ v.at = (IF w.op = "AwaitConsent" THEN "consent"
                 ELSE IF w.op = "BeginInvocation" THEN "dispatch" ELSE "check")
    <2>1. PICK x \in After(t, s) : worker' = [worker EXCEPT ![t] = x]
        BY <1>2
    <2>2. v = x
        BY <1>1, <2>1
    <2>3. QED  BY <1>1, <2>2, AfterFields
<1>6. w.op \in {"AwaitConsent", "BeginInvocation"} => r.used < MaxInvocations
    BY <1>1 DEF PhaseAllows, TaskFits, PlaceFits
<1>7. w.op \in {"AwaitConsent", "BeginInvocation"} => StepOf(r) \in Step /\ StepOf(r).n = r.used + 1
    BY <1>1, <1>6, BoundsAssumption DEF StepOf, Step, Stored
<1>8. w.op = "BeginInvocation" /\ r.mode = "Cloud" => StepOf(r) \in granted[t]
    BY <1>1 DEF PhaseAllows, TaskFits, RecordFits
<1>9. s \in Stored /\ task'[t] = s
    BY <1>1, <1>2 DEF RecordInv
<1> HIDE DEF s
<1>10. RecordFits(s, granted[t])
    BY <1>1, <1>4, <1>7 DEF TaskFits, RecordFits
<1>11. RowFits(s, job[t])
    BY <1>1, <1>4 DEF RowFits, JobStatus
<1>12. PlaceFits(s, v) /\ RoundsFit(s, v, faults' > 0)
    BY <1>1, <1>4, <1>5 DEF TaskFits, PlaceFits, RoundsFit
<1>13. CallFits(s, v, call[t], called[t], granted[t])
    <2>1. call[t] = None /\ r.used \in Nat
        BY <1>1 DEF TaskFits, CallFits, Stored
    <2>2. \A n \in 1 .. MaxInvocations : called[t][n] # 0 =>
             n <= s.used /\ (s.mode = "Cloud" => \E x \in granted[t] : x.n = n)
        BY <1>1, <1>4, <2>1 DEF TaskFits, CallFits
    <2>3. v.at = "dispatch" =>
             /\ s.pending.n = s.used /\ called[t][s.used] = 0
             /\ s.mode = "Cloud" => s.pending \in granted[t]
        <3>1. SUFFICES ASSUME w.op = "BeginInvocation"
                       PROVE  /\ s.pending.n = s.used /\ called[t][s.used] = 0
                              /\ s.mode = "Cloud" => s.pending \in granted[t]
            BY <1>5
        <3>2. s.used = r.used + 1 /\ s.pending = StepOf(r) /\ s.mode = r.mode
            BY <1>4, <3>1
        <3>3. s.used \in 1 .. MaxInvocations /\ ~(s.used <= r.used)
            BY <1>6, <2>1, <3>1, <3>2, BoundsAssumption
        <3>4. called[t][s.used] = 0
            BY <1>1, <3>3 DEF TaskFits, CallFits
        <3>5. QED  BY <1>7, <1>8, <3>1, <3>2, <3>4
    <2>4. QED  BY <1>1, <2>1, <2>2, <2>3 DEF TaskFits, CallFits
<1>14. preview'[t] \in Preview \cup {None}
    BY <1>1, <1>3, <1>4, <1>7, <1>9 DEF TasksInv, Shapes, TaskFits, Preview, Stored
<1>15. TaskFits(t)'
    BY <1>1, <1>2, <1>9, <1>10, <1>11, <1>12, <1>13, <1>14 DEF TaskFits
<1>16. OthersStay(t)
    BY <1>2, <1>3 DEF OthersStay, RecordInv, WorkersEquipped, TasksInv, Shapes
<1>17. Shapes'
    <2>1. preview' \in [Task -> Preview \cup {None}]
        BY <1>3, <1>14 DEF TasksInv, Shapes
    <2>2. QED  BY <1>2, <2>1 DEF TasksInv, Shapes
<1>18. QED  BY <1>15, <1>16, <1>17, OthersFit

\* A step is dispatched once, and an answer closes it.
LEMMA CallStepsFit ==
    ASSUME RecordInv, TasksInv, NEW t \in Task, Dispatch(t) \/ Answer(t)
    PROVE  TasksInv'
<1> DEFINE r == task[t]
           w == worker[t]
           v == worker'[t]
<1> USE DEF consent, calls, system
<1>1. /\ Sound(r) /\ TaskFits(t) /\ r \in Stored /\ Equipped(w) /\ t \in DOMAIN worker
      /\ w.at \in {"dispatch", "calling"} /\ r.phase = "Invocation" /\ r.pending # None /\ r.pending \in Step
    BY DEF RecordInv, TasksInv, WorkersEquipped, Dispatch, Answer, TaskFits, PlaceFits, RecordFits, Sound, ValidRecord
<1>2. \E x : worker' = [worker EXCEPT ![t] = x]
    BY DEF Dispatch, Answer, Go
<1>3. /\ UNCHANGED <<task, job, live, preview, seen, granted, home, proc, cand, crashes, faults>>
    BY DEF Dispatch, Answer
<1>4. RevisionMoves(r) \in Nat
    BY <1>1 DEF RevisionMoves, Stored
<1>5. CASE Dispatch(t)
    <2>1. call' = [call EXCEPT ![t] = r.pending] /\ called' = [called EXCEPT ![t][r.pending.n] = @ + 1]
        BY <1>5 DEF Dispatch
    <2>2. r.pending.n = r.used /\ called[t][r.used] = 0 /\ r.used \in 1 .. MaxInvocations
          /\ (r.mode = "Cloud" => r.pending \in granted[t])
        BY <1>1, <1>5 DEF Dispatch, TaskFits, CallFits, Step
    <2>3. v.at = "calling" /\ v.tries = w.tries
        BY <1>1, <1>5 DEF Dispatch, Go, Equipped
    <2>4. call'[t] = r.pending /\ called'[t] = [called[t] EXCEPT ![r.used] = 1]
        BY <2>1, <2>2 DEF TasksInv, Shapes
    <2>5. CallFits(r, v, call'[t], called'[t], granted[t])
        BY <1>1, <2>2, <2>3, <2>4 DEF TaskFits, CallFits
    <2>6. PlaceFits(r, v) /\ RoundsFit(r, v, faults' > 0)
        BY <1>1, <1>3, <2>3 DEF TaskFits, PlaceFits, RoundsFit
    <2>7. TaskFits(t)'
        BY <1>1, <1>3, <2>5, <2>6 DEF TaskFits
    <2>8. OthersStay(t)
        BY <1>2, <1>3, <2>1 DEF OthersStay, RecordInv, WorkersEquipped, TasksInv, Shapes
    <2>9. Shapes'
        BY <1>1, <1>3, <2>1, <2>2 DEF TasksInv, Shapes
    <2>10. QED  BY <2>7, <2>8, <2>9, OthersFit
<1>6. CASE Answer(t)
    <2>1. call' = [call EXCEPT ![t] = None] /\ called' = called
        BY <1>6 DEF Answer
    <2>2. \/ v.at = "check" /\ v.tries = w.tries
          \/ v.at = "finishRead" /\ v.tries = 0
          \/ v.at = "stopRead" /\ v.tries = 0 /\ v.why # "OutcomeUnknown"
        BY <1>1, <1>6 DEF Answer, Go, Onward, Failing, Equipped
    <2>3. call'[t] = None
        BY <2>1 DEF TasksInv, Shapes
    <2>4. CallFits(r, v, call'[t], called[t], granted[t])
        BY <1>1, <2>2, <2>3 DEF TaskFits, CallFits
    <2>5. PlaceFits(r, v) /\ RoundsFit(r, v, faults' > 0)
        BY <1>1, <1>3, <1>4, <2>2 DEF TaskFits, PlaceFits, RoundsFit
    <2>6. TaskFits(t)'
        BY <1>1, <1>3, <2>1, <2>4, <2>5 DEF TaskFits
    <2>7. OthersStay(t)
        BY <1>2, <1>3, <2>1 DEF OthersStay, RecordInv, WorkersEquipped, TasksInv, Shapes
    <2>8. Shapes'
        BY <1>3, <2>1 DEF TasksInv, Shapes
    <2>9. QED  BY <2>6, <2>7, <2>8, OthersFit
<1>7. QED  BY <1>5, <1>6

-----------------------------------------------------------------------------
(* The second invariant, and the theorems that rest on it. *)

\* Initially there is no task, no row and no call.
LEMMA InitTasksInv == Init => TasksInv
<1> SUFFICES ASSUME Init PROVE TasksInv
    OBVIOUS
<1>1. Shapes
    BY DEF Init, Shapes, JobStatus
<1>2. ASSUME NEW t \in Task
      PROVE  TaskFits(t)
    <2>1. /\ task[t] = NoRecord /\ worker[t] = NoWorker /\ job[t] = "absent" /\ call[t] = None
          /\ called[t] = [n \in 1 .. MaxInvocations |-> 0] /\ granted[t] = {} /\ preview[t] = None /\ seen[t] = {}
        BY DEF Init
    <2>2. /\ NoRecord.phase = "absent" /\ NoRecord.pending = None /\ ~NoRecord.approved /\ NoRecord.used = 0
          /\ NoWorker.at = "none" /\ NoWorker.tries = 0
        BY DEF NoRecord, NoWorker
    <2>3. RecordFits(task[t], granted[t]) /\ RowFits(task[t], job[t]) /\ PlaceFits(task[t], worker[t])
        BY <2>1, <2>2 DEF RecordFits, RowFits, PlaceFits, Idle, JobStatus
    <2>4. RoundsFit(task[t], worker[t], faults > 0)
        BY <2>1, <2>2 DEF RoundsFit
    <2>5. CallFits(task[t], worker[t], call[t], called[t], granted[t])
        BY <2>1, <2>2 DEF CallFits
    <2>6. QED  BY <2>1, <2>3, <2>4, <2>5 DEF TaskFits
<1>3. QED  BY <1>1, <1>2 DEF TasksInv

\* A preview the user is shown is the one on display.
LEMMA FetchFits ==
    ASSUME RecordInv, TasksInv, NEW t \in Task, FetchConsent(t)
    PROVE  TasksInv'
<1> USE DEF consent, calls, system
<1>1. /\ preview[t] # None /\ seen' = [seen EXCEPT ![t] = @ \cup {preview[t]}]
      /\ UNCHANGED <<task, job, worker, live, preview, granted, call, called, home, proc, cand, crashes, faults>>
    BY DEF FetchConsent
<1>2. Shapes' /\ OthersStay(t)
    BY <1>1 DEF Shapes, TasksInv, OthersStay
<1>3. TaskFits(t) /\ seen'[t] = seen[t] \cup {preview[t]} /\ preview[t] \in Preview \cup {None}
    BY <1>1 DEF TasksInv, Shapes
<1>4. TaskFits(t)'
    BY <1>1, <1>3 DEF TaskFits
<1>5. QED  BY <1>2, <1>4, OthersFit

\* A crash loses workers and previews, and no record, row or call.
LEMMA CrashFits ==
    ASSUME RecordInv, TasksInv, NEW p \in Proc, Crash(p)
    PROVE  TasksInv'
<1> USE DEF calls
<1>1. /\ UNCHANGED <<task, job, home, granted, call, called, faults>>
      /\ crashes' = crashes + 1 /\ proc' = [proc EXCEPT ![p] = "down"]
      /\ cand' = [cand EXCEPT ![p] = {}] /\ live' = [live EXCEPT ![p] = {}]
    BY DEF Crash
<1>2. ASSUME NEW t \in Task
      PROVE  /\ worker'[t] = worker[t] \/ worker'[t] = [worker[t] EXCEPT !.at = "gone"]
             /\ preview'[t] \in {preview[t], None} /\ seen'[t] \in {seen[t], {}}
    BY <1>2 DEF Crash
<1>3. DOMAIN seen' = Task /\ preview' = [t \in Task |-> preview'[t]]
    BY DEF Crash
<1>4. preview' \in [Task -> Preview \cup {None}]
    <2>1. \A t \in Task : preview'[t] \in Preview \cup {None}
        BY <1>2 DEF TasksInv, Shapes
    <2>2. QED  BY <1>3, <2>1
<1>5. Shapes'
    BY <1>1, <1>3, <1>4 DEF TasksInv, Shapes
<1>6. ASSUME NEW t \in Task
      PROVE  TaskFits(t)'
    <2>1. TaskFits(t) /\ Equipped(worker[t])
        BY DEF TasksInv, RecordInv, WorkersEquipped
    <2>2. worker'[t] = worker[t] \/ (worker'[t].at = "gone" /\ worker'[t].tries = worker[t].tries)
        BY <1>2, <2>1 DEF Equipped
    <2>3. PlaceFits(task[t], worker'[t]) /\ RoundsFit(task[t], worker'[t], faults > 0)
        BY <2>1, <2>2 DEF TaskFits, PlaceFits, RoundsFit, Idle
    <2>4. CallFits(task[t], worker'[t], call[t], called[t], granted[t])
        BY <2>1, <2>2 DEF TaskFits, CallFits
    <2>5. preview'[t] \in Preview \cup {None} /\ \A c \in seen'[t] : c \in Preview
        BY <1>2, <2>1 DEF TaskFits
    <2>6. QED  BY <1>1, <2>1, <2>3, <2>4, <2>5 DEF TaskFits
<1>7. QED  BY <1>5, <1>6 DEF TasksInv

\* Clearing the job list removes no row that a live, owned task needs.
LEMMA ClearFits ==
    ASSUME RecordInv, TasksInv, ClearFinished
    PROVE  TasksInv'
<1> USE DEF consent, calls, system
<1>1. /\ job' = [t \in Task |-> IF Clearable(t) THEN "absent" ELSE job[t]]
      /\ UNCHANGED <<task, worker, live, preview, seen, granted, call, called, home, proc, cand, crashes, faults>>
    BY DEF ClearFinished
<1>2. Shapes'
    BY <1>1 DEF TasksInv, Shapes, JobStatus
<1>3. ASSUME NEW t \in Task
      PROVE  TaskFits(t)'
    <2>1. TaskFits(t) /\ task[t].cancel \in BOOLEAN
        BY DEF TasksInv, RecordInv, Stored
    <2>2. job'[t] = job[t] \/ (job'[t] = "absent" /\ Clearable(t))
        BY <1>1
    <2>3. RowFits(task[t], job'[t])
        BY <2>1, <2>2 DEF TaskFits, RowFits, Clearable, JobStatus
    <2>4. QED  BY <1>1, <2>1, <2>3 DEF TaskFits
<1>4. QED  BY <1>2, <1>3 DEF TasksInv

\* A starting process changes no task; it notes which to recover.
LEMMA StartupFits ==
    ASSUME RecordInv, TasksInv, NEW p \in Proc,
           Startup(p) \/ FinishStartup(p) \/ \E c \in cand[p] : SkipBusy(p, c)
    PROVE  TasksInv'
<1> USE DEF consent, calls, system
<1>1. UNCHANGED <<task, job, worker, home, live, preview, seen, granted, call, called, crashes, faults>>
    BY DEF Startup, FinishStartup, SkipBusy
<1>2. /\ proc' = proc \/ \E s \in {"recovering", "up"} : proc' = [proc EXCEPT ![p] = s]
      /\ \/ cand' = cand \/ cand' = [cand EXCEPT ![p] = Candidates]
         \/ \E c \in cand[p] : cand' = [cand EXCEPT ![p] = @ \ {c}]
    BY DEF Startup, FinishStartup, SkipBusy
<1>3. \A c \in Candidates : c \in [task : Task, rev : Nat]
    BY DEF Candidates, RecordInv, Stored
<1>4. DOMAIN cand' = Proc /\ \A q \in Proc : \A c \in cand'[q] : c \in [task : Task, rev : Nat]
    BY <1>2, <1>3 DEF TasksInv, Shapes
<1>5. proc' \in [Proc -> {"down", "recovering", "up"}]
    BY <1>2 DEF TasksInv, Shapes
<1>6. Shapes'
    BY <1>1, <1>4, <1>5 DEF TasksInv, Shapes
<1>7. QED  BY <1>1, <1>6 DEF TasksInv, TaskFits

\* Every step keeps task, row, worker and calls together.
LEMMA NextTasksInv == RecordInv /\ TasksInv /\ [Next]_vars => TasksInv'
<1> SUFFICES ASSUME RecordInv, TasksInv, [Next]_vars PROVE TasksInv'
    OBVIOUS
<1>0. RecordInv'
    BY NextRecordInv
<1>1. CASE \E p \in Proc, t \in Task, m \in Mode : StartInvestigation(p, t, m)
    BY <1>0, <1>1, StartFits
<1>2. ASSUME NEW t \in Task, WorkerStep(t) \/ StorageFault(t)
      PROVE  TasksInv'
    BY <1>0, <1>2, WorkerMovesFit, ClaimFits, AdvanceFits, CallStepsFit, FinishFits, StopFits DEF WorkerStep
<1>3. ASSUME NEW t \in Task, FetchConsent(t) \/ Cancel(t) \/ \E c \in seen[t] : Approve(t, c) \/ Decline(t, c)
      PROVE  TasksInv'
    BY <1>0, <1>3, FetchFits, CancelFits, ApproveFits, DeclineFits
<1>4. CASE ClearFinished
    BY <1>4, ClearFits
<1>5. ASSUME NEW p \in Proc,
             Crash(p) \/ Startup(p) \/ FinishStartup(p) \/ \E c \in cand[p] : Recover(p, c) \/ SkipBusy(p, c)
      PROVE  TasksInv'
    <2>1. CASE Crash(p)
        BY <2>1, CrashFits
    <2>2. CASE \E c \in cand[p] : Recover(p, c)
        BY <1>0, <2>2, RecoverFits
    <2>3. QED  BY <1>5, <2>1, <2>2, StartupFits
<1>6. CASE UNCHANGED vars
    BY <1>6 DEF vars, TasksInv, TaskFits, Shapes
<1>7. QED  BY <1>1, <1>2, <1>3, <1>4, <1>5, <1>6 DEF Next

\* Both invariants hold in every reachable state.
THEOREM TasksFitTogether == Spec => [](RecordInv /\ TasksInv)
<1>1. Init => RecordInv /\ TasksInv
    BY InitRecordInv, InitTasksInv
<1>2. (RecordInv /\ TasksInv) /\ [Next]_vars => (RecordInv /\ TasksInv)'
    BY NextRecordInv, NextTasksInv
<1>3. QED  BY <1>1, <1>2, PTL DEF Spec

\* Every request sent is one the user approved, is sent once, and is reported as of
\* unknown outcome when the task ended without its answer.
THEOREM CallsAlwaysAccounted == Spec => []CallsAccounted
<1>1. TasksInv => ConsentedOnce
    <2> SUFFICES ASSUME TasksInv, NEW t \in Task
                 PROVE  /\ task[t].mode = "Cloud" /\ call[t] # None => call[t] \in granted[t]
                        /\ \A n \in 1 .. MaxInvocations :
                              /\ called[t][n] <= 1
                              /\ task[t].mode = "Cloud" /\ called[t][n] > 0 => \E s \in granted[t] : s.n = n
        BY DEF ConsentedOnce
    <2>1. CallFits(task[t], worker[t], call[t], called[t], granted[t])
        BY DEF TasksInv, TaskFits
    <2>2. ASSUME NEW n \in 1 .. MaxInvocations
          PROVE  /\ called[t][n] <= 1
                 /\ task[t].mode = "Cloud" /\ called[t][n] > 0 => \E s \in granted[t] : s.n = n
        <3>1. called[t][n] \in {0, 1}
            BY <2>1 DEF CallFits
        <3>2. QED  BY <2>1, <3>1 DEF CallFits
    <2>3. QED  BY <2>1, <2>2 DEF CallFits
<1>2. TasksInv => UnansweredIsUnknown
    BY DEF TasksInv, TaskFits, CallFits, UnansweredIsUnknown
<1>3. QED  BY <1>1, <1>2, TasksFitTogether, PTL DEF CallsAccounted

\* Record, row and worker agree on whether a task has ended: no row waits for an ended
\* task, "done" is a result nobody cancelled, and three rounds of publication are
\* enough for a worker to leave its task ended.
THEOREM AgreeOnEnding == Spec => []EndsTogether
<1>1. RecordInv /\ TasksInv => TypeOK
    <2> SUFFICES ASSUME RecordInv, TasksInv PROVE TypeOK
        OBVIOUS
    <2>1. ASSUME NEW t \in Task
          PROVE  task[t] \in Record /\ worker[t] \in Worker
        <3>1. Sound(task[t]) /\ TaskFits(t) /\ Equipped(worker[t])
            BY DEF RecordInv, WorkersEquipped, TasksInv
        <3>2. task[t].pending \in Step \cup {None}
            BY <3>1 DEF TaskFits, RecordFits
        <3>3. task[t] \in Record
            BY <3>1, <3>2 DEF Sound, Stored, Record
        <3>4. worker[t].tries \in 0 .. 3
            BY <3>1 DEF TaskFits, RoundsFit
        <3>5. worker[t] \in Worker
            BY <3>1, <3>4 DEF Equipped, Worker
        <3>6. QED  BY <3>3, <3>5
    <2>2. task \in [Task -> Record] /\ worker \in [Task -> Worker]
        BY <2>1 DEF RecordInv, WorkersEquipped
    <2>3. \A t \in Task : \A c \in seen[t] : c \in Preview
        BY DEF TasksInv, TaskFits
    <2>4. called \in [Task -> [1 .. MaxInvocations -> Nat]]
        BY DEF TasksInv, Shapes
    <2>5. QED  BY <2>2, <2>3, <2>4 DEF TasksInv, Shapes, TypeOK, Preview
<1>2. RecordInv /\ TasksInv => JobFollowsTask
    BY DEF RecordInv, TasksInv, TaskFits, RowFits, JobFollowsTask, Live
<1>3. TasksInv => WorkerLeavesItEnded
    <2> SUFFICES ASSUME TasksInv, NEW t \in Task, faults = 0, worker[t].at = "cleanup"
                 PROVE  task[t].phase = "Terminal"
        BY DEF WorkerLeavesItEnded
    <2>1. RoundsFit(task[t], worker[t], faults > 0)
        BY DEF TasksInv, TaskFits
    <2>2. QED  BY <2>1 DEF RoundsFit
<1>4. QED  BY <1>1, <1>2, <1>3, TasksFitTogether, PTL DEF EndsTogether

\* A worker that publishes a finish is sent to give up only by a storage fault.
LEMMA FinishStays ==
    ASSUME RecordInv, TasksInv, [Next]_vars, NEW t \in Task,
           worker[t].at \in {"finishRead", "finishApply"}, worker'[t].at = "stopRead"
    PROVE  faults' > faults
<1>0. RecordInv' /\ Equipped(worker[t]) /\ DOMAIN worker = Task /\ faults \in Nat
    BY NextRecordInv DEF RecordInv, WorkersEquipped, TasksInv, Shapes
<1>1. worker' # worker
    OBVIOUS
<1>2. ASSUME NEW p \in Proc, NEW u \in Task, NEW m \in Mode, StartInvestigation(p, u, m)
      PROVE  FALSE
    <2>1. worker' = [worker EXCEPT ![u] = [NoWorker EXCEPT !.at = "insert"]]
        BY <1>2 DEF StartInvestigation, Go
    <2>2. QED  BY <1>0, <2>1 DEF NoWorker
<1>3. ASSUME NEW p \in Proc, Crash(p)
      PROVE  FALSE
    <2>1. worker'[t] = worker[t] \/ worker'[t] = [worker[t] EXCEPT !.at = "gone"]
        BY <1>3 DEF Crash
    <2>2. QED  BY <1>0, <2>1 DEF Equipped
<1>4. ASSUME NEW u \in Task, WorkerStep(u) \/ StorageFault(u)
      PROVE  faults' > faults
    <2>1. \E x : worker' = [worker EXCEPT ![u] = x]
        BY <1>4 DEF WorkerStep, StorageFault, Go, InsertLive, Claim, ClaimRefused, CheckNewWork, Advance,
           AdvanceRefused, PollConsent, GiveUp, Dispatch, Answer, NoAnswer, FinishRead, FinishApply,
           StopRead, StopApply, Cleanup
    <2>2. u = t
        BY <1>0, <2>1
    <2>3. StorageFault(t) \/ FinishRead(t) \/ FinishApply(t)
        BY <1>4, <2>2 DEF WorkerStep, InsertLive, Claim, ClaimRefused, CheckNewWork, Advance,
           AdvanceRefused, PollConsent, GiveUp, Dispatch, Answer, NoAnswer, StopRead, StopApply, Cleanup
    <2>4. ~FinishApply(t)
        BY <1>0, FinishFits
    <2>5. CASE FinishRead(t)
        <3>1. TaskFits(t) /\ Sound(task[t])
            BY DEF TasksInv, RecordInv
        <3>2. worker[t].at = "finishRead" /\ task[t].phase = "Invocation"
            BY <2>5, <3>1 DEF FinishRead, TaskFits, PlaceFits
        <3>3. worker[t].tries <= RevisionMoves(task[t]) /\ RevisionMoves(task[t]) \in 0 .. 2 /\ worker[t].tries \in Nat
            BY <1>0, <3>1, <3>2 DEF TaskFits, RoundsFit, RevisionMoves, Sound, Stored, Equipped
        <3>4. worker'[t] = [worker[t] EXCEPT !.at = "finishApply", !.rev = task[t].rev]
            BY <1>0, <2>5, <3>3 DEF FinishRead, Go, Rounds
        <3>5. QED  BY <1>0, <3>4 DEF Equipped
    <2>6. CASE StorageFault(t)
        BY <1>0, <2>6 DEF StorageFault
    <2>7. QED  BY <2>3, <2>4, <2>5, <2>6
<1>5. QED
    BY <1>1, <1>2, <1>3, <1>4
       DEF Next, vars, FetchConsent, Approve, Decline, Cancel, ClearFinished, Startup, FinishStartup, Recover, SkipBusy

\* A validated answer is never lost to a race: cancels and late approvals cost at most
\* two of the three rounds.
THEOREM FinishNeverLost == Spec => FinishKept
<1>1. RecordInv /\ TasksInv /\ [Next]_vars =>
        [\A t \in Task : worker[t].at \in {"finishRead", "finishApply"} /\ worker'[t].at = "stopRead"
                          => faults' > faults]_vars
    BY FinishStays
<1>2. QED  BY <1>1, TasksFitTogether, PTL DEF Spec, FinishKept

\* Only start_investigation makes a task live.
LEMMA OnlyStarts ==
    ASSUME RecordInv, TasksInv, [Next]_vars,
           ~ \E p \in Proc, t \in Task, m \in Mode : StartInvestigation(p, t, m),
           NEW u \in Task, Live(u)'
    PROVE  Live(u)
<1>1. SUFFICES ASSUME task'[u] # task[u] PROVE task[u].phase # "absent"
    <2>1. task'[u] # task[u] => task[u].phase # "Terminal"
        BY NextRecords DEF RecordsStep, Succeeds
    <2>2. QED  BY <2>1 DEF Live
<1>2. task \in [Task -> Stored] /\ \A t \in Task : worker[t].at # "none" => task[t].phase # "absent"
    BY DEF RecordInv, WorkersEquipped
<1>3. ASSUME NEW t \in Task, WorkerStep(t) \/ StorageFault(t)
      PROVE  task[u].phase # "absent"
    <2>1. Claim(t) \/ Advance(t) \/ FinishApply(t) \/ StopApply(t)
        BY <1>1, <1>3 DEF WorkerStep, StorageFault, InsertLive, ClaimRefused, CheckNewWork,
           AdvanceRefused, PollConsent, GiveUp, Dispatch, Answer, NoAnswer, FinishRead, StopRead, Cleanup
    <2>2. \E s : task' = [task EXCEPT ![t] = s]
        BY <1>1, <2>1 DEF Claim, Advance, FinishApply, StopApply, Publish, Put
    <2>3. u = t /\ worker[t].at # "none"
        BY <1>1, <1>2, <2>1, <2>2 DEF Claim, Advance, FinishApply, StopApply
    <2>4. QED  BY <1>2, <2>3
<1>4. ASSUME NEW t \in Task, Cancel(t) \/ \E c \in seen[t] : Approve(t, c) \/ Decline(t, c)
      PROVE  task[u].phase # "absent"
    <2>1. \E s : task' = [task EXCEPT ![t] = s]
        BY <1>4 DEF Cancel, Approve, Decline, Put
    <2>2. u = t /\ task[t].phase # "absent"
        BY <1>1, <1>2, <1>4, <2>1 DEF Cancel, Approve, Decline, DecisionStands, Live
    <2>3. QED  BY <2>2
<1>5. ASSUME NEW p \in Proc, NEW c \in cand[p], Recover(p, c)
      PROVE  task[u].phase # "absent"
    <2>1. Live(c.task) /\ \E s : task' = [task EXCEPT ![c.task] = s]
        BY <1>1, <1>5 DEF Recover, Put
    <2>2. u = c.task
        BY <1>1, <1>2, <2>1
    <2>3. QED  BY <2>1, <2>2 DEF Live
<1>6. QED
    BY <1>1, <1>3, <1>4, <1>5
       DEF Next, vars, FetchConsent, ClearFinished, Crash, Startup, FinishStartup, SkipBusy

LiveTasks == {t \in Task : Live(t)}

\* The live tasks are finitely many, and within the cap.
CapInv == IsFiniteSet(LiveTasks) /\ Cardinality(LiveTasks) <= MaxLive

\* However tasks end, restart and recover, no more are live than a startup accepts.
THEOREM CapKept == Spec => []LiveWithinCap
<1>1. Init => CapInv
    <2> SUFFICES ASSUME Init PROVE CapInv
        OBVIOUS
    <2>1. LiveTasks = {}
        BY DEF Init, LiveTasks, Live, NoRecord
    <2>2. QED  BY <2>1, FS_EmptySet, BoundsAssumption DEF CapInv
<1>2. RecordInv /\ TasksInv /\ CapInv /\ [Next]_vars => CapInv'
    <2> SUFFICES ASSUME RecordInv, TasksInv, CapInv, [Next]_vars PROVE CapInv'
        OBVIOUS
    <2>0. Cardinality(LiveTasks) \in Nat
        BY FS_CardinalityType DEF CapInv
    <2>1. CASE \E p \in Proc, t \in Task, m \in Mode : StartInvestigation(p, t, m)
        <3>1. PICK p \in Proc, t \in Task, m \in Mode : StartInvestigation(p, t, m)
            BY <2>1
        <3>2. /\ \E s : task' = [task EXCEPT ![t] = s]
              /\ Cardinality(LiveTasks) < MaxLive
            BY <3>1 DEF StartInvestigation, Put, LiveTasks
        <3>3. LiveTasks' \subseteq LiveTasks \cup {t}
            BY <3>2 DEF LiveTasks, Live, RecordInv
        <3>4. /\ IsFiniteSet(LiveTasks \cup {t})
              /\ Cardinality(LiveTasks \cup {t}) <= Cardinality(LiveTasks) + 1
              /\ Cardinality(LiveTasks \cup {t}) \in Nat
            <4>1. /\ IsFiniteSet(LiveTasks \cup {t})
                  /\ Cardinality(LiveTasks \cup {t}) \in {Cardinality(LiveTasks), Cardinality(LiveTasks) + 1}
                BY FS_AddElement DEF CapInv
            <4>2. QED  BY <2>0, <4>1
        <3>5. IsFiniteSet(LiveTasks') /\ Cardinality(LiveTasks') <= Cardinality(LiveTasks \cup {t})
              /\ Cardinality(LiveTasks') \in Nat
            BY <3>3, <3>4, FS_Subset, FS_CardinalityType
        <3>6. Cardinality(LiveTasks') <= MaxLive
            BY <2>0, <3>2, <3>4, <3>5, BoundsAssumption
        <3>7. QED  BY <3>5, <3>6 DEF CapInv
    <2>2. CASE ~ \E p \in Proc, t \in Task, m \in Mode : StartInvestigation(p, t, m)
        <3>1. LiveTasks' \subseteq LiveTasks
            BY <2>2, OnlyStarts DEF LiveTasks
        <3>2. IsFiniteSet(LiveTasks') /\ Cardinality(LiveTasks') <= Cardinality(LiveTasks)
              /\ Cardinality(LiveTasks') \in Nat
            BY <3>1, FS_Subset, FS_CardinalityType DEF CapInv
        <3>3. Cardinality(LiveTasks') <= MaxLive
            BY <2>0, <3>2, BoundsAssumption DEF CapInv
        <3>4. QED  BY <3>2, <3>3 DEF CapInv
    <2>3. QED  BY <2>1, <2>2
<1>3. CapInv => LiveWithinCap
    BY DEF CapInv, LiveTasks, LiveWithinCap
<1>4. QED  BY <1>1, <1>2, <1>3, TasksFitTogether, PTL DEF Spec

=============================================================================
