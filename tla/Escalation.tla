----------------------------- MODULE Escalation -----------------------------
(***************************************************************************)
(* Escalating a gap to a model: the preview of what would be sent, the     *)
(* run that prepares the same task again, asks the model and stages its    *)
(* answer, the class run that does so for several gaps on the local model, *)
(* the settings that open the cloud, and the review of what is staged      *)
(* (src-tauri/src/main.rs, egress.rs, proposals.rs, settings.rs, llm).     *)
(*                                                                         *)
(* Every command runs in a process of its own.  Between its steps the      *)
(* graph is loaded again, working trees are edited, retained source is     *)
(* forgotten, settings change and jobs are cancelled.                      *)
(***************************************************************************)
EXTENDS ProposalStaging

CONSTANTS
    Proc,          \* command processes
    Reviewer,      \* windows that list and review the history
    Gaps,          \* gaps a command may name
    Graphs,        \* [graph, bindings]: what loads of the graph leave
    Trees,         \* working trees: a set of at most one text per citation
    Receipts,      \* receipts by id
    Answers,       \* what a model may answer
    Budgets,       \* how many events of each kind may happen, [Kinds -> Nat] each
    HasKey         \* an API key of the cloud provider is configured

VARIABLES
    world,         \* [graph, bindings, tree, retained]
    settings,      \* the Agentic tier: [enabled, provider, consented]
    jobs,          \* job statuses, by id
    run,           \* run[p]: the command of process p
    shown,         \* previews that were shown
    sent,          \* what a cloud provider received: [preview, approved]
    rows,          \* staged proposals in sequence order
    walk,          \* walk[u]: the history as reviewer u read it
    left           \* how many events of each kind are still to come

IsText(x) == x = [v |-> x.v, secret |-> x.secret, bytes |-> x.bytes]
ASSUME TextsAssumption ==
    /\ \A t \in Trees : \A ref \in DOMAIN t : \A x \in t[ref] : IsText(x)
    /\ \A r \in DOMAIN Receipts : IsText(Receipts[r].text)

(* A receipt covers citations of its own repository only (receipt.rs:652). *)
ASSUME ReceiptsAssumption ==
    \A r \in DOMAIN Receipts :
        Receipts[r].file \in Nat /\ \A ref \in Receipts[r].ranges : ref.repo = Receipts[r].repo

ASSUME AnswersAssumption ==
    \A a \in Answers :
        /\ a = [target |-> a.target, citations |-> a.citations, bytes |-> a.bytes, replays |-> a.replays]
        /\ a.citations \in Seq(Range(a.citations)) /\ a.bytes \in Nat

vars == <<world, settings, jobs, run, shown, sent, rows, walk, left>>

Kinds == {"load", "edit", "forget", "settings", "command", "cancel", "page", "review"}

Idle == [pc |-> "idle", mode |-> "none", job |-> 0, gaps |-> <<>>, approved |-> {},
         cloud |-> FALSE, prep |-> NoPreparation, task |-> <<>>, grant |-> {},
         proposal |-> <<>>, staged |-> 0, failed |-> 0]

NotStarted == [cursor |-> {}, read |-> <<>>, ceiling |-> 0, seen |-> <<>>, at |-> "idle"]

Spend(kind) == left[kind] > 0 /\ left' = [left EXCEPT ![kind] = @ - 1]

(* The bounds, one per kind of event, are the initial value of left.       *)
Init ==
    /\ \E g \in Graphs, t \in Trees :
          world = [graph |-> g.graph, bindings |-> g.bindings, tree |-> t, retained |-> DOMAIN Receipts]
    /\ settings \in [enabled : BOOLEAN, provider : {"local", "cloud"}, consented : BOOLEAN]
    /\ settings.consented => settings.provider = "cloud"
    /\ left \in Budgets
    /\ jobs = <<>> /\ rows = <<>> /\ shown = {} /\ sent = {}
    /\ run = [p \in Proc |-> Idle]
    /\ walk = [u \in Reviewer |-> NotStarted]

-----------------------------------------------------------------------------
(* The rest of the system                                                  *)

Load ==
    /\ Spend("load")
    /\ \E g \in Graphs : world' = [world EXCEPT !.graph = g.graph, !.bindings = g.bindings]
    /\ UNCHANGED <<settings, jobs, run, shown, sent, rows, walk>>

Edit ==
    /\ Spend("edit")
    /\ \E t \in Trees : world' = [world EXCEPT !.tree = t]
    /\ UNCHANGED <<settings, jobs, run, shown, sent, rows, walk>>

Guarded == {"guarded", "reading"}

(* Retained source is forgotten, but never under a retention guard.        *)
Forget ==
    /\ Spend("forget")
    /\ \A p \in Proc : run[p].pc \notin Guarded
    /\ \E r \in world.retained : world' = [world EXCEPT !.retained = @ \ {r}]
    /\ UNCHANGED <<settings, jobs, run, shown, sent, rows, walk>>

-----------------------------------------------------------------------------
(* SettingsStore                                                           *)

SetEnabled(on) == settings' = [settings EXCEPT !.enabled = on]

(* Leaving the cloud withdraws the consent that was given for it.          *)
SetProvider(provider) ==
    settings' = [settings EXCEPT !.provider = provider,
                                 !.consented = provider = "cloud" /\ @]

GrantConsent == settings.provider = "cloud" /\ settings' = [settings EXCEPT !.consented = TRUE]
RevokeConsent == settings' = [settings EXCEPT !.consented = FALSE]

ChangeSettings ==
    /\ Spend("settings")
    /\ \/ \E on \in BOOLEAN : SetEnabled(on)
       \/ \E provider \in {"local", "cloud"} : SetProvider(provider)
       \/ GrantConsent
       \/ RevokeConsent
    /\ UNCHANGED <<world, jobs, run, shown, sent, rows, walk>>

(* egress_policy                                                           *)
CloudAllowed == settings.enabled /\ settings.provider = "cloud" /\ settings.consented

-----------------------------------------------------------------------------
(* Jobs.  Only a running job ends, and it ends once.                       *)

Ending(job, status) ==
    IF job # 0 /\ jobs[job] = "running" THEN [jobs EXCEPT ![job] = status] ELSE jobs

CancelJob ==
    /\ Spend("cancel")
    /\ \E j \in DOMAIN jobs : jobs[j] = "running" /\ jobs' = [jobs EXCEPT ![j] = "cancelled"]
    /\ UNCHANGED <<world, settings, run, shown, sent, rows, walk>>

Cancelled(p) == run[p].job # 0 /\ jobs[run[p].job] = "cancelled"

Goto(p, r) == run' = [run EXCEPT ![p] = r]

(* A class run goes on with its next gap; any other command is over, its   *)
(* job failed unless it has ended before.                                  *)
Fail(p) ==
    IF run[p].mode = "class"
    THEN /\ Goto(p, [run[p] EXCEPT !.pc = "next", !.failed = @ + 1, !.gaps = Tail(@),
                                   !.prep = NoPreparation, !.task = <<>>, !.proposal = <<>>])
         /\ UNCHANGED jobs
    ELSE Goto(p, Idle) /\ jobs' = Ending(run[p].job, "failed")

-----------------------------------------------------------------------------
(* Commands                                                                *)

EscalationPreview(p) ==
    /\ run[p].pc = "idle" /\ Spend("command")
    /\ \E gap \in Gaps : Goto(p, [Idle EXCEPT !.pc = "plan", !.mode = "preview", !.gaps = <<gap>>])
    /\ UNCHANGED <<world, settings, jobs, shown, sent, rows, walk>>

(* The hash the user approves is of a preview that was shown; a caller may *)
(* also send none.                                                         *)
RunEscalation(p) ==
    /\ run[p].pc = "idle" /\ Spend("command")
    /\ \E gap \in Gaps, mode \in {"local", "cloud"}, hash \in {{}} \cup {{s} : s \in shown} :
          /\ mode = "local" => hash = {}
          /\ Goto(p, [Idle EXCEPT !.pc = "context", !.mode = mode, !.gaps = <<gap>>,
                                  !.job = Len(jobs) + 1, !.approved = hash])
    /\ jobs' = Append(jobs, "running")
    /\ UNCHANGED <<world, settings, shown, sent, rows, walk>>

(* Local only, so it reads the policy but never uses it.                   *)
RunClassEscalation(p) ==
    /\ run[p].pc = "idle" /\ Spend("command")
    /\ Goto(p, [Idle EXCEPT !.pc = "next", !.mode = "class", !.job = Len(jobs) + 1,
                            !.gaps = SetToSeq(Gaps)])
    /\ jobs' = Append(jobs, "running")
    /\ UNCHANGED <<world, settings, shown, sent, rows, walk>>

(* The class run as a whole failed when every instance did.                *)
BatchStatus(r) == IF r.staged = 0 /\ r.failed > 0 THEN "failed" ELSE "done"

(* run_staged_batch: the loop's head.  A cancelled or finished batch ends  *)
(* the job.                                                                *)
NextInstance(p) ==
    /\ run[p].pc = "next"
    /\ IF run[p].gaps # <<>> /\ ~Cancelled(p)
       THEN Goto(p, [run[p] EXCEPT !.pc = "plan"]) /\ UNCHANGED jobs
       ELSE Goto(p, Idle) /\ jobs' = Ending(run[p].job, BatchStatus(run[p]))
    /\ UNCHANGED <<world, settings, shown, sent, rows, walk, left>>

CheckContext(p) ==
    /\ run[p].pc = "context"
    /\ IF Cancelled(p) THEN Fail(p) ELSE Goto(p, [run[p] EXCEPT !.pc = "plan"]) /\ UNCHANGED jobs
    /\ UNCHANGED <<world, settings, shown, sent, rows, walk, left>>

-----------------------------------------------------------------------------
(* task_evidence::prepare                                                  *)

PreparationRest == UNCHANGED <<world, settings, shown, sent, rows, walk, left>>

ReadGraph(p) ==
    /\ run[p].pc = "plan"
    /\ IF Plannable(world.graph, Head(run[p].gaps))
       THEN /\ Goto(p, [run[p] EXCEPT !.pc = "preliminary",
                                      !.prep = Planned(world.graph, Head(run[p].gaps))])
            /\ UNCHANGED jobs
       ELSE Fail(p)
    /\ PreparationRest

ReadPreliminary(p) ==
    /\ run[p].pc = "preliminary"
    /\ LET prep == run[p].prep
       IN  IF world.graph = prep.graph
           THEN /\ Goto(p, [run[p] EXCEPT !.pc = "guards",
                               !.prep.preliminary = Selections(prep.graph, world.bindings, prep.plan)])
                /\ UNCHANGED jobs
           ELSE Fail(p)
    /\ PreparationRest

AcquireGuards(p) ==
    /\ run[p].pc = "guards"
    /\ Goto(p, [run[p] EXCEPT !.pc = "guarded"])
    /\ UNCHANGED jobs /\ PreparationRest

ReadAuthoritative(p) ==
    /\ run[p].pc = "guarded"
    /\ LET prep == [run[p].prep EXCEPT
                       !.authoritative = Selections(world.graph, world.bindings, run[p].prep.plan)]
       IN  IF world.graph = prep.graph /\ SlotIncluded(prep)
           THEN Goto(p, [run[p] EXCEPT !.pc = "reading", !.prep = prep]) /\ UNCHANGED jobs
           ELSE Fail(p)
    /\ PreparationRest

(* One turn of the acquisition loop.                                       *)
ReadRequest(p) ==
    /\ run[p].pc = "reading" /\ MoreToRead(run[p].prep)
    /\ LET prep == run[p].prep
           request == prep.plan.requests[NextRequest(prep)]
           bound == prep.authoritative[request.fact].binding
           to(q) == Goto(p, [run[p] EXCEPT !.prep = q]) /\ UNCHANGED jobs
       IN  \/ /\ ~Included(prep, request.fact, request.digest)
              /\ Fail(p)
           \/ /\ Included(prep, request.fact, request.digest)
              /\ request.refs = <<>>
              /\ to(Omitted(prep, "missing_citation"))
           \/ /\ Included(prep, request.fact, request.digest)
              /\ request.refs # <<>>
              /\ \E b \in bound :
                    IF CapturedReadable(prep, request, b, world.retained, Receipts)
                    THEN to(SuppliedCaptured(prep, b, Receipts[b.receipt]))
                    ELSE Fail(p)
           \/ /\ Included(prep, request.fact, request.digest)
              /\ request.refs # <<>> /\ bound = {}
              /\ LET text == LegacyText(request.refs[1], world.tree)
                 IN  IF text = {} THEN to(Omitted(prep, "legacy_read_unavailable"))
                     ELSE \E t \in text : to(Supplied(prep, t, WorkingTreeUnverified))
    /\ PreparationRest

(* The loop is over: the guards are released and the task is held to its   *)
(* contract.                                                               *)
FinishReading(p) ==
    /\ run[p].pc = "reading" /\ ~MoreToRead(run[p].prep)
    /\ IF HasMembership(run[p].prep) /\ Preparable(TaskOf(run[p].prep))
       THEN /\ Goto(p, [run[p] EXCEPT !.pc = "prepared", !.task = TaskOf(run[p].prep),
                                      !.prep = NoPreparation])
            /\ UNCHANGED jobs
       ELSE Fail(p)
    /\ PreparationRest

-----------------------------------------------------------------------------
(* llm::EgressFirewall                                                     *)

(* redact_payload                                                          *)
Redacted(text) == [text EXCEPT !.secret = "redacted"]

(* What a preview shows and its hash covers: the action and the redacted   *)
(* payload, in which the prompt names the task and its source basis.       *)
PreviewOf(t) ==
    [t EXCEPT !.evidence = [i \in DOMAIN t.evidence |->
                               [t.evidence[i] EXCEPT !.text = Redacted(t.evidence[i].text)]]]

(* Faulty variant: the preview that is shown last is what is granted.      *)
GrantWithoutComparing(preview, approved) == IF approved = {} THEN {} ELSE {preview}

(* consent_grant_for_approved_payload                                      *)
GrantFor(preview, approved) == IF approved = {preview} THEN {preview} ELSE {}

ShowPreview(p) ==
    /\ run[p].pc = "prepared" /\ run[p].mode = "preview"
    /\ shown' = IF CloudAllowed /\ HasKey THEN shown \cup {PreviewOf(run[p].task)} ELSE shown
    /\ Goto(p, Idle)
    /\ UNCHANGED <<world, settings, jobs, sent, rows, walk, left>>

(* The policy is read, the provider built and, for the cloud, the grant    *)
(* minted from the preview of the task as it was prepared this time.       *)
Authorize(p) ==
    /\ run[p].pc = "prepared" /\ run[p].mode \in {"local", "cloud", "class"}
    /\ LET grant == GrantFor(PreviewOf(run[p].task), run[p].approved)
       IN  IF run[p].mode = "cloud" /\ (~CloudAllowed \/ ~HasKey \/ grant = {})
           THEN Fail(p)
           ELSE /\ Goto(p, [run[p] EXCEPT !.pc = "authorized", !.cloud = CloudAllowed,
                                          !.grant = IF run[p].mode = "cloud" THEN grant ELSE {}])
                /\ UNCHANGED jobs
    /\ UNCHANGED <<world, settings, shown, sent, rows, walk, left>>

(* The last look at the job before the call.  A cancelled single run       *)
(* returns, a cancelled class run counts the instance as failed.           *)
CheckBeforeCall(p) ==
    /\ run[p].pc = "authorized"
    /\ IF Cancelled(p) THEN Fail(p) ELSE Goto(p, [run[p] EXCEPT !.pc = "calling"]) /\ UNCHANGED jobs
    /\ UNCHANGED <<world, settings, shown, sent, rows, walk, left>>

(* complete, and the broker on what comes back: an error or an empty       *)
(* completion, an answer that is not valid, or a proposal.                 *)
Permitted(r) == r.mode = "cloud" => r.cloud /\ r.grant = {PreviewOf(r.task)}

CallModel(p) ==
    /\ run[p].pc = "calling"
    /\ IF Permitted(run[p])
       THEN /\ sent' = IF run[p].mode = "cloud"
                       THEN sent \cup {[preview |-> PreviewOf(run[p].task), approved |-> run[p].approved]}
                       ELSE sent
            /\ \/ Fail(p)
               \/ \E raw \in Answers :
                     /\ ValidAnswer(run[p].task, raw)
                     /\ Goto(p, [run[p] EXCEPT !.pc = "answered",
                                               !.proposal = ProposalOf(run[p].task, raw)])
                     /\ UNCHANGED jobs
       ELSE Fail(p) /\ UNCHANGED sent
    /\ UNCHANGED <<world, settings, shown, rows, walk, left>>

(* stage_completed_prepared_job_proposal: a job that was cancelled while   *)
(* the model worked still keeps the answer; one that has finished does     *)
(* not.                                                                    *)
StageAnswer(p) ==
    /\ run[p].pc = "answered"
    /\ LET r == run[p]
           content == Content(r.task, r.proposal, r.job)
           single == [r EXCEPT !.pc = "staged", !.task = <<>>, !.proposal = <<>>]
           instance == [r EXCEPT !.pc = "next", !.staged = @ + 1, !.gaps = Tail(@),
                                 !.task = <<>>, !.proposal = <<>>]
       IN  IF /\ jobs[r.job] \in {"running", "cancelled"}
              /\ Buildable(r.task, r.proposal) /\ Fits(content)
           THEN /\ rows' = Persisted(rows, content)
                /\ Goto(p, IF r.mode = "class" THEN instance ELSE single)
                /\ UNCHANGED jobs
           ELSE Fail(p) /\ UNCHANGED rows
    /\ UNCHANGED <<world, settings, shown, sent, walk, left>>

(* record_egress, then finish_execution.                                   *)
FinishRun(p) ==
    /\ run[p].pc = "staged"
    /\ Goto(p, Idle)
    /\ jobs' = Ending(run[p].job, "done")
    /\ UNCHANGED <<world, settings, shown, sent, rows, walk, left>>

-----------------------------------------------------------------------------
(* The history                                                             *)

(* list_staged_proposals: the first page starts a walk, every other page   *)
(* follows the cursor of the one before.                                   *)
ListPage(u) ==
    /\ Spend("page")
    /\ LET first == walk[u].at # "more"
           page == Page(rows, IF first THEN {} ELSE walk[u].cursor)
           read == (IF first THEN <<>> ELSE walk[u].read) \o page.sequences
           old == IF first THEN <<>> ELSE walk[u].seen
       IN  walk' = [walk EXCEPT ![u] =
                [cursor |-> page.next, read |-> read, ceiling |-> page.ceiling,
                 seen |-> [s \in Range(read) |->
                              IF s \in Range(page.sequences) THEN rows[s] ELSE old[s]],
                 at |-> IF page.next = {} THEN "end" ELSE "more"]]
    /\ UNCHANGED <<world, settings, jobs, run, shown, sent, rows>>

(* record_agent_decision: the window sends the revision it shows and then  *)
(* shows the row that comes back; a refused decision changes nothing.      *)
RecordAgentDecision(u) ==
    /\ Spend("review")
    /\ \E s \in Range(walk[u].read), decision \in {"accepted", "rejected"}, note \in {0, 1} :
          LET row == Reviewed(rows[s], decision, note)
          IN  /\ CurrentRevision(rows[s], walk[u].seen[s].rev)
              /\ RecordBytes(row) <= MaxRecord
              /\ rows' = [rows EXCEPT ![s] = row]
              /\ walk' = [walk EXCEPT ![u].seen[s] = row]
    /\ UNCHANGED <<world, settings, jobs, run, shown, sent>>

-----------------------------------------------------------------------------
Command(p) ==
    \/ EscalationPreview(p) \/ RunEscalation(p) \/ RunClassEscalation(p)
    \/ NextInstance(p) \/ CheckContext(p)
    \/ ReadGraph(p) \/ ReadPreliminary(p) \/ AcquireGuards(p) \/ ReadAuthoritative(p)
    \/ ReadRequest(p) \/ FinishReading(p)
    \/ ShowPreview(p) \/ Authorize(p) \/ CheckBeforeCall(p) \/ CallModel(p)
    \/ StageAnswer(p) \/ FinishRun(p)

Next ==
    \/ Load \/ Edit \/ Forget \/ ChangeSettings \/ CancelJob
    \/ \E p \in Proc : Command(p)
    \/ \E u \in Reviewer : ListPage(u) \/ RecordAgentDecision(u)

-----------------------------------------------------------------------------
(* Properties                                                              *)

(* Whatever a cloud provider received is, byte for byte after redaction, a *)
(* payload that was shown to the user and the one they approved, although  *)
(* the run prepares its task anew from a graph and working trees that may  *)
(* have changed since (egress.rs consent_grant_for_approved_payload).      *)
SentIsApproved ==
    \A s \in sent : /\ s.approved = {s.preview} /\ s.preview \in shown
                    /\ \A e \in Range(s.preview.evidence) : e.text.secret = "redacted"

(* However the reading of the evidence went (limits reached, requests      *)
(* omitted, captured and working-tree text mixed), the report it leaves    *)
(* adds up: the host never prepares a task that its own contract refuses   *)
(* for its accounting (source_basis.rs validate).                          *)
SelectionAccounts ==
    \A p \in Proc : run[p].pc = "reading" /\ ~MoreToRead(run[p].prep) /\ HasMembership(run[p].prep)
                        => BasisAccounts(TaskOf(run[p].prep))

(* The store finds the cited evidence again from the references alone for  *)
(* every answer the broker accepts, also when several pieces of evidence   *)
(* cite the same span (staging.rs citation_assignment).                    *)
AcceptedIsStageable ==
    \A p \in Proc : run[p].pc = "answered" => Reconstructed(run[p].task, run[p].proposal)

(* A staged proposal can always be rejected: no review before it leaves    *)
(* the record too large for a rejection without a note                     *)
(* (staging.rs check_review_headroom).                                     *)
StagedIsReviewable ==
    \A i \in DOMAIN rows : RecordBytes(Rejected(rows[i], rows[i].rev + 1)) <= MaxRecord

(* A walk along the cursors reads every row that existed at its first page *)
(* exactly once, newest first, while rows are added (staging.rs list).     *)
PagesCoverHistory ==
    \A u \in Reviewer : walk[u].at = "end" =>
        walk[u].read = [i \in 1..walk[u].ceiling |-> walk[u].ceiling - i + 1]

(* Every staged proposal is listed and can be decided.                     *)
StagedIsReachable == StagedIsReviewable /\ PagesCoverHistory

(* A decision replaces only a review that the window which made it had     *)
(* shown: two windows never overwrite each other unseen (staging.rs        *)
(* review).                                                                *)
ReviewIsOfSeen ==
    [][\A s \in DOMAIN rows : rows'[s].rev # rows[s].rev =>
          \E u \in Reviewer : /\ walk'[u] # walk[u]
                              /\ s \in DOMAIN walk[u].seen /\ walk[u].seen[s] = rows[s]]_vars

Spec == Init /\ [][Next]_vars

-----------------------------------------------------------------------------
(* The inductive invariant of ModelCallProofs.                             *)

EvidenceShaped(s) ==
    /\ s \in Seq(Range(s))
    /\ \A e \in Range(s) :
          /\ e = [id |-> e.id, ref |-> e.ref, text |-> e.text, fact |-> e.fact, origin |-> e.origin]
          /\ IsText(e.text)

PrepShaped(q) == q = [f \in DOMAIN NoPreparation |-> q[f]] /\ EvidenceShaped(q.evidence)

TaskShaped(t) ==
    /\ t = [gap |-> t.gap, source |-> t.source, label |-> t.label, evidence |-> t.evidence,
            candidates |-> t.candidates, sources |-> t.sources, snapshot |-> t.snapshot,
            selected |-> t.selected, report |-> t.report]
    /\ EvidenceShaped(t.evidence)

CommandShaped(r) == r = [f \in DOMAIN Idle |-> r[f]]

(* A command approves only what was shown; once it is authorised for the   *)
(* cloud its grant is what it approved; its answer is one the broker       *)
(* accepts for its task.                                                   *)
CommandFits(r, previews) ==
    /\ CommandShaped(r) /\ r.approved \subseteq previews
    /\ r.pc \in {"preliminary", "guards", "guarded", "reading"} => PrepShaped(r.prep)
    /\ r.pc \in {"prepared", "authorized", "calling"} => TaskShaped(r.task)
    /\ r.pc \in {"authorized", "calling"} /\ r.mode = "cloud" => r.grant = r.approved
    /\ r.pc = "answered" =>
          \E raw \in Answers : ValidAnswer(r.task, raw) /\ r.proposal = ProposalOf(r.task, raw)

RunsFit == run = [p \in Proc |-> run[p]] /\ \A p \in Proc : CommandFits(run[p], shown)

WorldFits ==
    /\ world = [graph |-> world.graph, bindings |-> world.bindings, tree |-> world.tree,
                retained |-> world.retained]
    /\ world.tree \in Trees /\ world.retained \subseteq DOMAIN Receipts

RedactedPreview(v) == \A e \in Range(v.evidence) : e.text.secret = "redacted"

ConsentFits ==
    /\ \A v \in shown : RedactedPreview(v)
    /\ \A s \in sent : s.approved = {s.preview} /\ s.preview \in shown

RowShaped(row) == row = [content |-> row.content, rev |-> row.rev, decision |-> row.decision, note |-> row.note]

RowFits(row) == RowShaped(row) /\ row.content.bytes \in Nat /\ row.rev \in Nat /\ ReviewHeadroom(row)

RowsFit == rows \in Seq(Range(rows)) /\ \A i \in 1..Len(rows) : RowFits(rows[i])

(* What a window shows of a row is the row or an earlier revision of it.   *)
SeenFits(old, row) == RowShaped(old) /\ old.rev \in 0..row.rev /\ (old.rev = row.rev => old = row)

(* The rows that were read so far run down from the ceiling, and the       *)
(* cursor stands at the last of them.                                      *)
WalkFits(w, history) ==
    /\ w = [cursor |-> w.cursor, read |-> w.read, ceiling |-> w.ceiling, seen |-> w.seen, at |-> w.at]
    /\ w.ceiling \in 0..Len(history) /\ Len(w.read) \in 0..w.ceiling
    /\ w.read = [i \in 1..Len(w.read) |-> w.ceiling - i + 1]
    /\ w.at = "more" => w.cursor = {[ceiling |-> w.ceiling, before |-> w.ceiling - Len(w.read) + 1]}
    /\ w.at = "end" => Len(w.read) = w.ceiling
    /\ w.seen = [s \in Range(w.read) |-> w.seen[s]]
    /\ \A s \in Range(w.read) : SeenFits(w.seen[s], history[s])

WalksFit == walk = [u \in Reviewer |-> walk[u]] /\ \A u \in Reviewer : WalkFits(walk[u], rows)

(* A plan: the source, the gap, then candidates up to the limit.           *)
PlanFits(plan) ==
    /\ DOMAIN plan.requests = 1..Len(plan.requests)
    /\ Len(plan.requests) \in 2..MAX_REQUESTS
    /\ \A i \in DOMAIN plan.requests :
          /\ plan.requests[i].fact = NodeFact(plan.requests[i].fact[2])
          /\ (plan.requests[i].candidate <=> i > 2)
    /\ plan.requests[1].fact = NodeFact(plan.source) /\ plan.requests[2].fact = NodeFact(plan.gap)
    /\ plan.unplanned \in Nat /\ (plan.unplanned > 0 => Len(plan.requests) = MAX_REQUESTS)
    /\ \A e \in Range(plan.slot) : e.label = plan.label /\ Range(plan.slot) = {e}

(* A preparation that has read nothing yet.                                *)
FreshFits(q) ==
    /\ PlanFits(q.plan) /\ q.report = Report(q.plan) /\ q.selected = {}
    /\ q.evidence = <<>> /\ q.candidates = <<>> /\ q.sources = <<>>

(* What the facts of the plan and of the slot are bound to.                *)
SelectionsFit(q) ==
    /\ \A f \in PlannedFacts(q.plan) : \A b \in q.authoritative[f].binding : q.authoritative[f].binding = {b}
    /\ \A f \in q.selected \cup {EdgeFact(e) : e \in Range(q.plan.slot)} :
          \A b \in q.authoritative[f].binding : q.authoritative[f].digest = {b.digest}

(* The counts of the report, and each read request selected and justified. *)
ReportFits(q) ==
    LET r == q.report
    IN  /\ r = [x \in DOMAIN Report(q.plan) |-> r[x]]
        /\ r.lookahead = Len(q.plan.requests) /\ r.attempts \in 0..r.lookahead
        /\ r.notRead = r.lookahead - r.attempts
        /\ r.evidence = Len(q.evidence) /\ r.candidates = Len(q.candidates)
        /\ r.validated \in 0..ValidationBytes
        /\ (r.tail <=> q.plan.unplanned > 0) /\ r.stop = "neighborhood_exhausted"
        /\ DOMAIN r.omissions = 1..Len(r.omissions) /\ r.omissions \in Seq(Range(r.omissions))
        /\ r.attempts = Len(q.evidence) + Len(r.omissions)
        /\ q.selected = {q.plan.requests[i].fact : i \in 1..r.attempts}
        /\ q.selected \subseteq {e.fact : e \in Range(q.evidence)} \cup {o.fact : o \in Range(r.omissions)}
        /\ \A i \in DOMAIN r.omissions :
              LET o == r.omissions[i]
              IN  /\ o.index \in Nat /\ o.index < r.attempts /\ o.fact \in q.selected
                  /\ i > 1 => r.omissions[i - 1].index < o.index
                  /\ o.reason = "legacy_read_unavailable" => q.authoritative[o.fact].binding = {}

(* Each piece of evidence is of a selected fact, as bound, and numbered.   *)
EvidenceFits(q) ==
    /\ q.evidence \in Seq(Range(q.evidence))
    /\ \A k \in 1..Len(q.evidence) :
          LET e == q.evidence[k]
          IN  /\ e.id = k /\ e.fact \in q.selected /\ e.origin.file \in Nat
              /\ e.origin.receipt = {b.receipt : b \in q.authoritative[e.fact].binding}
              /\ \A b \in q.authoritative[e.fact].binding : b.repo = e.ref.repo
    /\ q.report.validated = Total([i \in DOMAIN q.evidence |-> q.evidence[i].origin.file])

(* Evidence is of a candidate or of an end, and of ends there are two.     *)
MembershipFits(q) ==
    /\ q.candidates \in Seq(Range(q.candidates)) /\ q.sources \in Seq(Range(q.sources))
    /\ \A s \in Range(q.sources) :
          s \in 1..Len(q.evidence) /\ q.evidence[s].fact \in {NodeFact(q.plan.source), NodeFact(q.plan.gap)}
    /\ \A c \in Range(q.candidates) :
          \E k \in 1..Len(q.evidence) : c.ids = {k} /\ q.evidence[k].fact = NodeFact(c.node)
    /\ Len(q.evidence) = Len(q.candidates) + Len(q.sources)
    /\ Len(q.candidates) <= MAX_CANDIDATES
    /\ Len(q.sources) <= 2 /\ Len(q.sources) <= q.report.attempts
    /\ q.report.attempts <= 2 => q.candidates = <<>>

AccountFits(q) ==
    PlanFits(q.plan) /\ SelectionsFit(q) /\ ReportFits(q) /\ EvidenceFits(q) /\ MembershipFits(q)

PreparationAccounts(r) ==
    /\ r.pc \in {"preliminary", "guards", "guarded"} => FreshFits(r.prep)
    /\ r.pc = "reading" => AccountFits(r.prep)

(* Every preparation under way accounts for what it has read: inductive    *)
(* together with EscalationInv.                                            *)
AccountsInv == \A p \in Proc : PreparationAccounts(run[p])

(* Commands, consent and history together: inductive.                      *)
EscalationInv == RunsFit /\ WorldFits /\ ConsentFits /\ RowsFit /\ WalksFit
=============================================================================
