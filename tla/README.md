# Cartograph: TLA+ specifications and proofs

Cartograph is a desktop application (Rust, Tauri 2) that recovers a knowledge
graph from source repositories, shows it, and lets bounded model calls propose
what static extraction cannot decide. Several application processes may share
one data directory. This directory holds TLA+ models of its concurrent core,
TLC configurations for small instances, and TLAPS proofs for all instances.

## 1. The system

### Components, state, operations

| Component | State | Operations |
|---|---|---|
| Job store and execution ownership (`jobs.rs`, `jobs/execution.rs`, `job_execution.rs`) | `jobs` and `job_attempts` rows in `state.db`; one lock file per job | enqueue, plan, reserve, claim, progress, finish, fail, cancel, clear, recover at startup |
| Investigation store (`jobs/investigations/*`) | one record per task with revision, event log, pending step, usage; its job row | start, claim, advance, await consent, decide, begin call, finish, stop, cancel, recover |
| Investigation worker, runtime, commands (`investigations/*`) | worker threads; per-process table of live tasks with the consent preview | run loop, polls, provider call, bounded retries, cleanup |
| Investigation context (`investigations/context.rs`, `evidence.rs`, `context-hub`, `agents/investigation`) | the frozen graph, the pages and evidence given so far, the saved ledger | freeze, query, read evidence, publish input, admit a result |
| Preflight runs and findings (`main.rs`, `findings.rs`) | current run, epoch, per-repository epochs of the last writes; the findings register | begin, cancel, persist, reserve and perform a reconciliation |
| Sources (`sources.rs`, `source_access.rs`, `ingest/managed.rs`) | registry rows with a ready flag; slots with a published checkout; OS locks; the graph's facts per repository | register, plan, lock, invalidate, clone and swap, extract, relink, publish, clear |
| Ordered parallel map (`source-walk/parallel.rs`) | claim and merge counters, ready results, stop flag under one mutex, two condition variables | claim, deliver, take, merge, stop, join |
| Extractors (`adapters-lang-*`, `adapters-fw`, `iac`) | per process and repository, the facts of each file under a hash | extract a file, reuse, merge, resolve over the repository |
| Assembly of a recovery (`main.rs`, `events`, `dynamic`) | none | join the extractors' facts with environment files, Terraform state, Pulumi deployments and traces, in an order |
| Plugin host (`adapters-plugin-host`, `settings.rs`) | artifacts on disk; enablement and gate verdicts by artifact hash | discover, gate, enable, list, load, route |
| Graph store (`core-graph`, `main.rs`) | nodes, edges and source bindings in `graph.db` | reconcile a repository, stitch, relink decision records, bind, clear |
| Source capture and receipts (`source-capture`, `primary_source.rs`) | content-addressed captures under quotas, receipts, bindings; one advisory lock per source | capture, persist receipts, publish, read under a guard, preview and forget |
| Escalation and egress (`main.rs`, `egress.rs`, `task_evidence*`, `llm`) | previews, consent, policy, egress log | plan and read evidence, preview, approve, run, run a class, change settings |
| Bounded provider calls (`llm/bounded.rs`) | one call with its permit, deadline and outcome | prepare, authorise, encode, send, read, decode |
| Proposal staging (`agents/staging.rs`, `proposals.rs`) | proposals, revisions and reviews in `proposals.sqlite` | persist, review, list in pages |
| Flow tracer and semantic resolver (`flowtracer`, `semantic`) | values computed from the graph | trace, propose, evaluate, overlay, preview |
| Settings, metrics, preflight probes, workbench, UI | rows, files, documents, screens | single reads and writes |

### How they interact

A command of the UI enqueues a job, takes the job's lock, claims the row, and
then does its work in a thread: an ingest takes source locks, invalidates,
clones, extracts files with the ordered parallel map, writes the graph, sets
readiness and finishes the job. An investigation is a job with a record of its
own; its worker advances the record by compare-and-set on a revision, looks at a
frozen graph in pages, waits for the user's consent through the runtime table,
calls the provider and publishes the result. A recovery extracts with built-in
and plugin adapters, joins what a running system showed, captures the text it
parsed, and replaces one repository's part of the shared graph. An escalation
prepares a task from that graph twice, before and after the user approved it,
and stages the answer for review. Preflights and recoveries write one findings register. At startup a
process settles the jobs and then the investigations of workers that died.

### What is hard

* Several processes and threads share rows that outlive them; only file locks
  tell a live worker from a dead one.
* A plan, a revision, a candidate list or a consent preview is read in one
  transaction and used in a later one.
* A crash may fall between any two transactions, between a file rename and the
  row that describes it, and between sending a model call and storing its answer.
* Slow runs finish after newer ones.
* Bounded logs, tables and windows fill up.
* Lock plans cover several sources and are tried while others hold parts.
* Text that was approved, captured or cited may change before it is sent, read
  or shown; an artifact may be replaced after it was vetted.
* Four databases take part in one recovery, each with its own transaction.
* Facts of many extractors meet in one graph and may hide each other's gaps; a
  cache may return what a changed neighbour would have made different.

The hazards are listed one by one, with their lines, in `PROJECT.json`.

### What makes each component correct

* Jobs: at most one live worker; nothing interrupts or supersedes it; outcomes
  are final; a claimed job can always be reserved again; orphans are settled.
* Investigations: records always load; endings always fit in the log; a cloud
  call is sent only for the approved step and once; an unanswered call is
  reported as unknown; task and job end alike; a worker always ends.
* Preflights: the register holds the newest write; a cancelled run writes
  nothing; an answer is what the register holds.
* Sources: what is available has a checkout and matching facts; a reader sees
  one checkout; no checkout is lost; no command waits for another.
* Ordered map: indistinguishable from the serial loop, in bounded memory, and
  it returns.
* Extractors: a recovery from the cache equals a fresh one; what is confirmed is
  declared, what is external is not in the repository, and what was noticed and
  could not be followed is a gap.
* Assembly and plugins: no gap is hidden by another extractor's placeholder,
  every site is accounted for, and plugin facts come from bytes that passed the
  gate and were enabled.
* Graph: every fact is attested, edges have their ends, a repository's recovery
  leaves the others' facts alone, and recovering again changes nothing.
* Retained source: complete, within quota, readable while it is held; a forget
  deletes what was shown.
* Investigation context: pages leave no hole and stay in the allowed scope; an
  answer rests on the saved ledger.
* Escalation and calls: what is sent is what was approved; the report accounts
  for every request; the outcome says truly whether the provider saw the call.
* Staging: an accepted answer can be stored, a stored one found and decided, and
  a decision is on what was seen.
* Flows: a flow called complete has every hop; an overlay only fills gaps.

## 2. Modules

| Module | Models | Notes |
|---|---|---|
| `JobLifecycle` | what a job promises | abstract; a job is a status, a generation and a live flag |
| `JobExecution` | `jobs.rs`, `jobs/execution.rs`, `job_execution.rs`, `recover_jobs`, `start_job` | implements `JobLifecycle` |
| `Investigation` | store, worker, runtime, commands and recovery, composed | uses the job lock that `JobExecution` justifies: held exactly while the worker runs |
| `FrozenContext` | `investigations/context.rs`, `evidence.rs`, `context-hub`, `agents/investigation` | what the worker of `Investigation` does inside one prepared input |
| `BoundedCall` | `llm/bounded.rs` | what `Investigation` calls a provider call |
| `PreflightRuns` | `PreflightRuns` of `main.rs`, `replace_for_if` | |
| `SourceAccess` | `source_access.rs`, `sources.rs`, `managed.rs`, the source commands of `main.rs` | registry, disk and graph composed with the commands |
| `SerialMap` | the loop `for item { merge(item, work(item)?)? }` | abstract |
| `OrderedMap` | `map_ordered` | implements `SerialMap` |
| `Placeholders` | `core-graph/placeholder.rs` | facts, endpoints that nobody declares, reconciliation |
| `GoAdapter`, `PythonAdapter`, `JvmAdapter`, `TsResolution`, `TsAdapter`, `TerraformAdapter` | the extractor of each language | operators on sources and trees |
| `Adapters` | the incremental extraction around them | composes the six |
| `Observations` | `events`, `dynamic` | operators |
| `Assembly` | `extract_tree_with_primary` | extends `Observations` |
| `PluginGate` | `adapters-plugin-host`, plugin commands, the recovery that loads plugins | composes gate, disk and `Assembly` |
| `GraphStore` | `core-graph` | operators, one per transaction |
| `GraphIngest` | reconcile, stitch, relink, clear of `main.rs` | uses `GraphStore` |
| `RetainedSource` | `source-capture`, `primary_source.rs` | uses `GraphStore` |
| `TaskEvidence` | `task_evidence.rs`, `task_evidence/planning.rs`, `agents/prepared.rs`, `source_basis.rs` | operators |
| `ProposalStaging` | the broker of `agents/lib.rs`, `agents/staging.rs` | operators, extends `TaskEvidence` |
| `Escalation` | preview, run, class run, settings, reviews | composes the two |
| `FlowTracer`, `Semantic`, `FlowPreview` | `flowtracer`, `semantic`, the commands that trace | each extends the one before |
| `JobExecutionProofs`, `InvestigationProofs`, `PreflightRunsProofs`, `SourceAccessProofs`, `GraphIngestProofs` | | proofs about the module of the same name |
| `RetainedSourceProofs` | | proofs about `RetainedSource` and `FrozenContext` |
| `RecoveryProofs` | | proofs about `OrderedMap`, `FlowTracer`, `FlowPreview` and `PluginGate` |
| `ModelCallProofs` | | proofs about `BoundedCall` and `Escalation` |
| `MC*` | instances for TLC | model values, symmetry, small trees and graphs |

An action is one SQLite transaction, one critical section, one system call, or
one crash. The name of a definition follows the function it translates; the
table `map` of `PROJECT.json` gives its lines. Definitions marked *Faulty
variant* are plausible mistakes, used to see that a property notices them; no
specification uses them.

### Correspondence, and what is abstracted

* **JobExecution.** `status`, `attempt`, `detail` are the row; `lockFile` is the
  lock inode and whether it was synced; `holder` its owner. `plan` and `exec` are
  `ClaimPlan` and `JobExecution`. Owner tokens are numbers drawn in order, since
  random tokens do not collide. All clones of one `JobExecution` are one holder.
  `Faults` lets a worker end without settling its row, by a panic or by a failed
  last write (`report_failure` ignores it).
* **Investigation.** `task` is the stored record without texts and usage
  counters, `rev` the revision, `seq` the length of the event log, `ledger` a
  counter that tells prepared inputs apart. The worker's program counter names
  the next store operation; reads that precede a compare-and-set are steps of
  their own. `called` and `granted` are history variables.
* **PreflightRuns.** The register of a repository is named by the epoch of its
  last write. `stopped` and `sawDone` are history variables.
* **SourceAccess.** A checkout is named by the command that cloned it, and so are
  the facts extracted from it. `Error` stands for any I/O, storage, git or parser
  failure of a step. Local sources, owned by the user, take no lock and are left
  out. Whether the job row records the outcome is the subject of `JobExecution`.
* **OrderedMap.** The effect of both closures on each item is chosen at the start.
  The flag and the notification of `stop` are one action: a worker in between
  sees the flag. Spurious wake-ups re-check their condition and change nothing.
  With one worker the code runs the serial loop itself.

* **Placeholders, adapters.** A path, an import path and a qualified name are
  sequences of segments, an id a tuple that begins with its scheme. A file's
  source is the record of the sites that the tree-sitter queries match; the
  queries themselves are not modelled. An optional value is a set of at most
  one element. What a file yields is a function of the file; what needs the whole
  repository (pending calls, imports, placeholders) is the function that
  completes it. `Adapters` keeps the caches: `FileKey` is what the hash covers.
* **Observations, Assembly, PluginGate.** A plugin build stands for its bytes and
  their hash and is the function from paths to answers; the golden corpus beside
  it may change on its own, as on disk. A fact of a guest is told apart by its
  `props`: an object with provenance (`prov`), an object without (`object`), or JSON
  that is no object (`other`), which the host can neither pin nor fill. `vouched` and `granted` are history
  variables. `found` is what the built-in extractors and the artifacts return.
* **GraphStore, GraphIngest.** A row is its label, the repositories that its
  evidence cites, the placeholder flag and the rest. An observation (a trace, a
  deployed resource) has evidence that names no repository (`dynamic/lib.rs:500`), so
  it cites none. The digest of a row is the row. `TreesAssumption` is what extraction
  promises of a tree: an id is the repository's own or shared (extractors prefix ids
  with their repository, except those of modules and channels), evidence is in no
  other repository, endpoints are nodes (`close_over_endpoints`). The snapshot that a relink was computed from is a value and is compared
  under the mutex.
* **RetainedSource.** A capture is the set of the contents it names; equal
  contents are stored once. Locks are tried and never waited for. The staged
  citations that a forget previews too are left out: like bindings, which are kept,
  they change under no guard. `forgotten` is a history variable.
* **TaskEvidence, ProposalStaging, Escalation.** A text is a version, the secret
  it may hold and a size; redaction replaces the secret. Texts of prompts are
  left out. What a preview showed and what was sent are history variables.
* **BoundedCall.** A byte of a response is a token (bracket, quote, escape, other);
  encodings are sizes before and after.
* **FrozenContext.** A fact is a key in snapshot order with its size and the
  lengths of its spans. A page is cut by size twice, by the hub and by the host
  that adds the evidence options. `pages` remembers what was shown. Earlier turns
  of a follow-up, rules on prose, redaction and the size of a prompt are left out.
* **FlowTracer, Semantic, FlowPreview.** `GapIds` are the ids that begin with `gap:`,
  which count as gaps also where the slice has no such node. One step takes one entry off the stack of
  the depth-first walk. Texts and embeddings are a similarity in tenths.

## 3. Runs

| Run | Instance | Shows |
|---|---|---|
| `job_safety` | 2 processes, 3 threads, 1 job, 2 generations, 2 crashes or power losses, faults; beside it a row of any status from before attempts; or 2 investigations, 1 live slot, 1 process, 1 crash, log of 10 events | `ExclusiveOwner`: one live owner with its own lock file and progress; `RowsRespected`: no live worker interrupted, the old row never adopted, outcomes final; `JobLifecycle` implemented; `LiveWithinCap`: never more live tasks than recovery accepts |
| `investigation` | 1 task of up to 2 calls, 2 processes, 2 crashes, 1 storage fault, log of 14 events | `RecordUsable`, `CallsAccounted`, `EndsTogether`, `FinishKept`, `RecordKept`, and a worker ends |
| `preflight` | 2 runs, 2 recoveries, one of them of two repositories, failing commits and read-backs | a cancelled run writes nothing; `RegisterTrusted`: order, answers, the later run wins |
| `source_access` | 2 sources, a single add, a system add, an ingest, a reader, 2 processes, 1 crash | coherence, stable reads, no checkout lost, no step outside its lock plan |
| `progress` | 1 process, 2 jobs and 2 crashes; or 2 adds, an ingest and a crash | an orphaned running row is settled; every source command ends |
| `stores` | 2 repositories with two trees each in one graph; or a source with two trees, another source's capture, 2 recoveries, a reader and a user who forgets, under quotas; or one investigation of up to 3 tool calls over 3 graphs | `GraphWhole`, `OthersKept`; `RetainedIsBacked`, `ForgetsWhatWasShown`; `ContextIsWhole` |
| `recovery` | trees of each language with edits and two commits; or a plugin with two builds and two corpora in two places and 2 changes, and the assemblies of 288 inputs; or every graph of up to 4 of 9 links and a gap; or 4 items, 2 workers, window 2; or 2 scans and a recovery of one repository, with cancels and failures | `IncrementalIsFresh`, `ClaimsHold`, `NoticedIsStated`; `PluginFactsAreGated`, `GapNotHidden`, `SitesAccounted`; `TraceIsWhole`, `OverlayOnlyFills`; `BacklogSound`, `ImplementsSerial`, `CallReturns`; `AllEnd`: every scan and every reconciliation ends |
| `model_calls` | a gap with four candidates, 4 graphs, 4 working trees, one process and two reviewers; or one provider call over 4 hosts, 6 actions and 15 responses | `SentIsApproved`, `SelectionAccounts`, `AcceptedIsStageable`, `StagedIsReachable`, `ReviewIsOfSeen`; `CallIsTrue` |
| `source_readd` | 2 adds | **violation**, finding 1 |
| `terraform_moved` | two Terraform root modules, a call that moves | **violation**, finding 2 |
| `reingest` | the instance of `stores` | **violation**, finding 3 |
| `plugin_unpinned` | the plugin part of `recovery` | **violation**, finding 4 |

In `job_safety`, `progress`, `stores`, `recovery` and `model_calls` the parts named
with *or* share no state: a behaviour exercises one of them while the others rest.

**Bounds.** One job and two generations suffice for ownership: every conflict is
about one row, and two generations give a stale and a current owner. Two jobs
are needed only where one startup treats several candidates. The log of 14
events is chosen so that it fills before the task ends (the code's 96 with its
larger limits behaves alike: the rule is about the distance to the limit). Where two
tasks compete for a slot, 10 events let local and cloud tasks complete.
Two sources are the smallest number with a read member besides a written one.
With four items and a window of two a worker waits while the caller fails, the
case in which a wake-up could be lost; failures are in the first two items, one
that arrives early and one that decides; `Ahead` is 1 where the code has 4.
Two repositories suffice for the graph: what a third owns is to each of them
what the second owns. Their trees name one channel through code, a trace and a
deployed resource, so that each may be what holds it last. The quotas of the retained source hold two captures, three
rows and one receipt, so each of them is met. A plugin is installed from the
start, and two changes replace its bytes and its enablement between any two
steps of gate and recovery. One of its builds answers a node with an object as props,
a node with props that are no object and an edge with its own provenance, and
nothing at all for one file. The Terraform trees of `recovery` are edited without
moving a module call; `terraform_moved` adds that edit (finding 2). The depth bound of 3 is met by graphs of four links.
Page sizes are chosen so that a page fits the hub's limit and not the host's.
Of four candidates the plan holds three and a task two, so both limits cut.

**Deadlock** is not checked: the instances stop because their identifiers, commands
and generations are used up while the application would idle, and a call of
`map_ordered` ends. That nothing waits forever is what the liveness properties
state; a stuck state violates them.

**Fairness.** Worker threads, startup steps and commands take their next step:
each is a bounded system call, a transaction, or a wait with a deadline.
`OrphanIsRecovered` assumes that the user restarts a process that went down, and
nothing of workers. `WorkerEnds` assumes nothing of the user: the consent wait
and the provider call end by their deadlines. `CallReturns` assumes that the
closures end. `CommandsEnd` and `AllEnd` assume that a command under way
continues; locks are tried, the write mutex is released by its holder.

## 4. Findings

1. *Mutual re-add.* Two adds of different repositories can leave both sources of
   the graph unavailable. Adding either again is refused because the other is not
   ready (`source_access.rs:127`), although the message and SPEC-05 tell the user
   to add again. Clearing the graph, or a manifest naming both, repairs it.
2. *Moved module call.* The cached extraction of a Terraform file is reused with
   the ancestors of the call that first reached it (`iac/lib.rs:157`). When the
   call moves to another root module, the cycle check uses the old ancestors and
   the recovery differs from a fresh one, against `iac/lib.rs:797` and SPEC-00.
3. *Re-ingest.* A reconcile decides which shared nodes are needed before the stitch
   withdraws observed backings, and counts observed edges that go with the
   repository's own deleted nodes (`main.rs:1490`). A channel that only such an observation held stays
   and is deleted by the next recovery of the unchanged tree, against
   `user_stories.md:235`. That nothing else is left over is proved
   (`GraphIsWhole`); `ReloadIsStable` states it.
4. *Unpinned plugin fact.* The host writes the plugin, the artifact hash and missing
   provenance into the props of a fact only where these are a JSON object
   (`adapters-plugin-host/src/lib.rs:479`, `524`, `532`), and accepts any JSON. Other
   facts leave unpinned, against the comment at `lib.rs:331`, ADR-0017 and the test
   comment at `tests/integration.rs:221`. The gate lets them pass, because the props of a
   golden fact default to null and are treated alike (`gate.rs:29`, `129`), and no
   recovery owns them (`fact_owned_by_repo`). `EveryFactIsPinned` states the claim;
   `PluginFactsAreGated` what holds: of the facts with an object as props.

Observations beside them:

* *Read-back after commit.* `replace_for_if` (`findings.rs:117`) returns the error
  of reading the register after its transaction has committed. The callers then
  skip recording the epoch, and an older write may replace the newer one, against
  the comment at `main.rs:1929`. `RegisterTrusted` makes an exception for just this
  write (`Unrecorded`): its author was told that it failed.
* *Withdrawn traces.* What a trace showed cites no repository, so no recovery owns
  it: when the trace is gone, its edges stay until one of their ends is deleted.
* With several processes a startup may meet the lock of an orphaned job held for
  a moment by another process, skip it, and leave the row running until the next
  startup.
* A worker whose last row update fails leaves a running row without owner until
  the next startup.
* A committed investigation may fail to enter the live table while an ended
  worker has not been removed; it stays queued until the user cancels it, as the
  comment at `commands.rs:87` accepts.
* Epochs order preflights of one process only.
* The policy is read before a call and not again under way, where `settings.rs:6`
  says that revocation is immediate; the egress log, summed up as the bytes sent
  (`settings.rs:43`), has an entry only once the answer is staged (`main.rs:2694`).
* The golden corpus is not hashed into a gate verdict: an artifact stays vouched
  when its corpus changes.
* One trace identity may fill two gaps of one file and kind; a Pulumi delete event
  does not take back an earlier entry of its urn.
* `depth_limited` may be set on a flow whose every hop was found by a shorter way.
  The semantic overlay removes every edge into a gap it fills and adds one.
* A query is refused when its first page would exceed the limit of selected facts,
  also when the shorter page that would be returned does not.

## 5. Proofs

All theorems hold for every value of the constants under the assumptions named
in the modules: finite sets where cardinalities occur, bounds in `Nat`, and
`None` different from what it stands beside. An inductive invariant is stated in
the module of its component and was checked by TLC on the run's instance before
it was proved. Each proof has one lemma per action, under it one step per part
of the invariant that the action can disturb, and a frame lemma for the rest.

**JobExecutionProofs.** `SingleWorker` is not inductive: that two threads do not
work on one job follows from the lock, that the lock is theirs from the steps that
led there. `IndInv` says which thread at which label holds which lock, that a lock
has one holder, that plans and owners come from tokens already drawn, that
a claimed attempt has a durable lock file, and what rows of live workers look like.
From it: `TypeCorrect`, `LiveWorkerSafe`, `OneWorker`, `LockFileKept`, `DetailOwned`,
and together `OwnerIsExclusive` (`ExclusiveOwner`). `LifeInv` adds that a startup
is the only activity of its process, that rows from before attempts are never
planned for, and that a first execution starts from the unclaimed attempt that was
enqueued with its row. With it,
`RowsAreRespected` (`RowsRespected`): a recovery interrupts only a job whose lock it
holds, hence whose worker is dead. `RefinesLifecycle` (`ImplementsLifecycle`): each
step is a step of `JobLifecycle` or a stutter, where the generation of a job is its
attempt, the job is live while a live thread works on it, and a crash ends it.

**InvestigationProofs.** `RecordInv` speaks of each record alone: it passes
`validate_task`, it keeps the reserve of the event log, and the action a worker
holds fits the phase. Every transition is shown to lead from a sound record to a
sound successor (`Succeeds`), with one lemma per transition. From it: `RecordsLoad`,
`ReserveKept`, together `AlwaysUsable` (`RecordUsable`), and `HistoryAppendOnly`,
`CancelledOnlyEnds`, together `RecordsKept` (`RecordKept`). `TasksInv` relates the
record of a task to its job row, its worker and its provider call. Its parts say
what a worker at each label knows of the record (`PlaceFits`), which row goes with
which record (`RowFits`), that a call under way has its request in the record and
its consent (`CallFits`), and how far the record can have moved since the worker
read it (`RoundsFit`): between two reads only a cancel and a consent come in between,
which is why three rounds of publication are enough. `TasksFitTogether` proves it;
from it follow `CallsAlwaysAccounted` (`CallsAccounted`), `AgreeOnEnding`
(`EndsTogether`) and `FinishNeverLost` (`FinishKept`). `CapKept` (`LiveWithinCap`) is
by the cardinality of the set of live tasks: a start adds one to it only below the cap;
the run `job_safety` checks it of an instance (`Slots`).

**PreflightRunsProofs.** `IndInv` says who holds the write lock, that epochs are
distinct and at most the counter, that a run in `current` is the newest, and that
a written epoch was claimed before it was written. `RegisterRecorded` adds that the
register is what the recorded epochs say, but for a write about to be recorded and
one reported as failed (`Unrecorded`). From them: `TypeCorrect`, `CancelHolds`,
`RegisterKeepsOrder`, `AnswersMatch`, `LaterRunWins`, together `RegisterIsTrusted`
(`RegisterTrusted`), with no assumption on which reads fail.

**RecoveryProofs, the ordered map.** `IndInv` adds to `NothingLost` that claims are ahead of the
merges by the window at most, and that the caller has merged every item it took
but the one in its hands, with no result decided. From it: `NoItemLost`,
`BacklogWithinWindow`, together `BacklogIsSound` (`BacklogSound`), and `Refines`, the
refinement of `SerialMap`.

**RecoveryProofs, the flows.** A flow is right only because of what the walk under
way knows, so `TraceInv` speaks of walks: the hops are those of the visited nodes,
and what the trigger leads to was visited, waits on the stack or leads nowhere,
unless the bound was met (`WalkFits`). When the stack is empty, the visited nodes and
the ends of their hops are closed under `Leads`, hence hold the least closed set,
`Reached` (`ReachedFits`, `EndedFits`). `TriggersFit` says that every trigger is
traced once and none is forgotten. `PreviewInv` adds where the slice comes from: a
stored graph, or the overlay that a preview made of one. The lemmas below them:
`SortedLists` (the rank of an element counts the smaller ones, so a sort lists each
element of a finite set once), `TakesLeads` (of parallel hops the first is kept, and
it is the stored one), `BestReport` (the gate has a best threshold, and no other
that meets the floor recalls more), `OverlayFits` (an overlay is a slice again),
`OverlayLeads` (it keeps the hops that end at no filled gap, and every confirmed hop
of it is stored). From it `TraceWhole` (`TraceIsWhole`) and `OverlayFills`
(`OverlayOnlyFills`), for any graphs, depth bound, similarities, labelled pairs and
floors. Assumed are: ids ordered as integers; one stored edge between two nodes under a
label; no confirmed edge out of a gap (`adapters-lang-java/src/lib.rs:869`, the only
place that makes such an edge, states it as a gap); no materialised channel has an id
that begins with `gap:`; scores in tenths.

**RecoveryProofs, the plugins.** `PluginFactsAreGated` has two parts. `AnswersAreGated` is
about steps: while the disk and the settings change, a published recovery assembles
one answer of each plugin it listed, by gated bytes. It is proved for any
repositories, builds and corpora (`PublishedAnswersGated`). `GateInv` says why: a
verdict and an enablement have their cause (`VerdictsFit`, `EnablementsFit`), a gate
that has tested records the build it ran and not what is on disk by then
(`TestFits`), and a recovery listed gated bytes and has loaded those, because the hash
is compared again (`ListedGated`, `LoadsFit`). Assumed is that the plugin ids are
finitely many. The other part, that the assembly keeps each answered fact whose props
are an object, with its pin, is about folds and stays with TLC.

**SourceAccessProofs.** `IndInv` says that a lock excludes (`LocksExclude`), that a
command has locked its whole plan before its first write (`PlansLocked`), that the
sources it writes are withdrawn until it publishes them (`WritesWithdrawn`), that
a source validated for reading keeps its checkout (`ReadsHaveRoots`), and where the two
renames of a clone stand (`CloneProgress`, `TargetsProgress`): at each label either
the checkout, its backup or the new clone is there. From it: `AvailableSourcesAgree`
(`StoresCoherent`), `ReadersUndisturbed` (`ReadsAreStable`), and `CheckoutNeverLost`,
`PublishedTogether`, `WithdrawnUnderPlan`, together `CheckoutsAreSafe` (`CheckoutsSafe`).

**RetainedSourceProofs, the captures.** The guard an operation holds is on the source of what it
has in hand (`Guarded`), the exclusive guard excludes (`GuardsExclude`), hence what a
reader found stays until it returns (`Kept`), and what a forget compared under its
guard stays as compared (`Rechecked`); `BindingsFit` ties the bindings of the graph to
rows and receipts. `GuardsHold` proves it; from it `EvidenceIsBacked`
(`RetainedIsBacked`) and `ForgetsAsShown` (`ForgetsWhatWasShown`). It is assumed that
trees are finite. The theorems are about `Spec`, which starts with empty stores; the
instance starts after a capture of another source, a state that `Spec` reaches.

**RetainedSourceProofs, the frozen context.** `ContextIsWhole` is not inductive: why
a ledger is never refused depends on all that led to it. `ContextInv` says that the
ledger in memory is the saved one and passes both checks (`InputPrepares`); where a
cursor stands, namely behind the prefix of the selection that the pages before it
showed (`PagesFit`); that facts and spans are numbered on, the cited keys are the
selected ones and each was shown (`CitesFit`); that the usage is the ledger's
(`UsageFits`); and what a call under way has made sure of: the early selection
covers the page to come (`QueryFits`), a span fits and its validation is charged
(`EvidenceCallFits`). The lemmas below: `TotalIs` and `TotalAppend` (a sum is that
of its partial sums; that these exist is shown by the least length without them),
`InOrderLists`, `QueryPages` and `ResponseIsPage` (a query has one longest page, and
a shortened response is a page of the same query, not a cut of the first),
`CitesWithGrows`, `GrowsCites` and `GrowsIds` (each fact is cited once, under a new
number), `Reselected` (what the guards select again holds what was selected before).
With one lemma per call, `QueryValid`, `QueryAdmits`, `EvidenceValid` and
`EvidenceAdmits` show that what is built is never refused. From `ContextInvariance`
follows `ContextWhole` (`ContextIsWhole`), for any graphs, scopes, selections and
limits. Assumed are: limits in `Nat`; graphs are finite, and their keys unique and
ordered.

**GraphIngestProofs.** `GraphInv` says whose each fact is. A node of q's id cites q
only, and its placeholder is an end of an edge extracted from q (`NodeFits`); an
edge was extracted from one repository, links its decision record, or is an observed
backing (`EdgeFits`); bound are symbols, by their repository (`BoundFits`); what a
recovery holds was extracted or computed from what it read (`RecFits`). Attestation
and foreign keys alone are not inductive: that a publication commits, and binds
nothing of another repository, needs to know whose ids a tree may name. Lemmas
about one transaction (`Patched`, `PatchAttests`, `PatchCloses`) come first, then one
per writer. From the invariant: `AttestedAndClosed`, `NoAdrAlone`, `OthersAreKept`
(`OthersKept`), and `GraphIsWhole` (`GraphWhole`). For the last, `Once` describes a
graph that a recovery just settled; on it the second load finds all it is told, hence
writes nothing and deletes `Orphans`, the second stitch has the same candidates
(no resource is an orphan, a channel with a candidate has its edge), and by `EdgeFits`
the edge that held an orphan during the first load was an observation. The theorems
are about any repositories and trees with `TreesAssumption`.

**ModelCallProofs, the bounded call.** `CallInv`: the outcome agrees with the label and
with what is on the wire (`ProgressFits`), at each label the checks of the steps before
have passed (`PreviewFits`), what is on the wire was approved (`WireFits`), and what
came back is within the limits (`AnswerFits`). The lemma
`NoneBad` (no first bad check, no bad check) makes the lists of checks usable. From
it `CallsAreTrue` (`CallIsTrue`). Limits, sizes and chunks are assumed natural numbers.

**ModelCallProofs, the escalation.** `EscalationInv` has three parts. Commands: a
command that approves has shown what it approves, a grant is its approval, what is
prepared is redacted (`CommandFits`, `ConsentFits`); from it `OnlyApprovedIsSent`
(`SentIsApproved`). Answers: an accepted answer is valid for its task, and its own
citations are the assignment that the store looks for; from it
`AnswersAreStageable` (`AcceptedIsStageable`). History: every row has room for its
longest revision, a walk runs down from its ceiling, its cursor stands at the last
row read, and what a window shows of a row is the row or an earlier revision
(`RowsFit`, `WalksFit`); from it `StagedCanBeDecided` (`StagedIsReachable`) and
`NoReviewIsLost` (`ReviewIsOfSeen`). Of texts and answers only the shape is assumed.

`AccountsInv` is about a preparation between its plan and its task, and inductive
together with `EscalationInv`. Before the evidence is read, the plan asks for the source,
the gap and then candidates, to the limit if any was left out (`PlanFits`, proved of
`PlanOf` for every graph), and nothing is counted (`FreshFits`). While it is read,
every attempt has one evidence or one omission and its fact is selected (`ReportFits`),
evidence is numbered, of a selected fact, and of the receipt the fact is bound to
(`EvidenceFits`), candidates and sources divide it (`MembershipFits`), and a binding has
the digest of its fact (`SelectionsFit`). When the loop ends, `FinishAccounts` shows each
condition of the contract from these: the reason to stop from the counts, the number of
selected facts by a surjection, and that only the slot is selected without cause. From
it `SelectionsAreAccounted` (`SelectionAccounts`), under `ReceiptsAssumption`: a receipt
covers citations of its own repository.

**Only model-checked:** all liveness, which needs fairness and `ENABLED`; the properties
of the adapters (`IncrementalIsFresh`, `ClaimsHold`, `NoticedIsStated`) and of the
assembly (`GapNotHidden`, `SitesAccounted`, the second part of `PluginFactsAreGated`).
What these compute is defined by folds over sequences of facts: that it holds for every
input needs induction over data, which is out of the prover's reach.

## 6. Plan

1. Done: the modules above, and the proofs of section 5.
2. Next: that `Assemble` keeps the nodes of its plugins and their pins, in the way the
   totals of `FrozenContext` are proved, by the least prefix for which a fold fails.

## 7. Not modelled

* Grammars, queries and formats: tree-sitter, HCL, JSON, OTLP, YAML. The models
  begin with what the parsers return.
* The source walk with its ignore rules, preflight probes, toolchain and manifest
  readers: pure functions of a directory tree, inputs of the models.
* Redaction patterns, provenance types, metrics, rendering of documents and prompts,
  counts per layer and delta.
* The WASM engine, HTTP, git, the operating system's key ring and SQLite are external.
* Schema migrations and the checks that database files are private.
* The UI shows what the commands return.
* Power loss is modelled for jobs, where the code syncs files for it; for
  checkouts and stores only the crash of a process is. Directory renames are not
  synced before readiness is committed (`managed.rs:288`).
