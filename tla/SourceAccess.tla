---------------------------- MODULE SourceAccess ----------------------------
(***************************************************************************)
(* Guarded use of managed source checkouts: src-tauri/src/source_access.rs *)
(* (lock plans), sources.rs (the durable registry and its ready flags),    *)
(* crates/ingest/src/managed.rs (slots, OS locks, clone publication) and   *)
(* the commands of main.rs that replace, ingest and read them (add_repo,   *)
(* add_system, ingest_path, source windows, plugin discovery, clear_graph).*)
(*                                                                         *)
(* A managed source is a registry row, a slot on disk with one published   *)
(* checkout, and its facts in the graph.  The three are separate stores:   *)
(* operations keep them together with per-source OS locks that are tried,  *)
(* never awaited, and with the durable ready flag, across failures,        *)
(* cancellations and crashes of the processes that hold the locks.         *)
(***************************************************************************)
EXTENDS Naturals, FiniteSets

CONSTANTS
    Source,      \* managed sources, ordered as their identifiers (naturals)
    Add,         \* add_repo and add_system commands
    Target,      \* [Add -> SUBSET Source], the remote entries a command clones
    Ingest,      \* ingest_path and retry_job commands on a registered checkout
    Reader,      \* source windows, preflights and plugin discoveries
    Proc,        \* application processes sharing the data directory
    Home,        \* [Op -> Proc]
    MaxCrashes,  \* bound on process crashes
    None         \* no checkout, no facts, no snapshot

Op == Add \cup Ingest \cup Reader

ASSUME SourceAssumption == Source \subseteq Nat /\ IsFiniteSet(Source)
ASSUME TargetAssumption == Target \in [Add -> SUBSET Source \ {{}}]
ASSUME OpAssumption ==
    /\ Add \cap Ingest = {} /\ Add \cap Reader = {} /\ Ingest \cap Reader = {}
    /\ None \notin Op /\ None \notin Source /\ None \notin [Source -> Op \cup {None}]
    /\ Home \in [Op -> Proc]
ASSUME BoundAssumption == MaxCrashes \in Nat

VARIABLES
    registered, \* rows of registered_sources
    ready,      \* rows with ready = 1
    slot,       \* slots published with their owner file
    root,       \* [Source -> command whose clone is the checkout, or None]
    parked,     \* [Source -> former checkouts kept in attempt directories]
    graph,      \* [Source -> clone whose facts the graph holds, or None: no Repo node]
    pc,         \* [Op -> progress of the command]
    plan,       \* [Op -> sources of its lock plan]
    held,       \* [Op -> sources whose OS lock it holds]
    todo,       \* [Op -> sources left in the current pass over the plan]
    cur,        \* [Op -> source being cloned, ingested or read, or None]
    prev,       \* [Op -> former checkout it has moved aside, or None]
    seen,       \* [Op -> checkout its reads rest on, or None]
    snap,       \* [Op -> graph snapshot an ADR patch is computed from, or None]
    job,        \* [Op -> status of its job row]
    crashes

disk   == <<slot, root, parked>>
stores == <<registered, ready, graph>>
vars == <<registered, ready, slot, root, parked, graph, pc, plan, held, todo, cur,
          prev, seen, snap, job, crashes>>

Label == {"idle", "registered", "locking", "validating", "cloning", "parking", "swapping",
          "extracting", "loading", "relinking", "patching", "finishing", "settled",
          "reading", "ended", "failed"}
Rest  == {"idle", "ended", "failed"}
Content == Op \cup {None}

Init ==
    /\ registered = {} /\ ready = {} /\ slot = {}
    /\ root = [s \in Source |-> None]
    /\ parked = [s \in Source |-> {}]
    /\ graph = [s \in Source |-> None]
    /\ pc = [o \in Op |-> "idle"]
    /\ plan = [o \in Op |-> {}]
    /\ held = [o \in Op |-> {}]
    /\ todo = [o \in Op |-> {}]
    /\ cur = [o \in Op |-> None]
    /\ prev = [o \in Op |-> None]
    /\ seen = [o \in Op |-> None]
    /\ snap = [o \in Op |-> None]
    /\ job = [o \in Op |-> "none"]
    /\ crashes = 0

-----------------------------------------------------------------------------
(* Helpers. *)

Writes(o) == IF o \in Add THEN Target[o] ELSE {}
InGraph == {s \in Source : graph[s] # None}
First(S) == CHOOSE s \in S : \A t \in S : s <= t
Goto(o, label) == pc' = [pc EXCEPT ![o] = label]

\* The command returns: every guard it holds is dropped.
Leave(o, label) ==
    /\ pc' = [pc EXCEPT ![o] = label]
    /\ plan' = [plan EXCEPT ![o] = {}]
    /\ held' = [held EXCEPT ![o] = {}]
    /\ todo' = [todo EXCEPT ![o] = {}]
    /\ cur' = [cur EXCEPT ![o] = None]
    /\ prev' = [prev EXCEPT ![o] = None]
    /\ seen' = [seen EXCEPT ![o] = None]
    /\ snap' = [snap EXCEPT ![o] = None]
    /\ UNCHANGED crashes

-----------------------------------------------------------------------------
(* Admission: registration, the lock plan, reservation, invalidation.       *)

\* reserve_managed for every remote entry: an existing row is returned as it
\* is, a new one starts unavailable.
Register(o) ==
    /\ pc[o] = "idle" /\ o \in Add
    /\ registered' = registered \cup Target[o]
    /\ Goto(o, "registered")
    /\ UNCHANGED <<ready, disk, graph, plan, held, todo, cur, prev, seen, snap, job, crashes>>

Planned(o, S) ==
    /\ plan' = [plan EXCEPT ![o] = S]
    /\ todo' = [todo EXCEPT ![o] = S]
    /\ Goto(o, "locking")
    /\ UNCHANGED <<stores, disk, held, prev, seen, snap, job, crashes>>

\* source_operation: the sources asked for, and every repository of the graph,
\* which ADR relinking will read.
PlanAdd(o) ==
    /\ pc[o] = "registered"
    /\ Planned(o, Target[o] \cup InGraph)
    /\ UNCHANGED cur

\* Faulty variant: the source to ingest is not kept with the plan.
PlanIngestForgetting(o) ==
    /\ pc[o] = "idle" /\ o \in Ingest
    /\ \E s \in registered : Planned(o, {s} \cup InGraph)
    /\ UNCHANGED cur

PlanIngest(o) ==
    /\ pc[o] = "idle" /\ o \in Ingest
    /\ \E s \in registered :
          /\ Planned(o, {s} \cup InGraph)
          /\ cur' = [cur EXCEPT ![o] = s]

\* One source (with_registered_read, preflight) or all that look available
\* when they are listed (discover_session_plugins).
PlanRead(o) ==
    /\ pc[o] = "idle" /\ o \in Reader
    /\ \E S \in {{s} : s \in registered} \cup {ready} :
          S # {} /\ Planned(o, S)
    /\ UNCHANGED cur

\* Faulty variant: a shared lock is granted beside an exclusive one.
LockFreeForReaders(o, s) ==
    \A q \in Op \ {o} : s \in held[q] => s \notin Writes(o)

\* File::try_lock and try_lock_shared on the source's lock file.
LockFree(o, s) ==
    \A q \in Op \ {o} : s \in held[q] => s \notin Writes(o) /\ s \notin Writes(q)

\* Faulty variant: a write source is made unavailable as soon as it is locked.
LockInvalidating(o) ==
    LET s == First(todo[o]) IN
    /\ pc[o] = "locking" /\ todo[o] # {} /\ LockFree(o, s)
    /\ held' = [held EXCEPT ![o] = @ \cup {s}]
    /\ todo' = [todo EXCEPT ![o] = @ \ {s}]
    /\ ready' = ready \ (Writes(o) \cap {s})
    /\ UNCHANGED <<registered, disk, graph, pc, plan, cur, prev, seen, snap, job, crashes>>

\* acquire: reservations in the order of the identifiers, tried once each.
Lock(o) ==
    LET s == First(todo[o]) IN
    /\ pc[o] = "locking" /\ todo[o] # {} /\ LockFree(o, s)
    /\ held' = [held EXCEPT ![o] = @ \cup {s}]
    /\ todo' = [todo EXCEPT ![o] = @ \ {s}]
    /\ UNCHANGED <<stores, disk, pc, plan, cur, prev, seen, snap, job, crashes>>

\* SourceBusy: what was reserved is released and readiness is as it was.
Busy(o) ==
    /\ pc[o] = "locking" /\ todo[o] # {} /\ ~LockFree(o, First(todo[o]))
    /\ Leave(o, "failed")
    /\ UNCHANGED <<stores, disk, job>>

\* Faulty variant: the old checkout stays available while it is replaced.
InvalidateNothing(o) ==
    /\ pc[o] = "locking" /\ todo[o] = {}
    /\ todo' = [todo EXCEPT ![o] = plan[o]]
    /\ Goto(o, "validating")
    /\ UNCHANGED <<stores, disk, plan, held, cur, prev, seen, snap, job, crashes>>

\* With every lock held, set_ready_batch(writes, false) in one transaction.
Invalidate(o) ==
    /\ pc[o] = "locking" /\ todo[o] = {}
    /\ ready' = ready \ Writes(o)
    /\ todo' = [todo EXCEPT ![o] = plan[o]]
    /\ Goto(o, "validating")
    /\ UNCHANGED <<registered, disk, graph, plan, held, cur, prev, seen, snap, job, crashes>>

\* ManagedReadReservation::validate, then validate_ready.
Readable(s) == s \in slot /\ root[s] # None /\ s \in ready

\* A write reservation initialises an absent slot; a read one is validated.
Validate(o) ==
    LET s == First(todo[o]) IN
    /\ pc[o] = "validating" /\ todo[o] # {}
    /\ s \in Writes(o) \/ Readable(s)
    /\ slot' = slot \cup (Writes(o) \cap {s})
    /\ todo' = [todo EXCEPT ![o] = @ \ {s}]
    /\ UNCHANGED <<stores, root, parked, pc, plan, held, cur, prev, seen, snap, job, crashes>>

\* A member is unavailable: the operation is refused, its writes stay so too.
Refuse(o) ==
    LET s == First(todo[o]) IN
    /\ pc[o] = "validating" /\ todo[o] # {}
    /\ s \notin Writes(o) /\ ~Readable(s)
    /\ Leave(o, "failed")
    /\ UNCHANGED <<stores, disk, job>>

\* acquire returns; a command starts (retry_job: claims) its job.
AdmitAdd(o) ==
    /\ pc[o] = "validating" /\ todo[o] = {} /\ o \in Add
    /\ Goto(o, "cloning")
    /\ todo' = [todo EXCEPT ![o] = Target[o]]
    /\ job' = [job EXCEPT ![o] = "running"]
    /\ UNCHANGED <<stores, disk, plan, held, cur, prev, seen, snap, crashes>>

AdmitIngest(o) ==
    /\ pc[o] = "validating" /\ todo[o] = {} /\ o \in Ingest
    /\ Goto(o, "extracting")
    /\ todo' = [todo EXCEPT ![o] = {cur[o]}]
    /\ job' = [job EXCEPT ![o] = "running"]
    /\ UNCHANGED <<stores, disk, plan, held, cur, prev, seen, snap, crashes>>

\* A bounded read pass over a planned root begins, and ends.
AdmitRead(o) ==
    /\ pc[o] = "validating" /\ todo[o] = {} /\ o \in Reader
    /\ Goto(o, "reading")
    /\ \E s \in plan[o] :
          /\ cur' = [cur EXCEPT ![o] = s]
          /\ seen' = [seen EXCEPT ![o] = root[s]]
    /\ UNCHANGED <<stores, disk, plan, held, todo, prev, snap, job, crashes>>

EndRead(o) ==
    /\ pc[o] = "reading"
    /\ Leave(o, "ended")
    /\ UNCHANGED <<stores, disk, job>>

-----------------------------------------------------------------------------
(* Replacing a checkout: ManagedWriteGuard::clone_from.                     *)

\* The job is still running; a fresh clone is staged beside the checkout.
Stage(o) ==
    /\ pc[o] = "cloning" /\ job[o] = "running"
    /\ \E s \in todo[o] :
          /\ cur' = [cur EXCEPT ![o] = s]
          /\ todo' = [todo EXCEPT ![o] = @ \ {s}]
    /\ Goto(o, "parking")
    /\ UNCHANGED <<stores, disk, plan, held, prev, seen, snap, job, crashes>>

\* An existing checkout is renamed into the attempt, which is now kept.
Park(o) ==
    LET s == cur[o] IN
    /\ pc[o] = "parking"
    /\ prev' = [prev EXCEPT ![o] = root[s]]
    /\ root' = [root EXCEPT ![s] = None]
    /\ parked' = [parked EXCEPT ![s] = @ \cup ({root[s]} \ {None})]
    /\ Goto(o, "swapping")
    /\ UNCHANGED <<stores, slot, plan, held, todo, cur, seen, snap, job, crashes>>

\* The staged clone becomes the checkout and the attempt is cleaned up.
Swap(o) ==
    LET s == cur[o] IN
    /\ pc[o] = "swapping"
    /\ root' = [root EXCEPT ![s] = o]
    /\ parked' = [parked EXCEPT ![s] = @ \ {prev[o]}]
    /\ prev' = [prev EXCEPT ![o] = None]
    /\ IF todo[o] # {} THEN Goto(o, "cloning") /\ UNCHANGED todo
       ELSE Goto(o, "extracting") /\ todo' = [todo EXCEPT ![o] = Target[o]]
    /\ UNCHANGED <<stores, slot, plan, held, cur, seen, snap, job, crashes>>

\* report_failure moves a running job to failed and leaves any other alone.
Failing(o) == job' = [job EXCEPT ![o] = IF @ = "running" THEN "failed" ELSE @]

\* Faulty variant: the failed attempt is removed with what it holds.
SwapFailsCleaning(o) ==
    LET s == cur[o] IN
    /\ pc[o] = "swapping"
    /\ parked' = [parked EXCEPT ![s] = @ \ {prev[o]}]
    /\ Failing(o)
    /\ Leave(o, "failed")
    /\ UNCHANGED <<stores, slot, root>>

\* The rename fails: the former checkout is put back, or, if that fails too,
\* stays in the attempt.
SwapFails(o) ==
    LET s == cur[o] IN
    /\ pc[o] = "swapping"
    /\ \/ /\ root' = [root EXCEPT ![s] = prev[o]]
          /\ parked' = [parked EXCEPT ![s] = @ \ {prev[o]}]
       \/ UNCHANGED <<root, parked>>
    /\ Failing(o)
    /\ Leave(o, "failed")
    /\ UNCHANGED <<stores, slot>>

-----------------------------------------------------------------------------
(* Recovering and publishing facts: add_repo, add_system, run_ingest.       *)

Extract(o) ==
    /\ pc[o] = "extracting" /\ job[o] = "running" /\ todo[o] # {}
    /\ \E s \in todo[o] :
          /\ cur' = [cur EXCEPT ![o] = s]
          /\ seen' = [seen EXCEPT ![o] = root[s]]
          /\ todo' = [todo EXCEPT ![o] = @ \ {s}]
    /\ Goto(o, "loading")
    /\ UNCHANGED <<stores, disk, plan, held, prev, snap, job, crashes>>

\* load_into_graph, with the job checked under the graph mutex.
Load(o) ==
    /\ pc[o] = "loading" /\ job[o] = "running"
    /\ graph' = [graph EXCEPT ![cur[o]] = seen[o]]
    /\ seen' = [seen EXCEPT ![o] = None]
    /\ Goto(o, IF todo[o] = {} THEN "relinking" ELSE "extracting")
    /\ UNCHANGED <<registered, ready, disk, plan, held, todo, cur, prev, snap, job, crashes>>

\* relink_found_adrs copies the graph and reads the root of every repository
\* in it; one outside the plan is a changed context.
Relink(o) ==
    /\ pc[o] = "relinking" /\ job[o] = "running" /\ InGraph \subseteq plan[o]
    /\ snap' = [snap EXCEPT ![o] = graph]
    /\ Goto(o, "patching")
    /\ UNCHANGED <<stores, disk, plan, held, todo, cur, prev, seen, job, crashes>>

\* apply_patch_if_snapshot_matches.
Patch(o) ==
    /\ pc[o] = "patching" /\ job[o] = "running" /\ graph = snap[o]
    /\ snap' = [snap EXCEPT ![o] = None]
    /\ Goto(o, "finishing")
    /\ UNCHANGED <<stores, disk, plan, held, todo, cur, prev, seen, job, crashes>>

\* Faulty variant: a repository outside the plan is waited for.
ContextChangedWaiting(o) ==
    /\ job[o] = "running"
    /\ pc[o] = "patching" /\ graph # snap[o]
    /\ Failing(o)
    /\ Leave(o, "failed")
    /\ UNCHANGED <<stores, disk>>

ContextChanged(o) ==
    /\ job[o] = "running"
    /\ \/ pc[o] = "relinking" /\ ~(InGraph \subseteq plan[o])
       \/ pc[o] = "patching" /\ graph # snap[o]
    /\ Failing(o)
    /\ Leave(o, "failed")
    /\ UNCHANGED <<stores, disk>>

\* Faulty variant: readiness is published although a cancel came first.
SettleAnyway(o) ==
    /\ pc[o] = "finishing"
    /\ job' = [job EXCEPT ![o] = IF @ = "running" THEN "done" ELSE @]
    /\ IF o \in Add THEN Goto(o, "settled") /\ UNCHANGED <<plan, held, todo, cur, prev, seen, snap, crashes>>
       ELSE Leave(o, "ended")
    /\ UNCHANGED <<stores, disk>>

\* finish_execution settles the race with a cancel; run_ingest is then over.
Settle(o) ==
    /\ pc[o] = "finishing" /\ job[o] = "running"
    /\ job' = [job EXCEPT ![o] = "done"]
    /\ IF o \in Add THEN Goto(o, "settled") /\ UNCHANGED <<plan, held, todo, cur, prev, seen, snap, crashes>>
       ELSE Leave(o, "ended")
    /\ UNCHANGED <<stores, disk>>

\* set_writes_ready in one transaction, which may fail; the guards are
\* released and done is announced in either case.
PublishReady(o) ==
    /\ pc[o] = "settled"
    /\ ready' \in {ready, ready \cup Target[o]}
    /\ Leave(o, "ended")
    /\ UNCHANGED <<registered, graph, disk, job>>

-----------------------------------------------------------------------------
(* Cancellation, errors, crashes, clearing the graph.                       *)

Cancel(o) ==
    /\ job[o] = "running"
    /\ job' = [job EXCEPT ![o] = "cancelled"]
    /\ UNCHANGED <<stores, disk, pc, plan, held, todo, cur, prev, seen, snap, crashes>>

\* Every stage boundary checks the job.
Checked == {"cloning", "extracting", "loading", "relinking", "patching", "finishing"}
Stop(o) ==
    /\ pc[o] \in Checked /\ job[o] = "cancelled"
    /\ Leave(o, "failed")
    /\ UNCHANGED <<stores, disk, job>>

\* Any other error of the step the command is at: storage, I/O, git, a parser.
\* During a clone nothing has moved before "swapping".
Error(o) ==
    /\ pc[o] \notin Rest \cup {"swapping", "settled"}
    /\ Failing(o)
    /\ Leave(o, "failed")
    /\ UNCHANGED <<stores, disk>>

\* The operating system closes the handles of a process that dies.
Crash(p) ==
    LET lost == {o \in Op : Home[o] = p /\ pc[o] \notin Rest}
        Reset(f, v) == [o \in Op |-> IF o \in lost THEN v ELSE f[o]]
    IN
    /\ crashes < MaxCrashes /\ lost # {}
    /\ crashes' = crashes + 1
    /\ pc' = Reset(pc, "failed")
    /\ plan' = Reset(plan, {}) /\ held' = Reset(held, {}) /\ todo' = Reset(todo, {})
    /\ cur' = Reset(cur, None) /\ prev' = Reset(prev, None)
    /\ seen' = Reset(seen, None) /\ snap' = Reset(snap, None)
    /\ UNCHANGED <<stores, disk, job>>

ClearGraph ==
    /\ graph' = [s \in Source |-> None]
    /\ graph' # graph
    /\ UNCHANGED <<registered, ready, disk, pc, plan, held, todo, cur, prev, seen, snap,
                   job, crashes>>

AddStep(o) ==
    \/ Register(o) \/ PlanAdd(o) \/ AdmitAdd(o) \/ Stage(o) \/ Park(o)
    \/ Swap(o) \/ SwapFails(o) \/ PublishReady(o)

\* The steps a command takes once it has begun.
OpStep(o) ==
    \/ AddStep(o) \/ Lock(o) \/ Busy(o) \/ Invalidate(o) \/ Validate(o) \/ Refuse(o)
    \/ AdmitIngest(o) \/ AdmitRead(o) \/ EndRead(o) \/ Extract(o) \/ Load(o)
    \/ Relink(o) \/ Patch(o) \/ ContextChanged(o) \/ Settle(o) \/ Stop(o)

Next ==
    \/ \E o \in Op : OpStep(o) \/ PlanIngest(o) \/ PlanRead(o) \/ Cancel(o) \/ Error(o)
    \/ \E p \in Proc : Crash(p)
    \/ ClearGraph

Spec == Init /\ [][Next]_vars

\* A command that has begun keeps running on its blocking thread: no step
\* waits for a lock, a message or the user.
Fairness == \A o \in Op : WF_vars(pc[o] # "idle" /\ OpStep(o))

FairSpec == Spec /\ Fairness

-----------------------------------------------------------------------------
(* Properties. *)

TypeOK ==
    /\ registered \subseteq Source /\ ready \subseteq Source /\ slot \subseteq Source
    /\ root \in [Source -> Content]
    /\ parked \in [Source -> SUBSET Op]
    /\ graph \in [Source -> Content]
    /\ pc \in [Op -> Label]
    /\ plan \in [Op -> SUBSET Source]
    /\ held \in [Op -> SUBSET Source]
    /\ todo \in [Op -> SUBSET Source]
    /\ cur \in [Op -> Source \cup {None}]
    /\ prev \in [Op -> Content]
    /\ seen \in [Op -> Content]
    /\ snap \in [Op -> [Source -> Content] \cup {None}]
    /\ job \in [Op -> {"none", "running", "done", "failed", "cancelled"}]
    /\ crashes \in Nat

\* An available source is one whole: it has a checkout, and the graph holds
\* that checkout's facts or, once cleared, none.  Failed, cancelled and crashed
\* replacements leave a mixture behind, and none of them may be available
\* (set_ready_batch in acquire, finish_source_operation).
AvailableIsCoherent ==
    \A s \in ready : root[s] # None /\ graph[s] \in {None, root[s]}

\* The registry, the slots on disk and the graph agree on what is available.
StoresCoherent == TypeOK /\ AvailableIsCoherent

\* While a command reads a checkout or has read it to publish its facts, the
\* checkout is not replaced under it (with_registered_read, run_ingest: the
\* guard outlives the whole pass).
ReadsAreStable ==
    \A o \in Op : pc[o] \in {"reading", "loading"} => seen[o] # None /\ root[cur[o]] = seen[o]

OnDisk(s) == root[s] # None \/ parked[s] # {}

\* A source that was cloned once keeps a checkout on disk, in its place or
\* set aside: no failed rename, restore or crash removes the only copy
\* (clone_from: attempt.cleanup).
CheckoutKept == [][\A s \in Source : OnDisk(s) => OnDisk(s)']_vars

\* A source becomes available only by a command whose job is done, not
\* cancelled, while it holds the exclusive lock, and with every other source
\* of that command (finish_source_operation, set_writes_ready).
AvailableTogether ==
    [][\A s \in ready' \ ready : \E o \in Add :
          /\ s \in Target[o] /\ Target[o] \subseteq ready' /\ Target[o] \subseteq held[o]
          /\ job[o] = "done"]_vars

\* A source becomes unavailable only by a command that holds its whole lock
\* plan: a busy source never costs another one its availability (acquire).
InvalidatedUnderPlan ==
    [][\A s \in ready \ ready' : \E o \in Add :
          s \in Target[o] /\ Target[o] \cup plan[o] \subseteq held[o]]_vars

\* What no step does to a source: lose its only checkout, publish half of a system,
\* or withdraw a source without holding the whole lock plan.
CheckoutsSafe == CheckoutKept /\ AvailableTogether /\ InvalidatedUnderPlan

\* Lock plans are tried in any interleaving and never awaited: each command
\* ends, and none waits for another (acquire: try-only, sorted).
CommandsEnd == \A o \in Op : pc[o] # "idle" ~> pc[o] \in Rest

Unavailable == registered \ ready
\* source_operation would admit add_repo of s, with every lock free.
ReAddAdmitted(s) == \A t \in InGraph \ {s} : Readable(t)

\* When nothing runs, some unavailable source can be made available by adding
\* it again, which is what an unavailable source asks of the user.
ReAddRepairs ==
    (\A o \in Op : pc[o] \in Rest) /\ Unavailable # {} => \E s \in Unavailable : ReAddAdmitted(s)

-----------------------------------------------------------------------------
(* The inductive invariant of SourceAccessProofs. *)

\* The labels at which acquire has taken every lock of the plan.
Guarded == Label \ (Rest \cup {"registered", "locking"})
Cloning == {"cloning", "parking", "swapping"}
Publishing == {"extracting", "loading", "relinking", "patching", "finishing"}

\* Which command can be where, and what it works on there.
StepsFit ==
    \A o \in Op :
        /\ pc[o] \in {"registered", "settled"} \cup Cloning => o \in Add
        /\ pc[o] \in Publishing => o \in Add \cup Ingest
        /\ pc[o] = "reading" => o \in Reader
        /\ pc[o] \in {"parking", "swapping"} => cur[o] \in Target[o]
        /\ pc[o] = "loading" => cur[o] \in (IF o \in Add THEN Target[o] ELSE plan[o])
        /\ pc[o] = "reading" => cur[o] \in plan[o]
        /\ o \in Ingest /\ pc[o] \in Guarded \cup {"locking"} => cur[o] \in plan[o]
        /\ o \in Add /\ pc[o] \in Cloning \cup Publishing => todo[o] \subseteq Target[o]
        /\ pc[o] \in {"relinking", "patching", "finishing", "settled"} => todo[o] = {}
        /\ pc[o] = "settled" => job[o] = "done"

\* A plan covers the sources it writes, and past acquire it is locked whole.
PlansLocked ==
    \A o \in Op :
        /\ held[o] \subseteq plan[o] /\ todo[o] \subseteq plan[o]
        /\ pc[o] \in Rest \cup {"registered"} => held[o] = {}
        /\ pc[o] = "locking" => plan[o] \subseteq held[o] \cup todo[o]
        /\ pc[o] \in Guarded => plan[o] \subseteq held[o]
        /\ pc[o] \in Guarded \cup {"locking"} => Writes(o) \subseteq plan[o]

\* What one command writes, no other holds (File::try_lock, try_lock_shared).
LocksExclude ==
    \A o, q \in Op : o # q => held[o] \cap held[q] \cap Writes(o) = {}

\* The writes of a guarded command are unavailable until it publishes them.
WritesWithdrawn == \A o \in Op : pc[o] \in Guarded => ready \cap Writes(o) = {}

\* A validated read source keeps a checkout while its lock is held.
ReadsHaveRoots ==
    \A o \in Op :
        LET validated == IF pc[o] = "validating" THEN plan[o] \ todo[o] ELSE plan[o] IN
        pc[o] \in Guarded => \A s \in validated \ Writes(o) : root[s] # None

\* The targets a command has cloned hold its clone, and what it has loaded of
\* them is that clone's facts.
Pending(o) == todo[o] \cup (IF pc[o] \in {"parking", "swapping", "loading"} THEN {cur[o]} ELSE {})

CloneProgress(o) ==
    /\ pc[o] \in Cloning => \A s \in Target[o] \ Pending(o) : root[s] = o
    /\ pc[o] = "swapping" => root[cur[o]] = None
    /\ pc[o] \in Publishing \cup {"settled"} =>
          \A s \in Target[o] : root[s] = o /\ (s \in Pending(o) \/ graph[s] \in {None, o})

TargetsProgress == \A o \in Add : CloneProgress(o)

\* Locks, plans and stores together: inductive, and checked on the small instance.
IndInv ==
    /\ StoresCoherent /\ ReadsAreStable /\ StepsFit /\ PlansLocked /\ LocksExclude
    /\ WritesWithdrawn /\ ReadsHaveRoots /\ TargetsProgress
=============================================================================
