----------------------------- MODULE OrderedMap -----------------------------
(***************************************************************************)
(* map_ordered (crates/source-walk/src/parallel.rs): worker threads run    *)
(* work(item) concurrently, the calling thread merges the results in item  *)
(* order.  One mutex protects the shared State; two condition variables,   *)
(* claimable and finished, are notified outside it.  A critical section,   *)
(* from acquiring the mutex to releasing it or waiting, is one action.     *)
(***************************************************************************)
EXTENDS Naturals, FiniteSets

CONSTANTS
    N,       \* number of items
    Worker,  \* worker threads
    Ahead,   \* window per worker (4 in the code)
    None     \* no result yet

ASSUME NAssumption == N \in Nat
ASSUME WorkerAssumption == IsFiniteSet(Worker) /\ Worker # {}
ASSUME AheadAssumption == Ahead \in Nat \ {0}

VARIABLES
    work, merge, \* what the two closures do for each item
    next,        \* State.next: items claimed so far
    merged,      \* State.merged: items the calling thread has taken
    stop,        \* State.stop
    ready,       \* State.ready: items whose outcome waits to be merged
    at,          \* [Worker -> where a worker is]
    item,        \* [Worker -> item it has claimed]
    caller,      \* where the calling thread is
    done,        \* items handed to merge successfully
    result       \* what the call will return or resume, None while undecided

vars == <<work, merge, next, merged, stop, ready, at, item, caller, done, result>>
closures == <<work, merge>>

Item == 1 .. N
Effect == {"ok", "error", "panic"}
Window == Ahead * Cardinality(Worker)

Init ==
    /\ work \in [Item -> Effect] /\ merge \in [Item -> Effect]
    /\ next = 0 /\ merged = 0 /\ stop = FALSE /\ ready = {}
    /\ at = [w \in Worker |-> "claim"]
    /\ item = [w \in Worker |-> 0]
    /\ caller = "take" /\ done = 0 /\ result = None

\* notify_all: whoever waits will look again.
Awake(w) == IF at[w] = "waiting" THEN "claim" ELSE at[w]

-----------------------------------------------------------------------------
(* Worker threads. *)

\* Faulty variant: one item more than the window may be claimed.
MayClaimOneMore == next <= merged + Window

MayClaim == next < merged + Window

Claim(w) ==
    /\ at[w] = "claim" /\ ~stop /\ next < N /\ MayClaim
    /\ next' = next + 1
    /\ item' = [item EXCEPT ![w] = next + 1]
    /\ at' = [at EXCEPT ![w] = "working"]
    /\ UNCHANGED <<closures, merged, stop, ready, caller, done, result>>

Wait(w) ==
    /\ at[w] = "claim" /\ ~stop /\ next < N /\ ~MayClaim
    /\ at' = [at EXCEPT ![w] = "waiting"]
    /\ UNCHANGED <<closures, next, merged, stop, ready, item, caller, done, result>>

Leave(w) ==
    /\ at[w] = "claim" /\ (stop \/ next >= N)
    /\ at' = [at EXCEPT ![w] = "gone"]
    /\ UNCHANGED <<closures, next, merged, stop, ready, item, caller, done, result>>

\* Faulty variant: a panic in work unwinds the worker.
DeliverUncaught(w) ==
    /\ at[w] = "working"
    /\ IF work[item[w]] = "panic" THEN at' = [at EXCEPT ![w] = "gone"] /\ UNCHANGED ready
       ELSE ready' = ready \cup {item[w]} /\ at' = [at EXCEPT ![w] = "notify"]
    /\ UNCHANGED <<closures, next, merged, stop, item, caller, done, result>>

\* work(item) ends, in a value, an error or a caught panic, and is inserted.
Deliver(w) ==
    /\ at[w] = "working"
    /\ ready' = ready \cup {item[w]}
    /\ at' = [at EXCEPT ![w] = "notify"]
    /\ UNCHANGED <<closures, next, merged, stop, item, caller, done, result>>

\* finished.notify_all().
NotifyFinished(w) ==
    /\ at[w] = "notify"
    /\ at' = [at EXCEPT ![w] = "claim"]
    /\ caller' = IF caller = "waiting" THEN "take" ELSE caller
    /\ UNCHANGED <<closures, next, merged, stop, ready, item, done, result>>

-----------------------------------------------------------------------------
(* The calling thread. *)

Take ==
    /\ caller = "take" /\ merged < N /\ merged + 1 \in ready
    /\ ready' = ready \ {merged + 1}
    /\ merged' = merged + 1
    /\ caller' = "notify"
    /\ UNCHANGED <<closures, next, stop, at, item, done, result>>

WaitFinished ==
    /\ caller = "take" /\ merged < N /\ merged + 1 \notin ready
    /\ caller' = "waiting"
    /\ UNCHANGED <<closures, next, merged, stop, ready, at, item, done, result>>

\* claimable.notify_all().
NotifyClaimable ==
    /\ caller = "notify"
    /\ at' = [w \in Worker |-> Awake(w)]
    /\ caller' = "merge"
    /\ UNCHANGED <<closures, next, merged, stop, ready, item, done, result>>

Decide(i, by, kind) ==
    /\ result' = [item |-> i, by |-> by, kind |-> kind]
    /\ caller' = "stop"
    /\ UNCHANGED <<closures, next, merged, stop, ready, at, item, done>>

Merge ==
    /\ caller = "merge" /\ work[merged] = "ok" /\ merge[merged] = "ok"
    /\ done' = done + 1
    /\ caller' = "take"
    /\ UNCHANGED <<closures, next, merged, stop, ready, at, item, result>>

\* Faulty variant: the first failure that arrives decides.
MergeFailsFast ==
    /\ caller = "merge"
    /\ \E i \in ready \cup {merged} : work[i] # "ok" /\ Decide(i, "work", work[i])

\* value? and merge(..)? return, a caught panic is resumed, a panic in merge unwinds.
MergeFails ==
    /\ caller = "merge"
    /\ IF work[merged] # "ok" THEN Decide(merged, "work", work[merged])
       ELSE merge[merged] # "ok" /\ Decide(merged, "merge", merge[merged])

AllMerged ==
    /\ caller = "take" /\ merged = N
    /\ Decide(N, "loop", "ok")

\* Faulty variant: the flag is set and nobody is told.
StopSilently ==
    /\ caller = "stop"
    /\ stop' = TRUE
    /\ caller' = "join"
    /\ UNCHANGED <<closures, next, merged, ready, at, item, done, result>>

\* StopOnDrop, on return and on unwinding.
Stop ==
    /\ caller = "stop"
    /\ stop' = TRUE
    /\ at' = [w \in Worker |-> Awake(w)]
    /\ caller' = "join"
    /\ UNCHANGED <<closures, next, merged, ready, item, done, result>>

\* thread::scope returns once every worker has.
Join ==
    /\ caller = "join" /\ \A w \in Worker : at[w] = "gone"
    /\ caller' = "returned"
    /\ UNCHANGED <<closures, next, merged, stop, ready, at, item, done, result>>

WorkerStep(w) == Claim(w) \/ Wait(w) \/ Leave(w) \/ Deliver(w) \/ NotifyFinished(w)
CallerStep ==
    Take \/ WaitFinished \/ NotifyClaimable \/ Merge \/ MergeFails \/ AllMerged \/ Stop \/ Join

\* The call is over.
Returned == caller = "returned" /\ UNCHANGED vars

Next == (\E w \in Worker : WorkerStep(w)) \/ CallerStep \/ Returned

Spec == Init /\ [][Next]_vars
\* Threads are scheduled; the closures end.
Fairness == (\A w \in Worker : WF_vars(WorkerStep(w))) /\ WF_vars(CallerStep)

FairSpec == Spec /\ Fairness

-----------------------------------------------------------------------------
(* Properties. *)

TypeOK ==
    /\ work \in [Item -> Effect] /\ merge \in [Item -> Effect]
    /\ next \in 0 .. N /\ merged \in 0 .. N /\ done \in 0 .. N
    /\ stop \in BOOLEAN
    /\ ready \subseteq Item
    /\ at \in [Worker -> {"claim", "waiting", "working", "notify", "gone"}]
    /\ item \in [Worker -> 0 .. N]
    /\ caller \in {"take", "waiting", "notify", "merge", "stop", "join", "returned"}
    /\ result \in [item : 0 .. N, by : {"work", "merge", "loop"}, kind : Effect] \cup {None}

Working == {w \in Worker : at[w] = "working"}
Claimed == {item[w] : w \in Working}

\* Results held at once, finished or being computed, stay within the window,
\* whatever the order in which the workers end (the module's memory claim).
BacklogBounded == Cardinality(ready \cup Claimed) <= Window

\* Every claimed item that is not yet taken is with exactly one worker or
\* ready: none is computed twice, none is lost.
NothingLost ==
    /\ ready \cup Claimed = merged + 1 .. next
    /\ ready \cap Claimed = {}
    /\ \A v, w \in Working : item[v] = item[w] => v = w

\* The window of results is bounded and holds every claimed item once.
BacklogSound == TypeOK /\ BacklogBounded /\ NothingLost

Serial == INSTANCE SerialMap

\* Merging in parallel is indistinguishable from the serial loop.
ImplementsSerial == Serial!SerialSpec

\* The call returns, with every thread gone: no lost wake-up leaves the caller
\* or a worker waiting, also when an item fails early or a closure panics.
CallReturns == <>(caller = "returned")
=============================================================================
