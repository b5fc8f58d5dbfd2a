----------------------------- MODULE FlowTracer -----------------------------
(***************************************************************************)
(* The cross-layer flow tracer (crates/flowtracer): from every trigger of  *)
(* a graph a depth-first walk with a depth bound collects the hops that    *)
(* lead on, and the flow is given a status.  One walk at a time; each step *)
(* takes one entry off the walk's stack.  Names, evidence texts and tiers  *)
(* of hops are left out.  The slice holds the nodes of the flow labels, so *)
(* an edge of it may end at a node that is not in it.                      *)
(***************************************************************************)
EXTENDS Integers, Sequences, FiniteSets, SequencesExt, FiniteSetsExt

CONSTANTS
    FlowGraphs,   \* [node : id -> [label, rule, ...], edges : [src, dst, label, conf, rule, guess]]
    MAX_DEPTH,    \* the traversal bound
    GapIds        \* ids that begin with gap:

VARIABLES
    slice,        \* the graph slice that is traced
    phase,        \* "idle", "anchors", "rest" or "done"
    todo,         \* triggers still to trace, in id order
    walk,         \* the walk under way, as a set: [trigger, stack, visited, hops, limited]
    flows         \* the flows found so far

flowVars == <<slice, phase, todo, walk, flows>>

NodesOf(g, labels) == {n \in DOMAIN g.node : g.node[n].label \in labels}

(* A gap that does not only mark where the evidence of a rule stops.  An id*)
(* without a node in the slice is told by its beginning.                   *)
ExecutionGap(g, id) ==
    \/ id \in NodesOf(g, {"Gap"}) /\ ~g.node[id].rule
    \/ id \in GapIds \ DOMAIN g.node

(* An edge that is walked forward; DEPENDS_ON only into an execution gap.  *)
Walked(g, e) ==
    \/ e.label \in {"RENDERS", "FETCHES", "HANDLES", "ENTRY", "CALLS", "PUBLISHES"}
    \/ e.label = "DEPENDS_ON" /\ ~e.rule /\ ExecutionGap(g, e.dst)

LabelOrder == <<"CALLS", "DEPENDS_ON", "ENTRY", "FETCHES", "HANDLES", "PUBLISHES", "RENDERS", "SUBSCRIBES", "DEFINED_IN">>

Rank(label) == CHOOSE i \in DOMAIN LabelOrder : LabelOrder[i] = label

(* An edge whose provenance does not validate counts as a gap.             *)
Confidence(e) == IF e.conf = "invalid" THEN "Gap" ELSE e.conf

Hop(e, src, dst) == [label |-> e.label, src |-> src, dst |-> dst, conf |-> Confidence(e)]

(* The same hop to the tracer, whatever the confidence.                    *)
Parallel(a, b) == a.label = b.label /\ a.src = b.src /\ a.dst = b.dst

(* Where a node leads to: along the walked edges, out of a channel to its  *)
(* consumers, out of a file into its symbols.                              *)
Outgoing(g, id) ==
    {[hop |-> Hop(e, e.src, e.dst), guess |-> e.guess] : e \in {f \in g.edges : Walked(g, f) /\ f.src = id}}
    \cup {[hop |-> Hop(e, e.dst, e.src), guess |-> e.guess] :
             e \in {f \in g.edges : f.label \in {"SUBSCRIBES", "DEFINED_IN"} /\ f.dst = id}}

(* A finite set in the order of a relation, the smallest element first.    *)
Sorted(S, before) ==
    [i \in 1..Cardinality(S) |-> CHOOSE x \in S : Cardinality({y \in S : <<y, x>> \in before}) = i - 1]

InIdOrder(ids) == Sorted(ids, {p \in ids \X ids : p[1] < p[2]})

(* The elements of a sequence at some of its positions.                    *)
Picked(s, positions) == LET at == InIdOrder(positions) IN [i \in DOMAIN at |-> s[at[i]]]

(* The sorts are stable, and guesses follow the stored edges.              *)
Before(a, b) ==
    \/ Rank(a.hop.label) < Rank(b.hop.label)
    \/ a.hop.label = b.hop.label /\ a.hop.dst < b.hop.dst
    \/ a.hop.label = b.hop.label /\ a.hop.dst = b.hop.dst /\ ~a.guess /\ b.guess

(* The hops of a node in the order in which they are walked.               *)
Onward(g, id) ==
    LET all == Outgoing(g, id)
        next == Sorted(all, {p \in all \X all : Before(p[1], p[2])})
    IN  [i \in DOMAIN next |-> next[i].hop]

Anchors(g) == NodesOf(g, {"Screen", "ExtensionContext", "Command"})

PublishedTo(g) == {e.dst : e \in {f \in g.edges : f.label = "PUBLISHES"}}
Consumed(g) == {e.dst : e \in {f \in g.edges : f.label = "SUBSCRIBES"}}
ExternalChannels(g) == (NodesOf(g, {"Channel"}) \cap Consumed(g)) \ PublishedTo(g)

HopsOf(found) == UNION {ToSet(f.hops) : f \in ToSet(found)}

(* Faulty variant: an endpoint that any edge fetches has no flow.          *)
RestUnfetched(g, found) ==
    (NodesOf(g, {"Endpoint"}) \ {e.dst : e \in {f \in g.edges : f.label = "FETCHES"}})
    \cup ExternalChannels(g)

(* The triggers after the anchors: endpoints that no anchor's walk fetched *)
(* and channels that nothing local publishes to.                           *)
RestTriggers(g, found) ==
    (NodesOf(g, {"Endpoint"}) \ {h.dst : h \in {i \in HopsOf(found) : i.label = "FETCHES"}})
    \cup ExternalChannels(g)

(* anchor_probes: how many triggers of each kind the graph holds.          *)
AnchorProbes(g) ==
    [k \in {"Screen", "ExtensionContext", "Command", "Endpoint", "Channel"} |->
        Cardinality(IF k = "Channel" THEN ExternalChannels(g) ELSE NodesOf(g, {k}))]

-----------------------------------------------------------------------------
FlowInit ==
    /\ slice \in FlowGraphs
    /\ phase = "idle" /\ todo = <<>> /\ walk = {} /\ flows = <<>>

Trace(g) ==
    /\ phase = "idle"
    /\ slice' = g
    /\ phase' = "anchors" /\ todo' = InIdOrder(Anchors(g))
    /\ UNCHANGED <<walk, flows>>

Begin ==
    /\ walk = {} /\ todo # <<>>
    /\ walk' = {[trigger |-> Head(todo), stack |-> <<[id |-> Head(todo), depth |-> 0]>>,
                 visited |-> {}, hops |-> <<>>, limited |-> FALSE]}
    /\ todo' = Tail(todo)
    /\ UNCHANGED <<slice, phase, flows>>

(* Faulty variant: the bound ends the walk without a word.                 *)
TooDeepSilently(w, top) == w

(* At the bound: whatever the node leads to is not followed.               *)
TooDeep(w, top) == [w EXCEPT !.limited = @ \/ Onward(slice, top.id) # <<>>]

(* Faulty variant: the last of two parallel hops is kept.                  *)
LastKept(hops, next) ==
    {i \in DOMAIN next : \A h \in ToSet(hops) \cup {next[j] : j \in (i + 1)..Len(next)} : ~Parallel(h, next[i])}

(* seen_hops: a hop that is there already, or that comes before, is left   *)
(* out.                                                                    *)
Unseen(hops, next) ==
    {i \in DOMAIN next : \A h \in ToSet(hops) \cup {next[j] : j \in 1..(i - 1)} : ~Parallel(h, next[i])}

(* The ends of all hops are walked, also of those left out.                *)
Expand(w, top) ==
    LET next == Onward(slice, top.id)
        entries == [i \in DOMAIN next |-> [id |-> next[i].dst, depth |-> top.depth + 1]]
    IN  [w EXCEPT !.visited = @ \cup {top.id}, !.hops = @ \o Picked(next, Unseen(w.hops, next)),
                  !.stack = @ \o Reverse(entries)]

Pop(w) ==
    LET top == Last(w.stack)
        rest == [w EXCEPT !.stack = Front(@)]
    IN  CASE top.depth >= MAX_DEPTH -> TooDeep(rest, top)
          [] top.depth < MAX_DEPTH /\ top.id \in w.visited -> rest
          [] top.depth < MAX_DEPTH /\ top.id \notin w.visited /\ top.id \in NodesOf(slice, {"Gap"}) ->
                [rest EXCEPT !.visited = @ \cup {top.id}]
          [] OTHER -> Expand(rest, top)

PopEntry ==
    /\ \E w \in walk : w.stack # <<>> /\ walk' = {Pop(w)}
    /\ UNCHANGED <<slice, phase, todo, flows>>

HasGap(hops) == \E h \in ToSet(hops) : h.conf = "Gap" \/ h.dst \in NodesOf(slice, {"Gap"})

Status(w) ==
    CASE HasGap(w.hops) \/ w.hops = <<>> \/ w.limited -> "Partial"
      [] ~HasGap(w.hops) /\ w.hops # <<>> /\ ~w.limited /\ \A h \in ToSet(w.hops) : h.conf = "Confirmed" -> "Verified"
      [] OTHER -> "Inferred"

(* Tenths.                                                                 *)
HopWeight(conf) ==
    CASE conf = "Confirmed" -> 10 [] conf = "InferredStrong" -> 6 [] conf = "InferredWeak" -> 3 [] OTHER -> 0

(* The mean hop weight as the sum and the number of hops.                  *)
Score(hops) ==
    LET of(conf) == Cardinality({i \in DOMAIN hops : hops[i].conf = conf})
        weight(conf) == HopWeight(conf) * of(conf)
    IN  [sum |-> weight("Confirmed") + weight("InferredStrong") + weight("InferredWeak"), of |-> Len(hops)]

Flow(w) == [trigger |-> w.trigger, hops |-> w.hops, status |-> Status(w), score |-> Score(w.hops), depth_limited |-> w.limited]

EndWalk ==
    /\ \E w \in walk : w.stack = <<>> /\ flows' = Append(flows, Flow(w))
    /\ walk' = {}
    /\ UNCHANGED <<slice, phase, todo>>

TraceRest ==
    /\ phase = "anchors" /\ walk = {} /\ todo = <<>>
    /\ phase' = "rest" /\ todo' = InIdOrder(RestTriggers(slice, flows))
    /\ UNCHANGED <<slice, walk, flows>>

Return ==
    /\ phase = "rest" /\ walk = {} /\ todo = <<>>
    /\ phase' = "done"
    /\ LET before == {p \in (DOMAIN flows) \X (DOMAIN flows) :
                         \/ flows[p[1]].trigger < flows[p[2]].trigger
                         \/ flows[p[1]].trigger = flows[p[2]].trigger /\ p[1] < p[2]}
           order == Sorted(DOMAIN flows, before)
       IN  flows' = [i \in DOMAIN order |-> flows[order[i]]]
    /\ UNCHANGED <<slice, todo, walk>>

TraceStep == Begin \/ PopEntry \/ EndWalk \/ TraceRest \/ Return

FlowSpec == FlowInit /\ [][Trace(slice) \/ TraceStep]_flowVars

-----------------------------------------------------------------------------
(* What a trigger leads to, without the walk: the least set of nodes that  *)
(* holds it and, with a node that is not a gap, the ends of its hops.  A   *)
(* guess beside a stored edge adds nothing.                                *)
Leads(g, id) ==
    IF id \in NodesOf(g, {"Gap"}) THEN {}
    ELSE {o.hop : o \in {o \in Outgoing(g, id) :
                           o.guess => \A p \in Outgoing(g, id) : Parallel(p.hop, o.hop) => p.guess}}
IdsOf(g) == DOMAIN g.node \cup {e.src : e \in g.edges} \cup {e.dst : e \in g.edges}
Reached(g, id) ==
    LET ends == [n \in IdsOf(g) |-> {h.dst : h \in Leads(g, n)}]
        closed == {ids \in SUBSET IdsOf(g) : id \in ids /\ \A n \in ids : ends[n] \subseteq ids}
    IN  {n \in IdsOf(g) : \A ids \in closed : n \in ids}
AllHops(g, id) == UNION {Leads(g, n) : n \in Reached(g, id)}

(* A flow is never completed silently: its hops are hops that its trigger  *)
(* leads to, each once; unless it is partial they are all of them and none *)
(* enters a gap, however the depth bound met nodes that were visited on a  *)
(* longer way before; and it is verified only if every one is confirmed.   *)
FlowFits(g, f) ==
    LET hops == ToSet(f.hops)
        all == AllHops(g, f.trigger)
    IN  /\ hops \subseteq all /\ Len(f.hops) = Cardinality(hops)
        /\ f.status # "Partial" =>
              hops = all /\ all # {} /\ \A h \in all : h.conf # "Gap" /\ h.dst \notin NodesOf(g, {"Gap"})
        /\ ~f.depth_limited => hops = all
        /\ f.status = "Verified" <=> f.status # "Partial" /\ f.score.sum = 10 * f.score.of

FlowIsWhole == phase = "done" => \A f \in ToSet(flows) : FlowFits(slice, f)

(* No entry point is lost: when the trace is done every anchor and every   *)
(* external channel has a flow, every endpoint a flow or a walk of an      *)
(* anchor that fetched it, and there is no flow exactly when the probes    *)
(* count no trigger of any kind.                                           *)
TriggersCovered ==
    phase = "done" =>
        LET triggers == {f.trigger : f \in ToSet(flows)}
        IN  /\ Anchors(slice) \cup ExternalChannels(slice) \subseteq triggers
            /\ NodesOf(slice, {"Endpoint"}) \subseteq triggers \cup {h.dst : h \in HopsOf(flows)}
            /\ Len(flows) = Cardinality(triggers)
            /\ flows = <<>> <=> \A k \in DOMAIN AnchorProbes(slice) : AnchorProbes(slice)[k] = 0

(* The trace misses neither an entry point nor a hop without saying so.    *)
TraceIsWhole == FlowIsWhole /\ TriggersCovered

-----------------------------------------------------------------------------
(* The inductive invariant.  A slice comes from a store that keeps one     *)
(* edge between two nodes under a label; its ids are numbered in their     *)
(* order.                                                                  *)
SliceFits(g) ==
    /\ IsFiniteSet(DOMAIN g.node) /\ IsFiniteSet(g.edges) /\ IdsOf(g) \subseteq Int
    /\ \A e \in g.edges : e.guess \in BOOLEAN
    /\ \A e, f \in g.edges : Parallel(e, f) /\ e.guess = f.guess => e = f

ASSUME FlowAssumption == MAX_DEPTH \in Nat /\ \A g \in FlowGraphs : SliceFits(g) /\ \A e \in g.edges : ~e.guess

HopRecords(g) == UNION {Leads(g, n) : n \in IdsOf(g)}
WalkRecords(g) == [trigger : DOMAIN g.node, stack : Seq([id : IdsOf(g), depth : Nat]), visited : SUBSET IdsOf(g),
                   hops : Seq(HopRecords(g)), limited : BOOLEAN]
FlowRecords(g) == [trigger : DOMAIN g.node, hops : Seq(HopRecords(g)), status : {"Partial", "Verified", "Inferred"},
                   score : [sum : Int, of : Nat], depth_limited : BOOLEAN]

(* The hops are those of the visited nodes.  What the trigger leads to was *)
(* visited, waits on the stack or leads nowhere, unless the bound was met. *)
WalkFits(g, w) ==
    LET waiting == {e.id : e \in ToSet(w.stack)}
    IN  /\ w.visited \cup waiting \subseteq Reached(g, w.trigger)
        /\ ToSet(w.hops) = UNION {Leads(g, n) : n \in w.visited}
        /\ IsInjective(w.hops)
        /\ w.limited \/ \A id \in {w.trigger} \cup {h.dst : h \in ToSet(w.hops)} :
                             id \in w.visited \cup waiting \/ Leads(g, id) = {}

(* Every trigger is traced once, and none is forgotten.                    *)
TriggersFit ==
    LET traced == {f.trigger : f \in ToSet(flows)}
        waiting == ToSet(todo) \cup {w.trigger : w \in walk}
    IN  /\ IsInjective(todo) /\ \A w \in walk : w.trigger \notin ToSet(todo)
        /\ \A i, j \in DOMAIN flows : flows[i].trigger = flows[j].trigger => i = j
        /\ traced \cap waiting = {}
        /\ phase = "idle" => traced \cup waiting = {}
        /\ phase = "anchors" => traced \cup waiting = Anchors(slice)
        /\ phase \in {"rest", "done"} =>
              /\ Anchors(slice) \cup ExternalChannels(slice) \subseteq traced \cup waiting
              /\ traced \cup waiting \subseteq Anchors(slice) \cup ExternalChannels(slice) \cup NodesOf(slice, {"Endpoint"})
              /\ NodesOf(slice, {"Endpoint"}) \subseteq traced \cup waiting \cup {h.dst : h \in HopsOf(flows)}
        /\ phase = "done" => waiting = {}

TraceInv ==
    /\ SliceFits(slice)
    /\ phase \in {"idle", "anchors", "rest", "done"}
    /\ todo \in Seq(DOMAIN slice.node)
    /\ walk \subseteq WalkRecords(slice) /\ \A w, v \in walk : w = v
    /\ flows \in Seq(FlowRecords(slice))
    /\ \A w \in walk : WalkFits(slice, w)
    /\ \A f \in ToSet(flows) : FlowFits(slice, f) /\ f.score = Score(f.hops)
    /\ TriggersFit
=============================================================================
