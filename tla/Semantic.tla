------------------------------ MODULE Semantic ------------------------------
(***************************************************************************)
(* The semantic resolver (crates/semantic): unresolved hops of a flow      *)
(* slice, the candidates that could fill them, the evaluation that opens   *)
(* the gate, and the overlay that replaces a filled gap.  Texts and their  *)
(* embeddings are abstracted to a similarity in tenths.                    *)
(***************************************************************************)
EXTENDS FlowTracer

CONSTANTS
    NEIGHBORS,      \* how many neighbours a search returns
    MaterialisedId  \* MaterialisedId[r]: the channel that a resource would become

HopKind(label) == IF label = "CALLS" THEN "call" ELSE "channel"

UnresolvedEdge(g, e) ==
    /\ e.dst \in NodesOf(g, {"Gap"}) /\ e.label \in {"PUBLISHES", "SUBSCRIBES", "CALLS"}
    /\ g.node[e.dst].cited

(* graph_inputs.  Only a channel has a subtype that must agree.            *)
Subtype(g, kind, id) == IF kind = "channel" THEN g.node[id].sub ELSE ""

UnresolvedHops(g) ==
    {[gap |-> e.dst, source |-> e.src, label |-> e.label,
      key |-> <<HopKind(e.label), Subtype(g, HopKind(e.label), e.dst)>>] : e \in {f \in g.edges : UnresolvedEdge(g, f)}}

(* A resource of a queue or a topic stands for a channel that is not       *)
(* there yet; any other resource is no candidate.                          *)
FillCandidates(g) ==
    LET cited(labels) == {n \in NodesOf(g, labels) : g.node[n].cited}
    IN  {[id |-> n, key |-> <<"channel", g.node[n].sub>>, as |-> {}] : n \in cited({"Channel"})}
        \cup {[id |-> n, key |-> <<"call", "">>, as |-> {}] : n \in cited({"Symbol", "Component"})}
        \cup {[id |-> MaterialisedId[n], key |-> <<"channel", g.node[n].sub>>, as |-> {MaterialisedId[n]}] :
                  n \in {r \in cited({"Resource"}) : g.node[r].sub # ""}}

Closer(a, b) == a.sim > b.sim \/ (a.sim = b.sim /\ a.target < b.target)

(* The nearest candidates of the hop's own group.                          *)
Nearest(g, h, sim) ==
    LET all == {[gap |-> h.gap, source |-> h.source, label |-> h.label, target |-> c.id,
                 sim |-> sim[<<h.gap, c.id>>], as |-> c.as] : c \in {d \in FillCandidates(g) : d.key = h.key}}
    IN  {p \in all : Cardinality({q \in all : Closer(q, p)}) < NEIGHBORS}

Propose(g, sim) == UNION {Nearest(g, h, sim) : h \in UnresolvedHops(g)}

-----------------------------------------------------------------------------
(* The paired evaluation: pairs of [score, match], a floor in tenths.      *)

Counts(pairs, threshold) ==
    LET hits(match, predicted) ==
            Cardinality({i \in DOMAIN pairs : pairs[i].match = match /\ (pairs[i].score >= threshold) = predicted})
    IN  [tp |-> hits(TRUE, TRUE), fp |-> hits(FALSE, TRUE), fn |-> hits(TRUE, FALSE)]

MeetsFloor(c, floor) == c.tp > 0 /\ 10 * c.tp >= floor * (c.tp + c.fp)

(* The number of positives is fixed, so recall is compared by tp.          *)
Better(a, b) ==
    \/ a.count.tp > b.count.tp
    \/ a.count.tp = b.count.tp /\ a.count.fp < b.count.fp
    \/ a.count = b.count /\ a.threshold > b.threshold

Rejected(pairs) ==
    [passed |-> FALSE, threshold |-> 10,
     count |-> [tp |-> 0, fp |-> 0, fn |-> Cardinality({i \in DOMAIN pairs : pairs[i].match})]]

(* Both labels and a floor between 0 and 1, or the preview fails.          *)
EvalValid(pairs, floor) == floor \in 0..10 /\ {TRUE, FALSE} = {pairs[i].match : i \in DOMAIN pairs}

Report(pairs, t) == [passed |-> TRUE, threshold |-> t, count |-> Counts(pairs, t)]

(* A better report replaces one, so the report that is better than every   *)
(* other that meets the floor is left.                                     *)
Evaluate(pairs, floor) ==
    LET meeting == {t \in {pairs[i].score : i \in DOMAIN pairs} : MeetsFloor(Counts(pairs, t), floor)}
    IN  IF meeting = {} THEN Rejected(pairs)
        ELSE Report(pairs, CHOOSE t \in meeting : \A u \in meeting \ {t} : Better(Report(pairs, t), Report(pairs, u)))

(* The first proposal of each gap that reaches the threshold.              *)
GatedProposals(proposals, eval) ==
    LET over == {p \in proposals : p.sim >= eval.threshold}
    IN  IF ~eval.passed THEN {}
        ELSE {p \in over : \A q \in over : q.gap = p.gap => q = p \/ Closer(p, q)}

(* Faulty variant: the filled hop is stated as confirmed.                  *)
AsConfirmedEdge(p) == [src |-> p.source, dst |-> p.target, label |-> p.label, conf |-> "Confirmed", rule |-> FALSE, guess |-> TRUE]

AsEdge(p) == [src |-> p.source, dst |-> p.target, label |-> p.label, conf |-> "InferredStrong", rule |-> FALSE, guess |-> TRUE]

(* The proposals that replace a gap: the edge into it is of Gap confidence.*)
Applied(g, approved) ==
    {p \in approved : /\ p.gap \in NodesOf(g, {"Gap"})
                      /\ \E e \in g.edges : e.src = p.source /\ e.dst = p.gap /\ e.label = p.label /\ e.conf = "Gap"}

MaterialisedChannel == [label |-> "Channel", rule |-> FALSE, sub |-> "staged", cited |-> TRUE]

Overlay(g, approved) ==
    LET applied == Applied(g, approved)
        filled == {p.gap : p \in applied}
        kept == DOMAIN g.node \ filled
        new == (UNION {p.as : p \in applied}) \ kept
    IN  [node |-> [n \in kept \cup new |-> IF n \in kept THEN g.node[n] ELSE MaterialisedChannel],
         edges |-> {e \in g.edges : e.dst \notin filled} \cup {AsEdge(p) : p \in applied}]

-----------------------------------------------------------------------------
(* No edge out of a gap is confirmed: an adapter states it as a gap too.   *)
(* The id of a channel does not begin as that of a gap.                    *)
ASSUME SemanticAssumption ==
    \A g \in FlowGraphs :
        /\ \A e \in g.edges : e.src \in NodesOf(g, {"Gap"}) => e.conf # "Confirmed"
        /\ \A n \in NodesOf(g, {"Resource"}) : g.node[n].cited /\ g.node[n].sub # "" => MaterialisedId[n] \in Int \ GapIds
=============================================================================
