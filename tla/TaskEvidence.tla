---------------------------- MODULE TaskEvidence ----------------------------
(***************************************************************************)
(* What a model is asked about one gap: the plan read from a graph         *)
(* snapshot (task_evidence/planning.rs), the evidence read along it        *)
(* (task_evidence.rs), the report that accounts for every request and the  *)
(* contract a prepared task is held to (agents prepared.rs and             *)
(* source_basis.rs).                                                       *)
(*                                                                         *)
(* A graph is [nodes, edges], sequences in storage order.  A node is       *)
(* [id, gap, tier, refs, digest, source, label]: refs are its citations,   *)
(* source and label the at most one property of that name a gap carries.   *)
(* An edge is [src, label, dst, digest].  A citation is [repo, span].      *)
(* A text is [v, secret, bytes].  A binding is [repo, receipt, digest].  A *)
(* receipt is [repo, fact, digest, ranges, span, file, text]: what it is a *)
(* receipt of, the citations it covers, the bytes of its span and of the   *)
(* captured file it lies in, and its text.                                 *)
(***************************************************************************)
EXTENDS Naturals, FiniteSets, SequencesExt

CONSTANTS
    MAX_REQUESTS,      \* requests a plan may hold
    MAX_CANDIDATES,    \* candidates a task may hold
    SpanBytes,         \* bytes of one evidence text
    TotalBytes,        \* bytes of all evidence texts
    ValidationBytes,   \* bytes of captured files read for one task
    Registered         \* repositories with a registered source

ASSUME LimitsAssumption ==
    /\ MAX_REQUESTS \in Nat /\ MAX_REQUESTS > 2
    /\ MAX_CANDIDATES \in Nat \ {0}
    /\ {SpanBytes, TotalBytes, ValidationBytes} \subseteq Nat

NodeFact(id) == <<"node", id>>
EdgeFact(e) == <<"edge", e.src, e.label, e.dst>>

(* The sum of a sequence of sizes.                                         *)
Total(s) == LET sum[n \in 0..Len(s)] == IF n = 0 THEN 0 ELSE sum[n - 1] + s[n] IN sum[Len(s)]

First(seq, Test(_)) == SelectInSeq(seq, Test)
Has(seq, Test(_)) == First(seq, Test) > 0
Take(seq, Test(_)) == seq[First(seq, Test)]

-----------------------------------------------------------------------------
(* planning.rs                                                             *)

(* khop_subgraph with k = 2.                                               *)
Neighbours(g, ids) ==
    ids \cup UNION {{e.src, e.dst} : e \in {f \in Range(g.edges) : {f.src, f.dst} \cap ids # {}}}
InContext(g, focus) == Neighbours(g, Neighbours(g, {focus}))

(* The edge whose end the gap stands for, if there is one.                 *)
Slot(g, gap) ==
    LET into == SelectSeq(g.edges, LAMBDA e : e.dst = gap)
        from == SelectSeq(g.edges, LAMBDA e : e.src = gap)
    IN  IF into # <<>> THEN <<Head(into)>> ELSE IF from # <<>> THEN <<Head(from)>> ELSE <<>>

SourceOf(g, gap) ==
    LET slot == Slot(g, gap.id)
    IN  IF slot = <<>> THEN gap.source
        ELSE {IF slot[1].dst = gap.id THEN slot[1].src ELSE slot[1].dst}

EdgeLabel(g, gap) ==
    LET slot == Slot(g, gap.id)
    IN  IF slot # <<>> THEN slot[1].label
        ELSE IF gap.label # {} THEN CHOOSE l \in gap.label : TRUE ELSE "CALLS"

Request(node, candidate) ==
    [fact |-> NodeFact(node.id), digest |-> node.digest, refs |-> node.refs, candidate |-> candidate]

(* The first node of an id, and the first that is a gap.                   *)
IsNode(g, id) == Has(g.nodes, LAMBDA n : n.id = id)
NodeOf(g, id) == Take(g.nodes, LAMBDA n : n.id = id)
IsGap(g, id) == Has(g.nodes, LAMBDA n : n.id = id /\ n.gap)
GapOf(g, id) == Take(g.nodes, LAMBDA n : n.id = id /\ n.gap)

Plannable(g, gapId) == IsGap(g, gapId) /\ \E s \in SourceOf(g, GapOf(g, gapId)) : IsNode(g, s)

(* The cited non-gap facts within two hops.                                *)
Near(g, src, gapId) ==
    SelectSeq(g.nodes, LAMBDA n :
        /\ n.id \notin {src, gapId} /\ n.id \in InContext(g, gapId)
        /\ ~n.gap /\ n.tier # "gap" /\ n.refs # <<>>)

(* plan: the source fact, the gap, then every cited non-gap fact within    *)
(* two hops, as many as fit; the others are counted.                       *)
PlanOf(g, gapId) ==
    LET gap == GapOf(g, gapId)
        src == CHOOSE s \in SourceOf(g, gap) : IsNode(g, s)
        near == Near(g, src, gapId)
        room == MAX_REQUESTS - 2
        kept == IF Len(near) > room THEN room ELSE Len(near)
    IN  [gap |-> gapId, source |-> src, label |-> EdgeLabel(g, gap), slot |-> Slot(g, gapId),
         requests |-> <<Request(NodeOf(g, src), FALSE), Request(gap, FALSE)>>
                        \o [i \in 1..kept |-> Request(near[i], TRUE)],
         unplanned |-> Len(near) - kept]

-----------------------------------------------------------------------------
(* What the graph says of the planned facts' sources: a fact's digest and  *)
(* its binding, or that the fact is gone.                                  *)

DigestIn(g, fact) ==
    IF fact[1] = "node"
    THEN LET i == First(g.nodes, LAMBDA n : NodeFact(n.id) = fact)
         IN  IF i = 0 THEN {} ELSE {g.nodes[i].digest}
    ELSE LET i == First(g.edges, LAMBDA e : EdgeFact(e) = fact)
         IN  IF i = 0 THEN {} ELSE {g.edges[i].digest}

Selection(g, bindings, fact) ==
    [digest |-> DigestIn(g, fact),
     binding |-> IF fact \in DOMAIN bindings THEN {bindings[fact]} ELSE {}]

PlannedFacts(plan) ==
    {plan.requests[i].fact : i \in DOMAIN plan.requests} \cup {EdgeFact(e) : e \in Range(plan.slot)}

(* read_source_selection_snapshot                                          *)
Selections(g, bindings, plan) == [f \in PlannedFacts(plan) |-> Selection(g, bindings, f)]

(* report: nothing is read yet.                                            *)
Report(plan) ==
    [lookahead |-> Len(plan.requests), attempts |-> 0, evidence |-> 0, candidates |-> 0,
     validated |-> 0, omissions |-> <<>>, notRead |-> Len(plan.requests),
     tail |-> plan.unplanned > 0, stop |-> "neighborhood_exhausted"]

NoPreparation ==
    [graph |-> <<>>, plan |-> <<>>, preliminary |-> <<>>, authoritative |-> <<>>,
     report |-> <<>>, selected |-> {}, evidence |-> <<>>, candidates |-> <<>>, sources |-> <<>>]

Planned(g, gapId) ==
    [NoPreparation EXCEPT !.graph = g, !.plan = PlanOf(g, gapId), !.report = Report(PlanOf(g, gapId))]

(* include: a fact takes part only if its selection is the one the guards  *)
(* were taken for and its digest the planned one.  A binding of another    *)
(* digest is an invalid selection.                                         *)
Included(p, fact, digest) ==
    /\ p.preliminary[fact] = p.authoritative[fact]
    /\ p.authoritative[fact].digest = {digest}
    /\ \A b \in p.authoritative[fact].binding : b.digest = digest

SlotIncluded(p) ==
    \A e \in Range(p.plan.slot) : Included(p, EdgeFact(e), e.digest)

(* The bytes validated once the receipt's file is read too.                *)
Charged(p, receipt) == p.report.validated + receipt.file

(* The captured text of a bound fact, read under the retention guard.      *)
CapturedReadable(p, request, binding, retained, receipts) ==
    /\ binding.repo \in Registered
    /\ binding.receipt \in retained
    /\ LET r == receipts[binding.receipt]
       IN  /\ r.repo = binding.repo /\ r.fact = request.fact /\ r.digest = request.digest
           /\ request.refs[1] \in r.ranges
           /\ r.span > 0 /\ r.span <= SpanBytes
           /\ Charged(p, r) <= ValidationBytes

(* The request that is read next; the loop stops at the candidate limit.   *)
NextRequest(p) == p.report.attempts + 1
MoreToRead(p) ==
    /\ Len(p.candidates) < MAX_CANDIDATES
    /\ NextRequest(p) <= Len(p.plan.requests)

Attempted(p) ==
    [p EXCEPT !.report.attempts = @ + 1, !.report.notRead = @ - 1,
              !.selected = @ \cup {p.plan.requests[NextRequest(p)].fact}]

(* The request yields no evidence, and the report says which and why.      *)
Omitted(p, reason) ==
    [Attempted(p) EXCEPT
        !.report.omissions = Append(@, [index |-> p.report.attempts,
                                        fact |-> p.plan.requests[NextRequest(p)].fact,
                                        reason |-> reason])]

(* The request's text becomes the next numbered evidence, of a candidate   *)
(* or of the source side.                                                  *)
Supplied(p, text, origin) ==
    LET request == p.plan.requests[NextRequest(p)]
        id == Len(p.evidence) + 1
        q == [Attempted(p) EXCEPT
                 !.evidence = Append(@, [id |-> id, ref |-> request.refs[1], text |-> text,
                                         fact |-> request.fact, origin |-> origin]),
                 !.candidates = IF request.candidate
                                THEN Append(@, [node |-> request.fact[2], ids |-> {id}]) ELSE @,
                 !.sources = IF request.candidate THEN @ ELSE Append(@, id)]
    IN  [q EXCEPT !.report.evidence = Len(q.evidence), !.report.candidates = Len(q.candidates)]

SuppliedCaptured(p, binding, receipt) ==
    [Supplied(p, receipt.text, [receipt |-> {binding.receipt}, file |-> receipt.file])
        EXCEPT !.report.validated = Charged(p, receipt)]

WorkingTreeUnverified == [receipt |-> {}, file |-> 0]

(* legacy_text: the cited span of the working tree, if it can be read.     *)
LegacyText(ref, tree) == IF ref.repo \in Registered /\ ref \in DOMAIN tree THEN tree[ref] ELSE {}

(* Faulty variant: the reason stays what it was before the loop.           *)
StopReasonUnset(p) == p.report.stop

(* The loop's last words on why it stopped.                                *)
StopReason(p) ==
    IF Len(p.candidates) = MAX_CANDIDATES THEN "candidate_limit"
    ELSE IF p.report.attempts = MAX_REQUESTS /\ p.plan.unplanned > 0 THEN "attempt_limit"
    ELSE p.report.stop

HasMembership(p) == p.sources # <<>> /\ p.candidates # <<>>

(* The task and its source basis.                                          *)
TaskOf(p) ==
    [gap |-> p.plan.gap, source |-> p.plan.source, label |-> p.plan.label,
     evidence |-> p.evidence, candidates |-> p.candidates, sources |-> p.sources,
     snapshot |-> p.graph,
     selected |-> {[fact |-> f, sel |-> p.authoritative[f]] :
                       f \in p.selected \cup {EdgeFact(e) : e \in Range(p.plan.slot)}},
     report |-> [p.report EXCEPT !.stop = StopReason(p)]]

-----------------------------------------------------------------------------
(* TaskSourceBasisV2::validate: what the report says adds up, every        *)
(* evidence and every omission is of a selected fact, and no fact but the  *)
(* slot is selected without one.                                           *)

StopAccounted(r) ==
    \/ r.stop = "candidate_limit" /\ r.candidates = MAX_CANDIDATES
    \/ r.stop = "neighborhood_exhausted" /\ ~r.tail /\ r.notRead = 0
    \/ r.stop = "attempt_limit" /\ r.attempts = MAX_REQUESTS /\ r.tail

CountsAccounted(t) ==
    LET r == t.report
    IN  /\ r.lookahead <= MAX_REQUESTS /\ r.attempts <= r.lookahead
        /\ r.notRead = r.lookahead - r.attempts
        /\ r.evidence = Len(t.evidence) /\ r.candidates = Len(t.candidates)
        /\ r.candidates <= MAX_CANDIDATES /\ r.evidence <= MAX_CANDIDATES + 4
        /\ r.validated <= ValidationBytes
        /\ r.attempts = r.evidence + Len(r.omissions)
        /\ Cardinality(t.selected) <= r.attempts + 1
        /\ r.validated = Total([i \in DOMAIN t.evidence |-> t.evidence[i].origin.file])

BindingOf(t, fact) == (CHOOSE s \in t.selected : s.fact = fact).sel.binding

OriginsAccounted(t) ==
    LET facts == {s.fact : s \in t.selected}
        ends == {NodeFact(t.source), NodeFact(t.gap)}
        justified == {e.fact : e \in Range(t.evidence)} \cup {o.fact : o \in Range(t.report.omissions)}
        extra == facts \ justified
    IN  /\ ends \cup {NodeFact(c.node) : c \in Range(t.candidates)} \subseteq facts
        /\ \A e \in Range(t.evidence) :
              /\ e.fact \in facts
              /\ e.id \in Range(t.sources) => e.fact \in ends
              /\ \A c \in Range(t.candidates) : e.id \in c.ids => e.fact = NodeFact(c.node)
              /\ e.origin.receipt = {b.receipt : b \in BindingOf(t, e.fact)}
              /\ \A b \in BindingOf(t, e.fact) : b.repo = e.ref.repo
        /\ \A s \in t.selected : \A b \in s.sel.binding : s.sel.digest = {b.digest}
        /\ \A i \in DOMAIN t.report.omissions :
              LET o == t.report.omissions[i]
              IN  /\ o.index < t.report.attempts /\ o.fact \in facts
                  /\ i > 1 => t.report.omissions[i - 1].index < o.index
                  /\ o.reason = "legacy_read_unavailable" => BindingOf(t, o.fact) = {}
        /\ \A f \in extra : extra = {f} /\ f[1] = "edge" /\ f[3] = t.label

BasisAccounts(t) == StopAccounted(t.report) /\ CountsAccounted(t) /\ OriginsAccounted(t)

(* The byte bounds of PreparedAgentTask::new and AgentBroker::validate_task. *)
WithinBytes(t) ==
    /\ \A e \in Range(t.evidence) : e.text.bytes <= SpanBytes
    /\ Total([i \in DOMAIN t.evidence |-> t.evidence[i].text.bytes]) <= TotalBytes
=============================================================================
