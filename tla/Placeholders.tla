---------------------------- MODULE Placeholders ----------------------------
(***************************************************************************)
(* Facts and placeholder nodes (crates/core-graph/src/placeholder.rs).     *)
(* An id is a tuple whose first element is its scheme.  ev is the set of   *)
(* [path, commit] that a fact cites.  A node that an edge needs and no     *)
(* extractor declares is minted as a placeholder with a boundary:          *)
(* external, internal or unresolved.                                       *)
(***************************************************************************)
EXTENDS SequencesExt

(* The elements of a set, in some order.                                   *)
InSomeOrder(S) == FoldSet(LAMBDA x, s : Append(s, x), <<>>, S)

(* The first of two results that is one.                                   *)
OrElse(first, second) == IF first # {} THEN first ELSE second

LabelForId(id) ==
    CASE id[1] = "file" -> "File"
      [] id[1] = "sym" -> "Symbol"
      [] id[1] = "mod" -> "Module"
      [] id[1] = "ep" -> "Endpoint"
      [] id[1] = "res" -> "Resource"
      [] id[1] = "chan" -> "Channel"
      [] id[1] = "gap" -> "Gap"
      [] id[1] = "screen" -> "Screen"
      [] OTHER -> "Unknown"

NodeFact(id, conf, ev) ==
    [id |-> id, label |-> LabelForId(id), ph |-> FALSE, boundary |-> "none", conf |-> conf, ev |-> ev]

EdgeFact(src, label, dst, conf, ev) ==
    [src |-> src, label |-> label, dst |-> dst, conf |-> conf, ev |-> ev]

External == "external"
Internal == "internal"
Unresolved == "unresolved"

Mint(id, boundary, ev) ==
    [id |-> id, label |-> LabelForId(id), ph |-> TRUE, boundary |-> boundary,
     conf |-> IF boundary = Unresolved THEN "Gap" ELSE "Confirmed", ev |-> ev]

(* A confirmed boundary cites the reference that established it.           *)
PlaceholderNode(id, edge, boundary) ==
    Mint(id, IF edge.ev = {} THEN Unresolved ELSE boundary, edge.ev)

IsGap(node) == node.conf # "Confirmed" \/ node.boundary \notin {External, Internal}

-----------------------------------------------------------------------------
(* Faulty variant: the first placeholder of an id wins.                    *)
FirstSurvives(group) == Head(group)

(* What several placeholders of one id become.                             *)
Survivor(group) ==
    LET gap == SelectInSeq(group, IsGap)
    IN  CASE gap # 0 -> group[gap]
          [] gap = 0 /\ \A i \in DOMAIN group : group[i].boundary = group[1].boundary -> group[1]
          [] OTHER -> Mint(group[1].id, Unresolved, group[1].ev)

(* Ids that only placeholders stand for keep one node, at the position of  *)
(* the first; a declared node beside a placeholder leaves both.            *)
ReconcilePlaceholders(nodes) ==
    LET group == [i \in DOMAIN nodes |-> SelectSeq(nodes, LAMBDA n : n.id = nodes[i].id)]
        merged == {i \in DOMAIN nodes : Len(group[i]) > 1 /\ \A k \in DOMAIN group[i] : group[i][k].ph}
        first(i) == \A k \in DOMAIN nodes : k < i => nodes[k].id # nodes[i].id
    IN  FlattenSeq([i \in DOMAIN nodes |->
            CASE i \notin merged -> <<nodes[i]>>
              [] i \in merged /\ first(i) -> <<Survivor(group[i])>>
              [] OTHER -> <<>>])

(* What the references to a missing id make of it: one that does not       *)
(* resolve, or two that disagree, leave it unresolved.                     *)
HeldBoundary(kinds) ==
    IF Unresolved \in kinds \/ \E a, b \in kinds : a # b THEN Unresolved
    ELSE CHOOSE k \in kinds : TRUE

(* The references to ids without a node, each with the edge that makes it. *)
MissingEndpoints(nodes, edges) ==
    LET known == {nodes[i].id : i \in DOMAIN nodes}
    IN  UNION {{<<id, e>> : id \in {e.src, e.dst} \ known} : e \in edges}

(* close_over_endpoints: boundary gives each missing reference the kind    *)
(* its extractor classifies it under.  Edges are a set, so which reference *)
(* is cited among several that settle the kind is left open by CHOOSE.     *)
CloseOverEndpoints(nodes, boundary) ==
    LET refs(id) == {r \in DOMAIN boundary : r[1] = id}
        kind(id) == HeldBoundary({boundary[r] : r \in refs(id)})
        cited(id) == CHOOSE r \in refs(id) : kind(id) = Unresolved \/ boundary[r] = kind(id)
    IN  nodes \o InSomeOrder({PlaceholderNode(id, cited(id)[2], kind(id)) : id \in {r[1] : r \in DOMAIN boundary}})

-----------------------------------------------------------------------------
(* What an extractor keeps of one file, and of the files merged so far:    *)
(* nodes in order, edges, references to resolve once every file is there,  *)
(* and the declarations they resolve to.                                   *)
Facts(nodes, edges, pending) ==
    [nodes |-> nodes, edges |-> edges, pending |-> pending, types |-> <<>>, funcs |-> <<>>, pkgs |-> {}]

NoFacts == Facts(<<>>, {}, {})

MergeFacts(a, b) ==
    [nodes |-> a.nodes \o b.nodes, edges |-> a.edges \cup b.edges, pending |-> a.pending \cup b.pending,
     types |-> a.types \o b.types, funcs |-> a.funcs \o b.funcs, pkgs |-> a.pkgs \cup b.pkgs]

(* retarget_commit: reused facts cite the commit that is recovered now.    *)
RetargetCommit(facts, commit) ==
    LET at(f) == [f EXCEPT !.ev = {[e EXCEPT !.commit = commit] : e \in @}]
    IN  [facts EXCEPT !.nodes = [i \in DOMAIN @ |-> at(@[i])],
                      !.edges = {at(e) : e \in @},
                      !.pending = {at(p) : p \in @}]

LastOf(s, Test(_)) ==
    LET i == SelectLastInSeq(s, Test) IN IF i = 0 THEN {} ELSE {s[i]}
=============================================================================
