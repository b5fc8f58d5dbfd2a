------------------------- MODULE GraphIngestProofs -------------------------
(***************************************************************************)
(* Proofs about GraphIngest, for any repositories and any trees with what  *)
(* extraction promises of them (TreesAssumption).                          *)
(*                                                                         *)
(* The invariant says whose every fact is: a node of q's id cites q only,  *)
(* an edge was extracted from one repository, links one decision record,   *)
(* or is an observed backing.  Hence a reconcile of r, which deletes what  *)
(* cites r alone, r's nodes and unneeded placeholders, never takes a node  *)
(* or an extracted edge of another repository; hence its second run finds  *)
(* everything as told, and what else it deletes lost its last edge when    *)
(* the first one withdrew an observation or one of its ends.               *)
(***************************************************************************)
EXTENDS GraphIngest, TLAPS

\* A key is a node's or an edge's.
LEMMA Keys ==
    ASSUME NEW k, KeyShaped(k)
    PROVE  /\ IsNode(k) \/ IsEdge(k)
           /\ ~(IsNode(k) /\ IsEdge(k))
           /\ IsNode(k) => k = NodeKey(k[1])
           /\ IsEdge(k) => k = <<k[1], k[2], k[3]>>
<1>1. CASE k = <<k[1]>>
  <2>1. Len(k) = 1
    <3>1. Len(<<k[1]>>) = 1
        OBVIOUS
    <3>2. QED  BY <1>1, <3>1
  <2>2. QED BY <1>1, <2>1 DEF IsNode, IsEdge, NodeKey
<1>2. CASE k = <<k[1], k[2], k[3]>>
  <2>1. Len(k) = 3
    <3>1. Len(<<k[1], k[2], k[3]>>) = 3
        OBVIOUS
    <3>2. QED  BY <1>2, <3>1
  <2>2. QED BY <1>2, <2>1 DEF IsNode, IsEdge, NodeKey
<1>3. QED BY <1>1, <1>2 DEF KeyShaped

\* The key of a node.
LEMMA NodeKeys ==
    ASSUME NEW i
    PROVE  /\ IsNode(NodeKey(i)) /\ NodeKey(i)[1] = i /\ KeyShaped(NodeKey(i))
           /\ ~IsEdge(NodeKey(i))
           /\ \A j : NodeKey(i) = NodeKey(j) => i = j
BY DEF IsNode, IsEdge, NodeKey, KeyShaped

\* The key of an edge.
LEMMA EdgeKeys ==
    ASSUME NEW i, NEW j, NEW l
    PROVE  /\ IsEdge(<<i, j, l>>) /\ KeyShaped(<<i, j, l>>) /\ ~IsNode(<<i, j, l>>)
BY DEF IsNode, IsEdge, KeyShaped

\* The fields of an id.
LEMMA Ids ==
    ASSUME NEW r, NEW n
    PROVE  Id(r, n).repo = r /\ Id(r, n).name = n
BY DEF Id

\* The fields of a row.
LEMMA Rows ==
    ASSUME NEW l, NEW b, NEW p, NEW v
    PROVE  /\ Row(l, b, p, v).label = l /\ Row(l, b, p, v).by = b
           /\ Row(l, b, p, v).ph = p /\ Row(l, b, p, v).v = v
BY DEF Row

-----------------------------------------------------------------------------
(* One transaction.                                                        *)

KeysShaped(g) == \A k \in DOMAIN g.facts : KeyShaped(k)

PatchShaped(p) ==
    /\ \A k \in DOMAIN p.nodes : KeyShaped(k) /\ IsNode(k)
    /\ \A k \in DOMAIN p.edges : KeyShaped(k) /\ IsEdge(k)
    /\ \A k \in p.drop : IsEdge(k)

\* What a patch writes wins over what stays.
LEMMA Patched ==
    ASSUME NEW g, NEW p, PatchShaped(p)
    PROVE  /\ DOMAIN PatchedFacts(g, p) =
                 (DOMAIN g.facts \ DeletedKeys(g, p)) \cup DOMAIN p.nodes \cup DOMAIN p.edges
           /\ \A k \in DOMAIN p.nodes : PatchedFacts(g, p)[k] = p.nodes[k]
           /\ \A k \in DOMAIN p.edges : PatchedFacts(g, p)[k] = p.edges[k]
           /\ \A k \in DOMAIN g.facts \ (DeletedKeys(g, p) \cup DOMAIN p.nodes \cup DOMAIN p.edges) :
                 PatchedFacts(g, p)[k] = g.facts[k]
<1> DEFINE kept == Without(g.facts, DeletedKeys(g, p))
           noded == Over(kept, p.nodes)
<1>1. /\ DOMAIN kept = DOMAIN g.facts \ DeletedKeys(g, p)
      /\ \A k \in DOMAIN kept : kept[k] = g.facts[k]
    BY DEF Without, Restrict
<1>2. /\ DOMAIN noded = DOMAIN kept \cup DOMAIN p.nodes
      /\ \A k \in DOMAIN noded : noded[k] = IF k \in DOMAIN p.nodes THEN p.nodes[k] ELSE kept[k]
    BY DEF Over
<1>3. /\ DOMAIN PatchedFacts(g, p) = DOMAIN noded \cup DOMAIN p.edges
      /\ \A k \in DOMAIN noded \cup DOMAIN p.edges :
            PatchedFacts(g, p)[k] = IF k \in DOMAIN p.edges THEN p.edges[k] ELSE noded[k]
    BY DEF Over, PatchedFacts
<1>4. \A k \in DOMAIN p.nodes : k \notin DOMAIN p.edges
    BY Keys DEF PatchShaped
<1> HIDE DEF kept, noded
<1>5. QED  BY <1>1, <1>2, <1>3, <1>4

\* An association that a patch leaves is of a row that it leaves.
LEMMA Untouched ==
    ASSUME NEW g, NEW p, KeysShaped(g), NEW k \in DOMAIN g.bind, k \notin Invalidated(g, p),
           k \in DOMAIN g.facts, PatchShaped(p)
    PROVE  k \notin DeletedKeys(g, p) /\ k \notin DOMAIN p.nodes /\ k \notin DOMAIN p.edges
<1> DEFINE byEdges == {EdgeTrigger(g, e) : e \in {d \in DeletedKeys(g, p) : IsEdge(d)} \cup DOMAIN p.edges}
           byGone == {NodeDeleteTrigger(g, id) : id \in p.gone}
           byNodes == {IF n \in DOMAIN g.facts \ DeletedKeys(g, p) THEN NodeUpdateTrigger(g, n)
                       ELSE NodeInsertTrigger(g, n) : n \in DOMAIN p.nodes}
<1>1. Invalidated(g, p) = UNION (byEdges \cup byGone \cup byNodes)
    BY DEF Invalidated
<1>2. \A e \in {d \in DeletedKeys(g, p) : IsEdge(d)} \cup DOMAIN p.edges : k \notin EdgeTrigger(g, e)
    BY <1>1
<1>3. \A id \in p.gone : k \notin NodeDeleteTrigger(g, id)
    BY <1>1
<1>4. \A n \in DOMAIN p.nodes : k \notin NodeUpdateTrigger(g, n) \/ k \notin NodeInsertTrigger(g, n)
    BY <1>1
<1>5. k \notin DOMAIN p.edges /\ (k \in DeletedKeys(g, p) => ~IsEdge(k))
    BY <1>2 DEF EdgeTrigger
<1>6. k \notin DOMAIN p.nodes
    BY <1>4 DEF NodeUpdateTrigger, NodeInsertTrigger
<1>7. ASSUME k \in DeletedKeys(g, p) PROVE FALSE
    <2>1. IsNode(k) /\ k = NodeKey(k[1]) /\ ~IsEdge(k)
        BY <1>5, <1>7, Keys DEF KeysShaped
    <2>2. k[1] \in p.gone
        BY <1>7, <2>1 DEF DeletedKeys, PatchShaped
    <2>3. QED  BY <1>3, <2>1, <2>2 DEF NodeDeleteTrigger
<1>8. QED  BY <1>5, <1>6, <1>7

\* The triggers keep associations true.
LEMMA PatchAttests ==
    ASSUME NEW g, NEW p, KeysShaped(g), PatchShaped(p), Attested(g)
    PROVE  /\ Attested(ApplyPatchRows(g, p))
           /\ DOMAIN ApplyPatchRows(g, p).bind = DOMAIN g.bind \ Invalidated(g, p)
           /\ \A k \in DOMAIN ApplyPatchRows(g, p).bind : ApplyPatchRows(g, p).bind[k] = g.bind[k]
<1>1. /\ ApplyPatchRows(g, p).facts = PatchedFacts(g, p)
      /\ DOMAIN ApplyPatchRows(g, p).bind = DOMAIN g.bind \ Invalidated(g, p)
      /\ \A k \in DOMAIN ApplyPatchRows(g, p).bind : ApplyPatchRows(g, p).bind[k] = g.bind[k]
    BY DEF ApplyPatchRows, Without, Restrict
<1>2. ASSUME NEW k \in DOMAIN g.bind \ Invalidated(g, p)
      PROVE  k \in DOMAIN PatchedFacts(g, p) /\ PatchedFacts(g, p)[k] = g.facts[k]
                /\ g.bind[k].digest = g.facts[k]
    <2>1. k \in DOMAIN g.facts /\ g.bind[k].digest = g.facts[k]
        BY DEF Attested
    <2>2. k \notin DeletedKeys(g, p) /\ k \notin DOMAIN p.nodes /\ k \notin DOMAIN p.edges
        BY <2>1, Untouched
    <2>3. /\ DOMAIN PatchedFacts(g, p) =
                 (DOMAIN g.facts \ DeletedKeys(g, p)) \cup DOMAIN p.nodes \cup DOMAIN p.edges
          /\ \A n \in DOMAIN g.facts \ (DeletedKeys(g, p) \cup DOMAIN p.nodes \cup DOMAIN p.edges) :
                 PatchedFacts(g, p)[n] = g.facts[n]
        BY Patched
    <2>4. QED  BY <2>1, <2>2, <2>3
<1>3. QED  BY <1>1, <1>2 DEF Attested

\* Foreign keys hold after a patch that commits.
LEMMA PatchCloses ==
    ASSUME NEW g, NEW p, KeysShaped(g), PatchShaped(p), Closed(g), PatchOK(g, p)
    PROVE  Closed(ApplyPatchRows(g, p))
<1> DEFINE f == PatchedFacts(g, p)
<1> SUFFICES ASSUME NEW k \in DOMAIN f, IsEdge(k)
             PROVE  EndpointsIn(DOMAIN f, k)
    BY DEF Closed, Edges, ApplyPatchRows
<1>0. DOMAIN f = (DOMAIN g.facts \ DeletedKeys(g, p)) \cup DOMAIN p.nodes \cup DOMAIN p.edges
    BY Patched
<1> HIDE DEF f
<1>1. CASE k \in DOMAIN p.edges
    BY <1>1 DEF PatchOK, f
<1>2. CASE k \notin DOMAIN p.edges
    <2>1. k \in DOMAIN g.facts /\ k \notin DeletedKeys(g, p)
        BY <1>0, <1>2, Keys DEF PatchShaped
    <2>2. k[1] \notin p.gone /\ k[2] \notin p.gone
        BY <2>1 DEF DeletedKeys
    <2>3. NodeKey(k[1]) \in DOMAIN g.facts /\ NodeKey(k[2]) \in DOMAIN g.facts
        BY <2>1 DEF Closed, Edges, EndpointsIn
    <2>4. NodeKey(k[1]) \notin DeletedKeys(g, p) /\ NodeKey(k[2]) \notin DeletedKeys(g, p)
        BY <2>2, NodeKeys DEF DeletedKeys, PatchShaped
    <2>5. QED  BY <1>0, <2>3, <2>4 DEF EndpointsIn
<1>3. QED  BY <1>1, <1>2

-----------------------------------------------------------------------------
(* What a recovery extracted.                                              *)

EmittedNode(r, f, k) ==
    /\ k[1].repo \in {r, Shared} /\ k[1].name # "repo"
    /\ f[k].by \subseteq {r}
    /\ f[k].label \in {"Symbol", "Resource"} => k[1].repo = r
    /\ f[k].ph /\ k[1].repo = r =>
           \E e \in DOMAIN f : Incident(e, k[1]) /\ ExtractedEdge(f, e, r)

EmittedEdge(r, f, k) ==
    /\ EndpointsIn(DOMAIN f, k) /\ k[1].repo \in {r, Shared} /\ k[2].repo \in {r, Shared}
    /\ \/ ExtractedEdge(f, k, r)
       \/ k[3] = "DECIDES" /\ k[1] = AdrId(r) /\ f[k].by = {r}

Emitted(r, f) ==
    \A k \in DOMAIN f :
        /\ KeyShaped(k)
        /\ IsNode(k) => EmittedNode(r, f, k)
        /\ IsEdge(k) => EmittedEdge(r, f, k)

\* Edges that join the two ends.
LEMMA Overs ==
    ASSUME NEW f, NEW h
    PROVE  /\ DOMAIN Over(f, h) = DOMAIN f \cup DOMAIN h
           /\ \A k \in DOMAIN h : Over(f, h)[k] = h[k]
           /\ \A k \in DOMAIN f \ DOMAIN h : Over(f, h)[k] = f[k]
BY DEF Over

\* The decision records of a tree, read against some facts.
LEMMA AdrShape ==
    ASSUME NEW r, NEW t, NEW seen, NEW k \in DOMAIN AdrFacts(r, t, seen)
    PROVE  \/ k = NodeKey(AdrId(r)) /\ AdrFacts(r, t, seen)[k] = Row("ADR", {r}, FALSE, "found")
           \/ /\ AdrFacts(r, t, seen)[k] = Row("", {r}, FALSE, "found")
              /\ NodeKey(AdrId(r)) \in DOMAIN AdrFacts(r, t, seen)
              /\ \E i : k = <<AdrId(r), i, "DECIDES">> /\ NodeKey(i) \in DOMAIN seen
<1> DEFINE targets == {i \in t.adrs : NodeKey(i) \in DOMAIN seen /\ seen[NodeKey(i)].label # "ADR"}
           node == [n \in {NodeKey(AdrId(r))} |-> Row("ADR", {r}, FALSE, "found")]
           links == [e \in {<<AdrId(r), i, "DECIDES">> : i \in targets} |-> Row("", {r}, FALSE, "found")]
<1>1. t.adrs # {} /\ AdrFacts(r, t, seen) = Over(node, links)
    BY DEF AdrFacts, EmptyFunction
<1>2. DOMAIN node = {NodeKey(AdrId(r))} /\ DOMAIN links = {<<AdrId(r), i, "DECIDES">> : i \in targets}
    OBVIOUS
<1>3. /\ DOMAIN Over(node, links) = DOMAIN node \cup DOMAIN links
      /\ \A e \in DOMAIN links : Over(node, links)[e] = links[e]
      /\ \A n \in DOMAIN node \ DOMAIN links : Over(node, links)[n] = node[n]
    BY Overs
<1>4. NodeKey(AdrId(r)) \in DOMAIN AdrFacts(r, t, seen)
    BY <1>1, <1>2, <1>3
<1>5. CASE k \in DOMAIN links
  <2>1. AdrFacts(r, t, seen)[k] = Row("", {r}, FALSE, "found")
      BY <1>1, <1>3, <1>5
  <2>2. PICK i \in targets : k = <<AdrId(r), i, "DECIDES">>
      BY <1>2, <1>5
  <2>3. NodeKey(i) \in DOMAIN seen
      BY <2>2
  <2>4. QED  BY <1>4, <2>1, <2>2, <2>3
<1>6. CASE k \notin DOMAIN links
  <2>1. k = NodeKey(AdrId(r)) /\ AdrFacts(r, t, seen)[k] = node[k]
      BY <1>1, <1>2, <1>3, <1>6
  <2>2. QED  BY <2>1
<1>7. QED  BY <1>5, <1>6

\* What a recovery of r holds is told by its tree or its decision records.
LEMMA ExtractedIsEmitted ==
    ASSUME NEW r \in Repo, NEW t \in Trees[r]
    PROVE  Emitted(r, Extracted(r, t))
<1> DEFINE adrs == AdrFacts(r, t, t.facts)
           f == Extracted(r, t)
<1>1. EmittedBy(r, t.facts)
    BY TreesAssumption
<1>2. /\ DOMAIN f = DOMAIN t.facts \cup DOMAIN adrs
      /\ \A k \in DOMAIN adrs : f[k] = adrs[k]
      /\ \A k \in DOMAIN t.facts \ DOMAIN adrs : f[k] = t.facts[k]
    BY Overs DEF Extracted
<1>3. \A k \in DOMAIN adrs :
          \/ k = NodeKey(AdrId(r)) /\ adrs[k] = Row("ADR", {r}, FALSE, "found")
          \/ /\ adrs[k] = Row("", {r}, FALSE, "found")
             /\ NodeKey(AdrId(r)) \in DOMAIN adrs
             /\ \E i : k = <<AdrId(r), i, "DECIDES">> /\ NodeKey(i) \in DOMAIN t.facts
    BY AdrShape
<1>4. AdrId(r).repo = r /\ AdrId(r).name = "adr"
    BY Ids DEF AdrId
<1> HIDE DEF adrs, f
<1>5. ASSUME NEW k \in DOMAIN t.facts PROVE k \notin DOMAIN adrs
  <2>1. \A i \in EndIds(k) : i.name # "adr"
      BY <1>1 DEF EmittedBy
  <2>2. IsEdge(k) => k[3] # "DECIDES"
      BY <1>1 DEF EmittedBy
  <2>3. k # NodeKey(AdrId(r))
      BY <2>1, <1>4, NodeKeys DEF EndIds
  <2>4. \A i : k # <<AdrId(r), i, "DECIDES">>
      BY <2>2, EdgeKeys
  <2>5. QED  BY <1>3, <2>3, <2>4
<1>6. ASSUME NEW k \in DOMAIN t.facts, IsEdge(k)
      PROVE  k \in DOMAIN f /\ ExtractedEdge(f, k, r)
  <2>1. ~IsNode(k)
      BY <1>1, <1>6, Keys DEF EmittedBy
  <2>2. \A i \in {k[1], k[2]} : i.repo \in {r, Shared} /\ i.name \notin {"repo", "adr"}
      BY <1>1, <2>1 DEF EmittedBy, EndIds
  <2>3. k[3] \notin {"BACKS", "DECIDES"} /\ t.facts[k].by \subseteq {r}
      BY <1>1, <1>6 DEF EmittedBy
  <2>4. QED  BY <1>2, <1>5, <2>2, <2>3 DEF ExtractedEdge
<1>7. ASSUME NEW k \in DOMAIN f, k \in DOMAIN t.facts, IsNode(k)
      PROVE  EmittedNode(r, f, k)
  <2>1. f[k] = t.facts[k]
      BY <1>2, <1>5, <1>7
  <2>2. k[1].repo \in {r, Shared} /\ k[1].name # "repo"
      BY <1>1, <1>7 DEF EmittedBy, EndIds
  <2>3. t.facts[k].by \subseteq {r} /\ (t.facts[k].label \in {"Symbol", "Resource"} => k[1].repo = r)
      BY <1>1, <1>7 DEF EmittedBy
  <2>4. ASSUME t.facts[k].ph, k[1].repo = r
        PROVE  \E e \in DOMAIN f : Incident(e, k[1]) /\ ExtractedEdge(f, e, r)
    <3>1. PICK e \in DOMAIN t.facts : Incident(e, k[1])
        BY <1>1, <1>7, <2>4 DEF EmittedBy
    <3>2. QED  BY <1>6, <3>1 DEF Incident
  <2>5. QED  BY <2>1, <2>2, <2>3, <2>4 DEF EmittedNode
<1>8. ASSUME NEW k \in DOMAIN f, k \in DOMAIN t.facts, IsEdge(k)
      PROVE  EmittedEdge(r, f, k)
  <2>1. ExtractedEdge(f, k, r)
      BY <1>6, <1>8
  <2>2. EndpointsIn(DOMAIN f, k)
      BY <1>1, <1>2, <1>8 DEF EmittedBy, EndpointsIn
  <2>3. QED  BY <2>1, <2>2 DEF EmittedEdge, ExtractedEdge
<1>9. ASSUME NEW k \in DOMAIN adrs, IsNode(k)
      PROVE  EmittedNode(r, f, k)
  <2>0. \A i : k # <<AdrId(r), i, "DECIDES">>
      BY <1>9, EdgeKeys
  <2>1. k = NodeKey(AdrId(r)) /\ f[k] = Row("ADR", {r}, FALSE, "found")
      BY <1>2, <1>3, <2>0
  <2>2. k[1] = AdrId(r) /\ f[k].by = {r} /\ f[k].label = "ADR" /\ f[k].ph = FALSE
      BY <2>1, NodeKeys DEF Row
  <2>3. QED  BY <1>4, <2>2 DEF EmittedNode
<1>10. ASSUME NEW k \in DOMAIN adrs, IsEdge(k)
       PROVE  EmittedEdge(r, f, k)
  <2>1. k # NodeKey(AdrId(r))
      BY <1>10, NodeKeys
  <2>2. /\ f[k] = Row("", {r}, FALSE, "found") /\ NodeKey(AdrId(r)) \in DOMAIN adrs
        /\ \E i : k = <<AdrId(r), i, "DECIDES">> /\ NodeKey(i) \in DOMAIN t.facts
      BY <1>2, <1>3, <2>1
  <2>3. PICK i : k = <<AdrId(r), i, "DECIDES">> /\ NodeKey(i) \in DOMAIN t.facts
      BY <2>2
  <2>4. k[1] = AdrId(r) /\ k[2] = i /\ k[3] = "DECIDES" /\ f[k].by = {r}
    <3>1. f[k].by = {r}
      <4>1. f[k] = Row("", {r}, FALSE, "found")
          BY <2>2
      <4>2. Row("", {r}, FALSE, "found").by = {r}
          BY DEF Row
      <4>3. QED  BY <4>1, <4>2
    <3>2. k[1] = AdrId(r) /\ k[2] = i /\ k[3] = "DECIDES"
        BY <2>3
    <3>3. QED  BY <3>1, <3>2
  <2>5. i.repo \in {r, Shared}
    <3>1. NodeKey(i)[1] = i /\ IsNode(NodeKey(i))
        BY NodeKeys
    <3>2. i \in EndIds(NodeKey(i))
        BY <3>1 DEF EndIds
    <3>3. QED  BY <1>1, <2>3, <3>2 DEF EmittedBy
  <2>6. EndpointsIn(DOMAIN f, k)
      BY <1>2, <2>2, <2>3, <2>4 DEF EndpointsIn
  <2>7. QED  BY <1>4, <2>4, <2>5, <2>6 DEF EmittedEdge
<1>11. ASSUME NEW k \in DOMAIN adrs PROVE KeyShaped(k)
  <2>1. KeyShaped(NodeKey(AdrId(r)))
      BY NodeKeys
  <2>2. \A i : KeyShaped(<<AdrId(r), i, "DECIDES">>)
      BY EdgeKeys
  <2>3. QED  BY <1>3, <2>1, <2>2
<1>12. ASSUME NEW k \in DOMAIN t.facts PROVE KeyShaped(k)
    BY <1>1 DEF EmittedBy
<1>13. QED
  <2>1. ASSUME NEW k \in DOMAIN f
        PROVE  KeyShaped(k) /\ (IsNode(k) => EmittedNode(r, f, k)) /\ (IsEdge(k) => EmittedEdge(r, f, k))
      BY <1>2, <1>7, <1>8, <1>9, <1>10, <1>11, <1>12
  <2>2. QED  BY <2>1 DEF Emitted, f

-----------------------------------------------------------------------------
(* The reconcile.                                                          *)

Remains(g, r, f) == RemainingEdges(g, Dropped(g, r, f), Told(r, f))

\* The facts of r and its own node.
LEMMA Currents ==
    ASSUME NEW r, NEW f
    PROVE  /\ DOMAIN Told(r, f) = DOMAIN f \cup {NodeKey(RepoId(r))}
           /\ Told(r, f)[NodeKey(RepoId(r))] = RepoRow(r)
           /\ \A k \in DOMAIN f : k # NodeKey(RepoId(r)) => Told(r, f)[k] = f[k]
<1> DEFINE own == [k \in {NodeKey(RepoId(r))} |-> RepoRow(r)]
<1>1. DOMAIN own = {NodeKey(RepoId(r))} /\ own[NodeKey(RepoId(r))] = RepoRow(r)
    OBVIOUS
<1> HIDE DEF own
<1>2. /\ DOMAIN Over(f, own) = DOMAIN f \cup DOMAIN own
      /\ \A k \in DOMAIN own : Over(f, own)[k] = own[k]
      /\ \A k \in DOMAIN f \ DOMAIN own : Over(f, own)[k] = f[k]
    BY Overs
<1>3. Told(r, f) = Over(f, own)
    BY DEF Told, own
<1>4. QED  BY <1>1, <1>2, <1>3

\* What the graph should hold of r: r's node, and what was extracted.
LEMMA CurrentFacts ==
    ASSUME NEW r, NEW f, Emitted(r, f)
    PROVE  /\ \A k \in DOMAIN f : k # NodeKey(RepoId(r)) /\ Told(r, f)[k] = f[k]
           /\ \A k \in DOMAIN Told(r, f) :
                 /\ KeyShaped(k)
                 /\ IsNode(k) => k[1].repo \in {r, Shared}
                 /\ IsEdge(k) => /\ k \in DOMAIN f /\ k[3] # "BACKS"
                                /\ k[1].repo \in {r, Shared} /\ k[2].repo \in {r, Shared}
                                /\ EndpointsIn(DOMAIN Told(r, f), k)
<1>1. RepoId(r).repo = r /\ RepoId(r).name = "repo"
    BY Ids DEF RepoId
<1>2. /\ IsNode(NodeKey(RepoId(r))) /\ NodeKey(RepoId(r))[1] = RepoId(r)
      /\ KeyShaped(NodeKey(RepoId(r))) /\ ~IsEdge(NodeKey(RepoId(r)))
    BY NodeKeys
<1>3. /\ DOMAIN Told(r, f) = DOMAIN f \cup {NodeKey(RepoId(r))}
      /\ \A k \in DOMAIN f : k # NodeKey(RepoId(r)) => Told(r, f)[k] = f[k]
    BY Currents
<1>4. ASSUME NEW k \in DOMAIN f PROVE k # NodeKey(RepoId(r))
    BY <1>1, <1>2 DEF Emitted, EmittedNode
<1>5. ASSUME NEW k \in DOMAIN Told(r, f), IsNode(k) PROVE k[1].repo \in {r, Shared}
    BY <1>1, <1>2, <1>3, <1>5 DEF Emitted, EmittedNode
<1>6. ASSUME NEW k \in DOMAIN Told(r, f) PROVE KeyShaped(k)
    BY <1>2, <1>3 DEF Emitted
<1>7. ASSUME NEW k \in DOMAIN Told(r, f), IsEdge(k)
      PROVE  /\ k \in DOMAIN f /\ k[3] # "BACKS"
             /\ k[1].repo \in {r, Shared} /\ k[2].repo \in {r, Shared}
             /\ EndpointsIn(DOMAIN Told(r, f), k)
  <2>1. k \in DOMAIN f
      BY <1>2, <1>3, <1>7
  <2>2. EmittedEdge(r, f, k)
      BY <1>7, <2>1 DEF Emitted
  <2>3. EndpointsIn(DOMAIN Told(r, f), k)
      BY <1>3, <2>2 DEF EmittedEdge, EndpointsIn
  <2>4. QED  BY <2>1, <2>2, <2>3 DEF EmittedEdge, ExtractedEdge
<1>8. QED  BY <1>3, <1>4, <1>5, <1>6, <1>7

\* The parts of the patch that a reconcile applies.
LEMMA LoadFields ==
    ASSUME NEW g, NEW r, NEW f
    PROVE  LET p == LoadPatch(g, r, f)
               changed == {k \in DOMAIN Told(r, f) : k \notin DOMAIN g.facts \/ g.facts[k] # Told(r, f)[k]}
           IN  /\ p.drop = Dropped(g, r, f) /\ p.gone = {k[1] : k \in Stale(g, r, f)}
               /\ DOMAIN p.nodes = {k \in changed : IsNode(k)}
               /\ \A k \in DOMAIN p.nodes : p.nodes[k] = Told(r, f)[k]
               /\ DOMAIN p.edges = {k \in changed : IsEdge(k)}
               /\ \A k \in DOMAIN p.edges : p.edges[k] = Told(r, f)[k]
BY DEF LoadPatch, Restrict

\* What a reconcile deletes is stale or dropped; an edge that is neither goes
\* with an end of r's.
LEMMA LoadDeletes ==
    ASSUME NEW g, NEW r, NEW f, KeysShaped(g), Closed(g), Emitted(r, f)
    PROVE  LET d == DeletedKeys(g, LoadPatch(g, r, f))
           IN  /\ \A k \in DOMAIN Told(r, f) : k \notin d
               /\ \A k \in Nodes(g) : k \in d <=> k \in Stale(g, r, f)
               /\ \A k \in Dropped(g, r, f) : k \in d
               /\ \A k \in Edges(g) \cap d :
                     \/ k \in Dropped(g, r, f)
                     \/ \E i \in {k[1], k[2]} : i.repo = r /\ NodeKey(i) \in Stale(g, r, f)
<1> DEFINE p == LoadPatch(g, r, f)
           d == DeletedKeys(g, p)
<1>1. p.drop = Dropped(g, r, f) /\ p.gone = {k[1] : k \in Stale(g, r, f)}
    BY LoadFields
<1> HIDE DEF p
<1>2. /\ Stale(g, r, f) \subseteq Nodes(g) \ DOMAIN Told(r, f)
      /\ Dropped(g, r, f) \subseteq Edges(g) \ DOMAIN Told(r, f)
    BY DEF Stale, Dropped
<1>3. \A k \in Nodes(g) : IsNode(k) /\ ~IsEdge(k) /\ k = NodeKey(k[1]) /\ k \in DOMAIN g.facts
    BY Keys DEF Nodes, KeysShaped
<1>4. \A k \in Edges(g) : IsEdge(k) /\ ~IsNode(k) /\ k \in DOMAIN g.facts
    BY Keys DEF Edges, KeysShaped
<1>5. \A k \in DOMAIN g.facts : k \in Nodes(g) \/ k \in Edges(g)
    BY Keys DEF Nodes, Edges, KeysShaped
<1>6. \A i : i \in p.gone => NodeKey(i) \in Stale(g, r, f)
    BY <1>1, <1>2, <1>3
<1>7. ASSUME NEW k \in Nodes(g) PROVE k \in d <=> k \in Stale(g, r, f)
  <2>1. k \notin p.drop
      BY <1>1, <1>2, <1>3, <1>4
  <2>2. k \in d <=> k[1] \in p.gone
      BY <1>3, <2>1 DEF DeletedKeys
  <2>3. k \in Stale(g, r, f) => k[1] \in p.gone
      BY <1>1
  <2>4. k[1] \in p.gone => k \in Stale(g, r, f)
      BY <1>3, <1>6
  <2>5. QED  BY <2>2, <2>3, <2>4
<1>8. ASSUME NEW k \in Dropped(g, r, f) PROVE k \in d
    BY <1>1, <1>2, <1>4 DEF DeletedKeys
<1>9. ASSUME NEW k \in Edges(g), k \in d, k \notin Dropped(g, r, f)
      PROVE  \E i \in {k[1], k[2]} : i.repo = r /\ NodeKey(i) \in Stale(g, r, f)
  <2>1. PICK i \in {k[1], k[2]} : i \in p.gone
      BY <1>1, <1>4, <1>9 DEF DeletedKeys
  <2>2. NodeKey(i) \in Stale(g, r, f)
      BY <1>6, <2>1
  <2>3. StaleNode(g, NodeKey(i), r, Remains(g, r, f))
      BY <2>2 DEF Stale, Remains
  <2>4. k \in Remains(g, r, f) /\ Incident(k, i)
      BY <1>4, <1>9, <2>1 DEF Remains, RemainingEdges, Incident
  <2>5. NodeKey(i)[1] = i
      BY NodeKeys
  <2>6. i.repo = r
      BY <2>3, <2>4, <2>5 DEF StaleNode, IdExplicitlyOwnedByRepo
  <2>7. QED  BY <2>2, <2>6
<1>10. ASSUME NEW k \in DOMAIN Told(r, f) PROVE k \notin d
  <2>1. CASE k \in Nodes(g)
      BY <1>2, <1>7, <2>1
  <2>2. CASE k \in Edges(g)
    <3>1. EndpointsIn(DOMAIN Told(r, f), k)
        BY <1>4, <2>2, CurrentFacts
    <3>2. k \notin Dropped(g, r, f)
        BY <1>2
    <3>3. QED  BY <1>2, <1>9, <2>2, <3>1, <3>2 DEF EndpointsIn
  <2>3. CASE k \notin DOMAIN g.facts
      BY <2>3 DEF DeletedKeys
  <2>4. QED  BY <1>5, <2>1, <2>2, <2>3
<1>11. QED  BY <1>7, <1>8, <1>9, <1>10 DEF p

\* The reconcile commits; what it was told is then in the graph, the rest is
\* as it was.
LEMMA LoadShape ==
    ASSUME NEW g, NEW r, NEW f, KeysShaped(g), Closed(g), Emitted(r, f)
    PROVE  LET p == LoadPatch(g, r, f)
               h == PatchedFacts(g, p)
           IN  /\ PatchShaped(p) /\ PatchOK(g, p)
               /\ DOMAIN h = (DOMAIN g.facts \ DeletedKeys(g, p)) \cup DOMAIN Told(r, f)
               /\ \A k \in DOMAIN Told(r, f) : h[k] = Told(r, f)[k]
               /\ \A k \in DOMAIN h \ DOMAIN Told(r, f) : h[k] = g.facts[k]
<1> DEFINE p == LoadPatch(g, r, f)
           h == PatchedFacts(g, p)
           cur == Told(r, f)
           changed == {k \in DOMAIN cur : k \notin DOMAIN g.facts \/ g.facts[k] # cur[k]}
<1>1. /\ p.drop = Dropped(g, r, f) /\ p.gone = {k[1] : k \in Stale(g, r, f)}
      /\ DOMAIN p.nodes = {k \in changed : IsNode(k)}
      /\ \A k \in DOMAIN p.nodes : p.nodes[k] = cur[k]
      /\ DOMAIN p.edges = {k \in changed : IsEdge(k)}
      /\ \A k \in DOMAIN p.edges : p.edges[k] = cur[k]
    BY LoadFields
<1>2. \A k \in DOMAIN cur : k \notin DeletedKeys(g, p)
    BY LoadDeletes
<1>3. \A k \in DOMAIN cur : KeyShaped(k)
    BY CurrentFacts
<1> HIDE DEF p, cur, h
<1>4. PatchShaped(p)
    BY <1>1, <1>3 DEF PatchShaped, Dropped, Edges
<1>5. /\ DOMAIN h = (DOMAIN g.facts \ DeletedKeys(g, p)) \cup DOMAIN p.nodes \cup DOMAIN p.edges
      /\ \A k \in DOMAIN p.nodes : h[k] = p.nodes[k]
      /\ \A k \in DOMAIN p.edges : h[k] = p.edges[k]
      /\ \A k \in DOMAIN g.facts \ (DeletedKeys(g, p) \cup DOMAIN p.nodes \cup DOMAIN p.edges) :
            h[k] = g.facts[k]
    BY <1>4, Patched DEF h
<1>6. DOMAIN p.nodes \subseteq DOMAIN cur /\ DOMAIN p.edges \subseteq DOMAIN cur
    BY <1>1
<1>7. ASSUME NEW k \in DOMAIN cur PROVE k \in DOMAIN h /\ h[k] = cur[k]
  <2>1. CASE k \in changed
    <3>1. k \in DOMAIN p.nodes \/ k \in DOMAIN p.edges
        BY <1>1, <1>3, <2>1, Keys
    <3>2. QED  BY <1>1, <1>5, <3>1
  <2>2. CASE k \notin changed
    <3>1. k \in DOMAIN g.facts /\ g.facts[k] = cur[k]
        BY <2>2
    <3>2. k \notin DOMAIN p.nodes /\ k \notin DOMAIN p.edges
        BY <1>1, <2>2
    <3>3. QED  BY <1>2, <1>5, <3>1, <3>2
  <2>3. QED  BY <2>1, <2>2
<1>8. DOMAIN h = (DOMAIN g.facts \ DeletedKeys(g, p)) \cup DOMAIN cur
    BY <1>5, <1>6, <1>7
<1>9. \A k \in DOMAIN h \ DOMAIN cur : h[k] = g.facts[k]
    BY <1>5, <1>6, <1>8
<1>10. PatchOK(g, p)
  <2> SUFFICES ASSUME NEW k \in DOMAIN p.edges PROVE EndpointsIn(DOMAIN h, k)
      BY DEF PatchOK, h
  <2>1. k \in DOMAIN cur /\ IsEdge(k)
      BY <1>1
  <2>2. EndpointsIn(DOMAIN cur, k)
      BY <2>1, CurrentFacts DEF cur
  <2>3. QED  BY <1>8, <2>2 DEF EndpointsIn
<1>11. QED  BY <1>4, <1>7, <1>8, <1>9, <1>10 DEF p, h, cur

\* A reconcile of r deletes no node of another repository's id, and no edge
\* that was extracted from another repository.
LEMMA OthersStay ==
    ASSUME NEW g, NEW r \in Repo, NEW f, FactsFit(g.facts), Closed(g), Emitted(r, f)
    PROVE  /\ \A k \in Stale(g, r, f) : k[1].repo \in {r, Shared}
           /\ \A k \in Nodes(g) \ DOMAIN Told(r, f) : k[1].repo = r => k \in Stale(g, r, f)
           /\ \A q \in Repo \ {r} : \A e \in Edges(g) :
                 ExtractedEdge(g.facts, e, q) => e \notin DeletedKeys(g, LoadPatch(g, r, f))
<1>0. KeysShaped(g)
    BY DEF KeysShaped, FactsFit
<1>1. ASSUME NEW q \in Repo \ {r}, NEW e \in Edges(g), ExtractedEdge(g.facts, e, q)
      PROVE  e \in Remains(g, r, f) /\ e \notin Dropped(g, r, f)
  <2>1. g.facts[e].by # {r}
      BY <1>1 DEF ExtractedEdge
  <2>2. QED  BY <1>1, <2>1 DEF Remains, RemainingEdges, Dropped, FactOwnedByRepo
<1>2. ASSUME NEW k \in Stale(g, r, f), k[1].repo \notin {r, Shared} PROVE FALSE
  <2> DEFINE q == k[1].repo
  <2>1. k \in Nodes(g) /\ StaleNode(g, k, r, Remains(g, r, f))
      BY DEF Stale, Remains
  <2>2. NodeFits(g.facts, k)
      BY <2>1 DEF FactsFit, Nodes
  <2>3. q \in Repo \ {r} /\ g.facts[k].by # {r}
      BY <1>2, <2>2 DEF NodeFits
  <2>4. CASE g.facts[k].ph
    <3>1. PICK e \in DOMAIN g.facts : Incident(e, k[1]) /\ ExtractedEdge(g.facts, e, q)
        BY <1>2, <2>2, <2>4 DEF NodeFits
    <3>2. e \in Edges(g)
        BY <3>1 DEF Edges, Incident
    <3>3. e \in Remains(g, r, f)
        BY <1>1, <2>3, <3>1, <3>2
    <3>4. QED  BY <1>2, <2>1, <2>3, <3>1, <3>3 DEF StaleNode, FactOwnedByRepo, IdExplicitlyOwnedByRepo
  <2>5. CASE ~g.facts[k].ph
      BY <1>2, <2>1, <2>3, <2>5 DEF StaleNode, FactOwnedByRepo, IdExplicitlyOwnedByRepo
  <2>6. QED  BY <2>4, <2>5
<1>3. ASSUME NEW k \in Nodes(g) \ DOMAIN Told(r, f), k[1].repo = r PROVE k \in Stale(g, r, f)
    BY <1>3 DEF Stale, StaleNode, IdExplicitlyOwnedByRepo
<1>4. ASSUME NEW q \in Repo \ {r}, NEW e \in Edges(g), ExtractedEdge(g.facts, e, q)
      PROVE  e \notin DeletedKeys(g, LoadPatch(g, r, f))
  <2>1. e \notin Dropped(g, r, f)
      BY <1>1, <1>4
  <2>2. \A i \in {e[1], e[2]} : i.repo # r
      BY <1>4, SharedIsNoRepo DEF ExtractedEdge
  <2>3. \A k \in Edges(g) \cap DeletedKeys(g, LoadPatch(g, r, f)) :
            \/ k \in Dropped(g, r, f)
            \/ \E i \in {k[1], k[2]} : i.repo = r /\ NodeKey(i) \in Stale(g, r, f)
      BY <1>0, LoadDeletes
  <2>4. QED  BY <2>1, <2>2, <2>3
<1>5. QED  BY <1>2, <1>3, <1>4

\* What a reconcile leaves fits.
LEMMA LoadFits ==
    ASSUME NEW g, NEW r \in Repo, NEW f, FactsFit(g.facts), Closed(g), Emitted(r, f)
    PROVE  FactsFit(PatchedFacts(g, LoadPatch(g, r, f)))
<1> DEFINE p == LoadPatch(g, r, f)
           h == PatchedFacts(g, p)
           cur == Told(r, f)
<1>0. KeysShaped(g) /\ r # Shared
    BY SharedIsNoRepo DEF KeysShaped, FactsFit
<1>1. /\ PatchShaped(p) /\ PatchOK(g, p)
      /\ DOMAIN h = (DOMAIN g.facts \ DeletedKeys(g, p)) \cup DOMAIN cur
      /\ \A k \in DOMAIN cur : h[k] = cur[k]
      /\ \A k \in DOMAIN h \ DOMAIN cur : h[k] = g.facts[k]
  <2>1. KeysShaped(g)
      BY <1>0
  <2>2. QED  BY <2>1, LoadShape
<1>2. /\ \A k \in DOMAIN f : k # NodeKey(RepoId(r)) /\ cur[k] = f[k]
      /\ \A k \in DOMAIN cur :
            /\ KeyShaped(k)
            /\ IsNode(k) => k[1].repo \in {r, Shared}
            /\ IsEdge(k) => k \in DOMAIN f /\ k[3] # "BACKS" /\ k[1].repo \in {r, Shared} /\ k[2].repo \in {r, Shared}
    BY CurrentFacts
<1>3. DOMAIN cur = DOMAIN f \cup {NodeKey(RepoId(r))} /\ cur[NodeKey(RepoId(r))] = RepoRow(r)
    BY Currents
<1>4. /\ \A k \in Nodes(g) : k \in DeletedKeys(g, p) <=> k \in Stale(g, r, f)
      /\ \A k \in DOMAIN cur : k \notin DeletedKeys(g, p)
    BY <1>0, LoadDeletes
<1>5. /\ \A k \in Stale(g, r, f) : k[1].repo \in {r, Shared}
      /\ \A k \in Nodes(g) \ DOMAIN cur : k[1].repo = r => k \in Stale(g, r, f)
      /\ \A q \in Repo \ {r} : \A e \in Edges(g) :
            ExtractedEdge(g.facts, e, q) => e \notin DeletedKeys(g, p)
    BY OthersStay
<1>r. RepoId(r).repo = r /\ RepoId(r).name = "repo" /\ NodeKey(RepoId(r))[1] = RepoId(r)
    BY Ids, NodeKeys DEF RepoId
<1> HIDE DEF p, cur, h
<1>6. ASSUME NEW k \in DOMAIN f, IsNode(k) PROVE NodeFits(h, k)
  <2>1. EmittedNode(r, f, k)
      BY <1>6 DEF Emitted
  <2>2. k \in DOMAIN cur /\ h[k] = f[k]
      BY <1>1, <1>2, <1>3
  <2>3. ASSUME k[1].repo # Shared, h[k].ph
        PROVE  \E e \in DOMAIN h : Incident(e, k[1]) /\ ExtractedEdge(h, e, k[1].repo)
    <3>1. k[1].repo = r
        BY <2>1, <2>3 DEF EmittedNode
    <3>2. PICK e \in DOMAIN f : Incident(e, k[1]) /\ ExtractedEdge(f, e, r)
        BY <2>1, <2>2, <2>3, <3>1 DEF EmittedNode
    <3>3. e \in DOMAIN h /\ h[e] = f[e]
        BY <1>1, <1>2, <1>3
    <3>4. ExtractedEdge(h, e, r)
        BY <3>2, <3>3 DEF ExtractedEdge
    <3>5. QED  BY <3>1, <3>2, <3>3, <3>4
  <2>4. QED  BY <1>0, <2>1, <2>2, <2>3 DEF NodeFits, EmittedNode
<1>7. NodeFits(h, NodeKey(RepoId(r)))
  <2>1. h[NodeKey(RepoId(r))] = RepoRow(r)
      BY <1>1, <1>3
  <2>2. RepoRow(r).by = {} /\ RepoRow(r).label = "Repo" /\ RepoRow(r).ph = FALSE
      BY DEF RepoRow, Row
  <2>3. QED  BY <1>0, <1>r, <2>1, <2>2 DEF NodeFits
<1>8. ASSUME NEW k \in DOMAIN h, IsEdge(k), k \in DOMAIN cur PROVE EdgeFits(h, k)
  <2>1. k \in DOMAIN f /\ h[k] = f[k]
      BY <1>1, <1>2, <1>8
  <2>2. EmittedEdge(r, f, k)
      BY <1>8, <2>1 DEF Emitted
  <2>3. CASE ExtractedEdge(f, k, r)
    <3>1. ExtractedEdge(h, k, r)
        BY <2>1, <2>3 DEF ExtractedEdge
    <3>2. QED  BY <3>1 DEF EdgeFits
  <2>4. CASE k[3] = "DECIDES" /\ k[1] = AdrId(r) /\ f[k].by = {r}
      BY <2>1, <2>4 DEF EdgeFits
  <2>5. QED  BY <2>2, <2>3, <2>4 DEF EmittedEdge
<1>9. ASSUME NEW k \in DOMAIN h, IsEdge(k), k \notin DOMAIN cur PROVE EdgeFits(h, k)
  <2>1. k \in DOMAIN g.facts /\ h[k] = g.facts[k]
      BY <1>1, <1>9
  <2>2. EdgeFits(g.facts, k)
      BY <1>9, <2>1 DEF FactsFit
  <2>3. QED  BY <2>1, <2>2 DEF EdgeFits, ExtractedEdge
<1>10. ASSUME NEW k \in DOMAIN h, IsNode(k), k \notin DOMAIN cur PROVE NodeFits(h, k)
  <2>1. k \in Nodes(g) /\ h[k] = g.facts[k] /\ k \notin Stale(g, r, f)
      BY <1>1, <1>4, <1>10 DEF Nodes
  <2>2. NodeFits(g.facts, k)
      BY <1>10, <2>1 DEF FactsFit, Nodes
  <2>3. k[1].repo # r
      BY <1>5, <1>10, <2>1
  <2>4. ASSUME k[1].repo # Shared, h[k].ph
        PROVE  \E e \in DOMAIN h : Incident(e, k[1]) /\ ExtractedEdge(h, e, k[1].repo)
    <3> DEFINE q == k[1].repo
    <3>1. PICK e \in DOMAIN g.facts : Incident(e, k[1]) /\ ExtractedEdge(g.facts, e, q)
        BY <2>1, <2>2, <2>4 DEF NodeFits
    <3>2. q \in Repo \ {r} /\ e \in Edges(g)
        BY <2>2, <2>3, <2>4, <3>1 DEF NodeFits, Edges, Incident
    <3>3. e \notin DeletedKeys(g, p)
        BY <1>5, <3>1, <3>2
    <3>4. e \notin DOMAIN cur
        BY <1>2, <2>3, <2>4, <3>1, <3>2 DEF Incident
    <3>5. e \in DOMAIN h /\ h[e] = g.facts[e]
        BY <1>1, <3>3, <3>4
    <3>6. ExtractedEdge(h, e, q)
        BY <3>1, <3>5 DEF ExtractedEdge
    <3>7. QED  BY <3>1, <3>5, <3>6
  <2>5. QED  BY <2>1, <2>2, <2>4 DEF NodeFits
<1>11. ASSUME NEW k \in DOMAIN h PROVE KeyShaped(k)
    BY <1>0, <1>1, <1>2 DEF KeysShaped
<1>12. ASSUME NEW k \in DOMAIN h, IsNode(k) PROVE NodeFits(h, k)
    BY <1>3, <1>6, <1>7, <1>10, <1>12
<1>13. QED  BY <1>8, <1>9, <1>11, <1>12 DEF FactsFit, h, p

\* A decision record is in the graph only beside its repository.
AdrsBeside(facts) ==
    \A q \in Repo : NodeKey(AdrId(q)) \in DOMAIN facts => NodeKey(RepoId(q)) \in DOMAIN facts

\* The ids of a repository's node and of its decision record.
LEMMA OwnIds ==
    ASSUME NEW q
    PROVE  /\ RepoId(q).repo = q /\ RepoId(q).name = "repo" /\ NodeKey(RepoId(q))[1] = RepoId(q)
           /\ AdrId(q).repo = q /\ AdrId(q).name = "adr" /\ NodeKey(AdrId(q))[1] = AdrId(q)
           /\ IsNode(NodeKey(RepoId(q))) /\ IsNode(NodeKey(AdrId(q)))
BY Ids, NodeKeys DEF RepoId, AdrId

\* A reconcile leaves decision records beside their repositories.
LEMMA LoadKeepsAdrs ==
    ASSUME NEW g, NEW r \in Repo, NEW f, FactsFit(g.facts), Closed(g), Emitted(r, f), AdrsBeside(g.facts)
    PROVE  AdrsBeside(PatchedFacts(g, LoadPatch(g, r, f)))
<1> DEFINE p == LoadPatch(g, r, f)
           h == PatchedFacts(g, p)
           cur == Told(r, f)
<1>0. KeysShaped(g)
    BY DEF KeysShaped, FactsFit
<1>1. /\ PatchShaped(p) /\ PatchOK(g, p)
      /\ DOMAIN h = (DOMAIN g.facts \ DeletedKeys(g, p)) \cup DOMAIN cur
      /\ \A k \in DOMAIN cur : h[k] = cur[k]
      /\ \A k \in DOMAIN h \ DOMAIN cur : h[k] = g.facts[k]
    BY <1>0, LoadShape
<1>2. \A k \in DOMAIN cur : IsNode(k) => k[1].repo \in {r, Shared}
    BY CurrentFacts
<1>3. DOMAIN cur = DOMAIN f \cup {NodeKey(RepoId(r))}
    BY Currents
<1>4. \A k \in Nodes(g) : k \in DeletedKeys(g, p) <=> k \in Stale(g, r, f)
    BY <1>0, LoadDeletes
<1>5. \A k \in Stale(g, r, f) : k[1].repo \in {r, Shared}
    BY OthersStay
<1> HIDE DEF p, cur, h
<1>6. ASSUME NEW q \in Repo \ {r}, NodeKey(AdrId(q)) \in DOMAIN h
      PROVE  NodeKey(RepoId(q)) \in DOMAIN h
  <2>1. q \notin {r, Shared}
      BY SharedIsNoRepo
  <2>2. NodeKey(AdrId(q)) \notin DOMAIN cur
      BY <1>2, <2>1, OwnIds
  <2>3. NodeKey(RepoId(q)) \in Nodes(g)
      BY <1>1, <1>6, <2>2, OwnIds DEF AdrsBeside, Nodes
  <2>4. NodeKey(RepoId(q)) \notin Stale(g, r, f)
      BY <1>5, <2>1, OwnIds
  <2>5. QED  BY <1>1, <1>4, <2>3, <2>4 DEF Nodes
<1>7. NodeKey(RepoId(r)) \in DOMAIN h
    BY <1>1, <1>3
<1>8. QED  BY <1>6, <1>7 DEF AdrsBeside, h, p

\* The publication commits, and what it binds is attested.
LEMMA LoadPublishes ==
    ASSUME NEW g, NEW r \in Repo, NEW f, g = [facts |-> g.facts, bind |-> g.bind],
           FactsFit(g.facts), Closed(g), Attested(g), BoundFits(g), Emitted(r, f)
    PROVE  LET n == LoadIntoGraph(g, r, f)
               bs == MatchingBindings(r, f)
           IN  /\ LoadOK(g, r, f)
               /\ n = [facts |-> PatchedFacts(g, LoadPatch(g, r, f)), bind |-> n.bind]
               /\ Attested(n) /\ Closed(n) /\ BoundFits(n)
               /\ \A k \in DOMAIN bs : k \in DOMAIN n.bind /\ n.bind[k] = [repo |-> r, receipt |-> bs[k].receipt, digest |-> bs[k].digest]
               /\ \A k \in DOMAIN n.bind \ DOMAIN bs : k \in DOMAIN g.bind /\ n.bind[k] = g.bind[k] /\ g.bind[k].repo # r
<1> DEFINE p == LoadPatch(g, r, f)
           h == PatchedFacts(g, p)
           bs == MatchingBindings(r, f)
           others == [facts |-> g.facts, bind |-> Restrict(g.bind, {k \in DOMAIN g.bind : g.bind[k].repo # r})]
           written == ApplyPatchRows(others, p)
           added == [k \in DOMAIN bs |-> [repo |-> r, receipt |-> bs[k].receipt, digest |-> bs[k].digest]]
           n == LoadIntoGraph(g, r, f)
<1>0. KeysShaped(g)
    BY DEF KeysShaped, FactsFit
<1>1. /\ PatchShaped(p) /\ PatchOK(g, p)
      /\ DOMAIN h = (DOMAIN g.facts \ DeletedKeys(g, p)) \cup DOMAIN Told(r, f)
      /\ \A k \in DOMAIN Told(r, f) : h[k] = Told(r, f)[k]
      /\ \A k \in DOMAIN h \ DOMAIN Told(r, f) : h[k] = g.facts[k]
    BY <1>0, LoadShape
<1>2. n = [written EXCEPT !.bind = Over(written.bind, added)]
  <2>1. [g EXCEPT !.bind = Restrict(g.bind, {k \in DOMAIN g.bind : g.bind[k].repo # r})] = others
      OBVIOUS
  <2>2. QED  BY <2>1 DEF LoadIntoGraph, PublishWithBindings
<1>3. written = [facts |-> PatchedFacts(others, p), bind |-> Without(others.bind, Invalidated(others, p))]
    BY DEF ApplyPatchRows
<1>4. PatchedFacts(others, p) = h
    BY DEF PatchedFacts, DeletedKeys
<1>5. n = [facts |-> h, bind |-> Over(written.bind, added)]
    BY <1>2, <1>3, <1>4
<1>6. /\ DOMAIN others.bind = {k \in DOMAIN g.bind : g.bind[k].repo # r}
      /\ \A k \in DOMAIN others.bind : others.bind[k] = g.bind[k]
    BY DEF Restrict
<1>7. others.facts = g.facts
    OBVIOUS
<1>8. DOMAIN added = DOMAIN bs /\ \A k \in DOMAIN bs : added[k] = [repo |-> r, receipt |-> bs[k].receipt, digest |-> bs[k].digest]
    OBVIOUS
<1>9. \A k \in DOMAIN bs : k \in DOMAIN f /\ IsNode(k) /\ k[1].repo = r /\ bs[k].digest = f[k]
    BY DEF MatchingBindings, Emitted, EmittedNode
<1>10. /\ DOMAIN Told(r, f) = DOMAIN f \cup {NodeKey(RepoId(r))}
       /\ \A k \in DOMAIN f : Told(r, f)[k] = f[k]
  <2>1. DOMAIN Told(r, f) = DOMAIN f \cup {NodeKey(RepoId(r))}
      BY Currents
  <2>2. \A k \in DOMAIN f : Told(r, f)[k] = f[k]
      BY CurrentFacts
  <2>3. QED  BY <2>1, <2>2
<1> HIDE DEF p, h, bs, others, written, added, n
<1>11. LoadOK(g, r, f)
  <2>1. \A k \in DOMAIN bs \cap DOMAIN g.bind : g.bind[k].repo = r
      BY <1>9 DEF BoundFits
  <2>2. \A k \in DOMAIN bs : k \in DOMAIN h /\ h[k] = bs[k].digest
      BY <1>1, <1>9, <1>10
  <2>3. BindingsOK(g, p, r, bs)
      BY <2>1, <2>2 DEF BindingsOK, h
  <2>4. QED  BY <1>1, <2>3 DEF LoadOK, p, bs
<1>12. Attested(others) /\ Closed(others) /\ KeysShaped(others)
    BY <1>0, <1>6, <1>7 DEF Attested, Closed, Edges, KeysShaped
<1>13. /\ Attested(written)
       /\ DOMAIN written.bind = DOMAIN others.bind \ Invalidated(others, p)
       /\ \A k \in DOMAIN written.bind : written.bind[k] = others.bind[k]
    BY <1>1, <1>12, PatchAttests DEF written
<1>14. PatchOK(others, p)
    BY <1>1, <1>4 DEF PatchOK, h
<1>15. Closed(written)
    BY <1>1, <1>12, <1>14, PatchCloses DEF written
<1>16. written.facts = h /\ n.facts = h /\ n.bind = Over(written.bind, added)
    BY <1>3, <1>4, <1>5
<1>17. /\ DOMAIN n.bind = DOMAIN written.bind \cup DOMAIN added
       /\ \A k \in DOMAIN added : n.bind[k] = added[k]
       /\ \A k \in DOMAIN written.bind \ DOMAIN added : n.bind[k] = written.bind[k]
  <2>1. /\ DOMAIN Over(written.bind, added) = DOMAIN written.bind \cup DOMAIN added
        /\ \A k \in DOMAIN added : Over(written.bind, added)[k] = added[k]
        /\ \A k \in DOMAIN written.bind \ DOMAIN added : Over(written.bind, added)[k] = written.bind[k]
      BY Overs
  <2>2. QED  BY <1>16, <2>1
<1>18. Attested(n)
  <2>1. \A k \in DOMAIN added : k \in DOMAIN h /\ added[k].digest = h[k]
      BY <1>1, <1>8, <1>9, <1>10
  <2>2. \A k \in DOMAIN written.bind : k \in DOMAIN h /\ written.bind[k].digest = h[k]
      BY <1>13, <1>16 DEF Attested
  <2>3. QED  BY <1>16, <1>17, <2>1, <2>2 DEF Attested
<1>19. Closed(n)
    BY <1>15, <1>16 DEF Closed, Edges
<1>20. \A k \in DOMAIN bs : k \in DOMAIN n.bind /\ n.bind[k] = [repo |-> r, receipt |-> bs[k].receipt, digest |-> bs[k].digest]
    BY <1>8, <1>17
<1>21. \A k \in DOMAIN n.bind \ DOMAIN bs : k \in DOMAIN g.bind /\ n.bind[k] = g.bind[k] /\ g.bind[k].repo # r
    BY <1>6, <1>8, <1>13, <1>17
<1>22. BoundFits(n)
  <2>1. \A k \in DOMAIN bs : IsNode(k) /\ n.bind[k].repo = k[1].repo /\ k[1].repo \in Repo
    <3>1. ASSUME NEW k \in DOMAIN bs PROVE n.bind[k].repo = r
      <4>1. n.bind[k] = [repo |-> r, receipt |-> bs[k].receipt, digest |-> bs[k].digest]
          BY <1>20
      <4>2. QED  BY <4>1
    <3>2. QED  BY <1>9, <3>1
  <2>2. \A k \in DOMAIN n.bind \ DOMAIN bs : IsNode(k) /\ n.bind[k].repo = k[1].repo /\ k[1].repo \in Repo
      BY <1>21 DEF BoundFits
  <2>3. QED  BY <2>1, <2>2 DEF BoundFits
<1>23. n = [facts |-> h, bind |-> n.bind]
    BY <1>5, <1>16
<1>24. QED  BY <1>11, <1>18, <1>19, <1>20, <1>21, <1>22, <1>23 DEF n, bs, h, p

-----------------------------------------------------------------------------
(* The stitch.                                                             *)

\* A backing leads from a resource to a shared channel, both in the graph.
LEMMA Candidates ==
    ASSUME NEW g, KeysShaped(g), NEW k \in BackingCandidates(g)
    PROVE  /\ k = <<k[1], k[2], "BACKS">> /\ k[2].repo = Shared
           /\ NodeKey(k[1]) \in Nodes(g) /\ g.facts[NodeKey(k[1])].label = "Resource"
           /\ NodeKey(k[2]) \in Nodes(g)
<1>1. PICK n \in Nodes(g) : /\ g.facts[n].label = "Resource"
                            /\ NodeKey(Id(Shared, g.facts[n].v)) \in Nodes(g)
                            /\ k = <<n[1], Id(Shared, g.facts[n].v), "BACKS">>
    BY DEF BackingCandidates
<1>2. n = NodeKey(n[1])
    BY Keys DEF KeysShaped, Nodes
<1>3. k[1] = n[1] /\ k[2] = Id(Shared, g.facts[n].v) /\ k[3] = "BACKS"
    BY <1>1
<1>4. k[2].repo = Shared
    BY <1>3, Ids
<1>5. k = <<k[1], k[2], "BACKS">>
    BY <1>1, <1>3
<1>6. QED  BY <1>1, <1>2, <1>3, <1>4, <1>5

StitchStale(g) ==
    {k \in Edges(g) \ BackingCandidates(g) : k[3] = "BACKS" /\ g.facts[k].v = "observed"}

\* Patches that only delete edges, or only write them, touch no node and no
\* association of one.
LEMMA EmptyPatches ==
    ASSUME NEW rows, NEW keys
    PROVE  /\ [EmptyPatch EXCEPT !.edges = rows] = [drop |-> {}, gone |-> {}, nodes |-> EmptyFunction, edges |-> rows]
           /\ [EmptyPatch EXCEPT !.drop = keys] = [drop |-> keys, gone |-> {}, nodes |-> EmptyFunction, edges |-> EmptyFunction]
BY DEF EmptyPatch

\* The empty function has no arguments.
LEMMA EmptyDomain == DOMAIN EmptyFunction = {}
BY DEF EmptyFunction

\* Patches that touch edges only leave the associations of nodes.
LEMMA NodesStayBound ==
    ASSUME NEW g, NEW p, PatchShaped(p), p.gone = {}, DOMAIN p.nodes = {}, NEW k, IsNode(k)
    PROVE  k \notin Invalidated(g, p)
<1>1. ~IsEdge(k)
    BY DEF IsNode, IsEdge
<1>2. \A e \in {d \in DeletedKeys(g, p) : IsEdge(d)} \cup DOMAIN p.edges : k \notin EdgeTrigger(g, e)
    BY <1>1 DEF EdgeTrigger, PatchShaped
<1>3. QED  BY <1>2 DEF Invalidated

\* Deleting edges.
LEMMA EdgesDeleted ==
    ASSUME NEW g, NEW keys, KeysShaped(g), Attested(g), Closed(g), \A k \in keys : IsEdge(k)
    PROVE  LET s == DeleteEdges(g, keys)
           IN  /\ s = [facts |-> s.facts, bind |-> s.bind]
               /\ DOMAIN s.facts = DOMAIN g.facts \ keys
               /\ \A k \in DOMAIN s.facts : s.facts[k] = g.facts[k]
               /\ \A k \in DOMAIN s.bind : k \in DOMAIN g.bind /\ s.bind[k] = g.bind[k]
               /\ \A k \in DOMAIN g.bind : IsNode(k) => k \in DOMAIN s.bind
               /\ Attested(s) /\ Closed(s)
<1>1. PICK p : p = [drop |-> keys, gone |-> {}, nodes |-> EmptyFunction, edges |-> EmptyFunction]
    OBVIOUS
<1>2. /\ p.drop = keys /\ p.gone = {} /\ p.nodes = EmptyFunction /\ p.edges = EmptyFunction
      /\ DOMAIN p.nodes = {} /\ DOMAIN p.edges = {}
    BY <1>1, EmptyDomain
<1>3. PICK s : s = ApplyPatchRows(g, p)
    OBVIOUS
<1>4. s = DeleteEdges(g, keys)
    BY <1>1, <1>3, EmptyPatches DEF DeleteEdges
<1>5. PatchShaped(p)
    BY <1>2 DEF PatchShaped
<1>6. DOMAIN g.facts \ DeletedKeys(g, p) = DOMAIN g.facts \ keys
    BY <1>2 DEF DeletedKeys
<1>7. s = [facts |-> PatchedFacts(g, p), bind |-> Without(g.bind, Invalidated(g, p))]
    BY <1>3 DEF ApplyPatchRows
<1>8. /\ DOMAIN PatchedFacts(g, p) =
             (DOMAIN g.facts \ DeletedKeys(g, p)) \cup DOMAIN p.nodes \cup DOMAIN p.edges
      /\ \A k \in DOMAIN g.facts \ (DeletedKeys(g, p) \cup DOMAIN p.nodes \cup DOMAIN p.edges) :
             PatchedFacts(g, p)[k] = g.facts[k]
    BY <1>5, Patched
<1>9. /\ Attested(s) /\ DOMAIN s.bind = DOMAIN g.bind \ Invalidated(g, p)
      /\ \A k \in DOMAIN s.bind : s.bind[k] = g.bind[k]
    BY <1>3, <1>5, PatchAttests
<1>10. PatchOK(g, p)
    BY <1>2 DEF PatchOK
<1>11. Closed(s)
    BY <1>3, <1>5, <1>10, PatchCloses
<1>12. \A k : IsNode(k) => k \notin Invalidated(g, p)
    BY <1>2, <1>5, NodesStayBound
<1>13. s.facts = PatchedFacts(g, p) /\ s = [facts |-> s.facts, bind |-> s.bind]
    BY <1>7
<1>14. DOMAIN s.facts = DOMAIN g.facts \ keys /\ \A k \in DOMAIN s.facts : s.facts[k] = g.facts[k]
    BY <1>2, <1>6, <1>8, <1>13
<1>15. QED  BY <1>4, <1>9, <1>11, <1>12, <1>13, <1>14

\* Writing edges whose ends are in the graph.
LEMMA EdgesPut ==
    ASSUME NEW g, NEW rows, KeysShaped(g), Attested(g), Closed(g),
           \A k \in DOMAIN rows : KeyShaped(k) /\ IsEdge(k) /\ EndpointsIn(DOMAIN g.facts, k)
    PROVE  LET s == PutEdges(g, rows)
           IN  /\ s = [facts |-> s.facts, bind |-> s.bind]
               /\ DOMAIN s.facts = DOMAIN g.facts \cup DOMAIN rows
               /\ \A k \in DOMAIN rows : s.facts[k] = rows[k]
               /\ \A k \in DOMAIN s.facts \ DOMAIN rows : s.facts[k] = g.facts[k]
               /\ \A k \in DOMAIN s.bind : k \in DOMAIN g.bind /\ s.bind[k] = g.bind[k]
               /\ \A k \in DOMAIN g.bind : IsNode(k) => k \in DOMAIN s.bind
               /\ Attested(s) /\ Closed(s)
<1>1. PICK p : p = [drop |-> {}, gone |-> {}, nodes |-> EmptyFunction, edges |-> rows]
    OBVIOUS
<1>2. /\ p.drop = {} /\ p.gone = {} /\ p.nodes = EmptyFunction /\ p.edges = rows
      /\ DOMAIN p.nodes = {}
    BY <1>1, EmptyDomain
<1>3. PICK s : s = ApplyPatchRows(g, p)
    OBVIOUS
<1>4. s = PutEdges(g, rows)
    BY <1>1, <1>3, EmptyPatches DEF PutEdges
<1>5. PatchShaped(p)
    BY <1>2 DEF PatchShaped
<1>6. DeletedKeys(g, p) = {}
    BY <1>2 DEF DeletedKeys
<1>7. s = [facts |-> PatchedFacts(g, p), bind |-> Without(g.bind, Invalidated(g, p))]
    BY <1>3 DEF ApplyPatchRows
<1>8. /\ DOMAIN PatchedFacts(g, p) =
             (DOMAIN g.facts \ DeletedKeys(g, p)) \cup DOMAIN p.nodes \cup DOMAIN p.edges
      /\ \A k \in DOMAIN p.edges : PatchedFacts(g, p)[k] = p.edges[k]
      /\ \A k \in DOMAIN g.facts \ (DeletedKeys(g, p) \cup DOMAIN p.nodes \cup DOMAIN p.edges) :
             PatchedFacts(g, p)[k] = g.facts[k]
    BY <1>5, Patched
<1>9. /\ Attested(s) /\ DOMAIN s.bind = DOMAIN g.bind \ Invalidated(g, p)
      /\ \A k \in DOMAIN s.bind : s.bind[k] = g.bind[k]
    BY <1>3, <1>5, PatchAttests
<1>10. PatchOK(g, p)
    BY <1>2, <1>6, <1>8 DEF PatchOK, EndpointsIn
<1>11. Closed(s)
    BY <1>3, <1>5, <1>10, PatchCloses
<1>12. \A k : IsNode(k) => k \notin Invalidated(g, p)
    BY <1>2, <1>5, NodesStayBound
<1>13. s.facts = PatchedFacts(g, p) /\ s = [facts |-> s.facts, bind |-> s.bind]
    BY <1>7
<1>14. /\ DOMAIN s.facts = DOMAIN g.facts \cup DOMAIN rows
       /\ \A k \in DOMAIN rows : s.facts[k] = rows[k]
       /\ \A k \in DOMAIN s.facts \ DOMAIN rows : s.facts[k] = g.facts[k]
    BY <1>2, <1>6, <1>8, <1>13
<1>15. QED  BY <1>4, <1>9, <1>11, <1>12, <1>13, <1>14

\* The stitch writes no row but observed backings.
LEMMA StitchShape ==
    ASSUME NEW g, KeysShaped(g), Attested(g), Closed(g)
    PROVE  LET s == StitchBackings(g)
               cs == BackingCandidates(g)
           IN  /\ s = [facts |-> s.facts, bind |-> s.bind]
               /\ DOMAIN s.facts = (DOMAIN g.facts \ StitchStale(g)) \cup cs
               /\ \A k \in cs : s.facts[k] = BackingRow
               /\ \A k \in DOMAIN s.facts \ cs : s.facts[k] = g.facts[k]
               /\ \A k \in DOMAIN s.bind : k \in DOMAIN g.bind /\ s.bind[k] = g.bind[k]
               /\ \A k \in DOMAIN g.bind : IsNode(k) => k \in DOMAIN s.bind
               /\ Attested(s) /\ Closed(s)
<1>1. PICK stale : stale = StitchStale(g)
    OBVIOUS
<1>2. PICK cs : cs = BackingCandidates(g)
    OBVIOUS
<1>3. PICK rows : rows = [k \in cs |-> BackingRow]
    OBVIOUS
<1>4. PICK d : d = DeleteEdges(g, stale)
    OBVIOUS
<1>5. PICK s : s = PutEdges(d, rows)
    OBVIOUS
<1>6. s = StitchBackings(g)
    BY <1>1, <1>2, <1>3, <1>4, <1>5 DEF StitchBackings, StitchStale
<1>7. /\ d = [facts |-> d.facts, bind |-> d.bind]
      /\ DOMAIN d.facts = DOMAIN g.facts \ stale
      /\ \A k \in DOMAIN d.facts : d.facts[k] = g.facts[k]
      /\ \A k \in DOMAIN d.bind : k \in DOMAIN g.bind /\ d.bind[k] = g.bind[k]
      /\ \A k \in DOMAIN g.bind : IsNode(k) => k \in DOMAIN d.bind
      /\ Attested(d) /\ Closed(d)
  <2>1. \A k \in stale : IsEdge(k)
      BY <1>1 DEF StitchStale, Edges
  <2>2. QED  BY <1>4, <2>1, EdgesDeleted
<1>8. DOMAIN rows = cs /\ \A k \in cs : rows[k] = BackingRow
    BY <1>3
<1>9. KeysShaped(d)
    BY <1>7 DEF KeysShaped
<1>10. \A n \in Nodes(g) : n \in DOMAIN d.facts
  <2>1. \A n \in Nodes(g) : n \in DOMAIN g.facts /\ ~IsEdge(n)
      BY Keys DEF Nodes, KeysShaped
  <2>2. \A n \in stale : IsEdge(n)
      BY <1>1 DEF StitchStale, Edges
  <2>3. QED  BY <1>7, <2>1, <2>2
<1>11. \A k \in DOMAIN rows : KeyShaped(k) /\ IsEdge(k) /\ EndpointsIn(DOMAIN d.facts, k)
  <2>1. \A k \in cs : k = <<k[1], k[2], "BACKS">> /\ NodeKey(k[1]) \in Nodes(g) /\ NodeKey(k[2]) \in Nodes(g)
      BY <1>2, Candidates
  <2>2. \A k \in cs : KeyShaped(k) /\ IsEdge(k)
      BY <2>1, EdgeKeys
  <2>3. QED  BY <1>8, <1>10, <2>1, <2>2 DEF EndpointsIn
<1>12. /\ s = [facts |-> s.facts, bind |-> s.bind]
       /\ DOMAIN s.facts = DOMAIN d.facts \cup DOMAIN rows
       /\ \A k \in DOMAIN rows : s.facts[k] = rows[k]
       /\ \A k \in DOMAIN s.facts \ DOMAIN rows : s.facts[k] = d.facts[k]
       /\ \A k \in DOMAIN s.bind : k \in DOMAIN d.bind /\ s.bind[k] = d.bind[k]
       /\ \A k \in DOMAIN d.bind : IsNode(k) => k \in DOMAIN s.bind
       /\ Attested(s) /\ Closed(s)
  <2>1. Attested(d) /\ Closed(d)
      BY <1>7
  <2>2. QED  BY <1>5, <1>9, <1>11, <2>1, EdgesPut
<1>13. DOMAIN s.facts = (DOMAIN g.facts \ stale) \cup cs
    BY <1>7, <1>8, <1>12
<1>14. /\ \A k \in cs : s.facts[k] = BackingRow
       /\ \A k \in DOMAIN s.facts \ cs : s.facts[k] = g.facts[k]
    BY <1>7, <1>8, <1>12
<1>15. /\ \A k \in DOMAIN s.bind : k \in DOMAIN g.bind /\ s.bind[k] = g.bind[k]
       /\ \A k \in DOMAIN g.bind : IsNode(k) => k \in DOMAIN s.bind
    BY <1>7, <1>12
<1>16. QED  BY <1>1, <1>2, <1>6, <1>12, <1>13, <1>14, <1>15

\* What a stitch leaves fits.
LEMMA StitchFits ==
    ASSUME NEW g, FactsFit(g.facts), Attested(g), Closed(g), BoundFits(g), AdrsBeside(g.facts)
    PROVE  LET s == StitchBackings(g)
           IN  /\ FactsFit(s.facts) /\ BoundFits(s) /\ AdrsBeside(s.facts)
               /\ DOMAIN s.bind = DOMAIN g.bind
               /\ \A i : NodeKey(i) \in DOMAIN s.facts => NodeKey(i) \in DOMAIN g.facts
               /\ \A k \in DOMAIN g.facts \ DOMAIN s.facts :
                     IsEdge(k) /\ k[3] = "BACKS" /\ g.facts[k].v = "observed"
<1>1. KeysShaped(g)
    BY DEF KeysShaped, FactsFit
<1>2. PICK s : s = StitchBackings(g)
    OBVIOUS
<1>3. PICK cs : cs = BackingCandidates(g)
    OBVIOUS
<1>4. /\ DOMAIN s.facts = (DOMAIN g.facts \ StitchStale(g)) \cup cs
      /\ \A k \in cs : s.facts[k] = BackingRow
      /\ \A k \in DOMAIN s.facts \ cs : s.facts[k] = g.facts[k]
      /\ \A k \in DOMAIN s.bind : k \in DOMAIN g.bind /\ s.bind[k] = g.bind[k]
      /\ \A k \in DOMAIN g.bind : IsNode(k) => k \in DOMAIN s.bind
    BY <1>1, <1>2, <1>3, StitchShape
<1>5. \A k \in cs : /\ k = <<k[1], k[2], "BACKS">> /\ k[2].repo = Shared
                    /\ NodeKey(k[1]) \in Nodes(g) /\ g.facts[NodeKey(k[1])].label = "Resource"
    BY <1>1, <1>3, Candidates
<1>6. \A k \in StitchStale(g) : IsEdge(k) /\ k[3] = "BACKS" /\ g.facts[k].v = "observed"
    BY DEF StitchStale, Edges
<1>7. \A k \in cs : KeyShaped(k) /\ IsEdge(k) /\ ~IsNode(k) /\ k[3] = "BACKS"
  <2>1. \A k \in cs : KeyShaped(k) /\ IsEdge(k) /\ ~IsNode(k)
      BY <1>5, EdgeKeys
  <2>2. QED  BY <1>5, <2>1
<1>8. \A k \in DOMAIN g.facts : KeyShaped(k) /\ (IsNode(k) => ~IsEdge(k))
    BY <1>1, Keys DEF KeysShaped
<1>9. \A k : IsNode(k) => (k \in DOMAIN s.facts <=> k \in DOMAIN g.facts)
    BY <1>4, <1>6, <1>7, <1>8
<1>10. \A k \in DOMAIN s.facts : IsNode(k) => s.facts[k] = g.facts[k]
    BY <1>4, <1>7
<1>11. ASSUME NEW q, NEW e \in DOMAIN g.facts, ExtractedEdge(g.facts, e, q)
       PROVE  e \in DOMAIN s.facts /\ ExtractedEdge(s.facts, e, q)
  <2>1. e[3] # "BACKS"
      BY <1>11 DEF ExtractedEdge
  <2>2. e \in DOMAIN s.facts /\ s.facts[e] = g.facts[e]
      BY <1>4, <1>6, <1>7, <2>1
  <2>3. QED  BY <1>11, <2>2 DEF ExtractedEdge
<1>12. ASSUME NEW k \in DOMAIN s.facts, IsNode(k) PROVE NodeFits(s.facts, k)
  <2>1. k \in DOMAIN g.facts /\ s.facts[k] = g.facts[k]
      BY <1>9, <1>10, <1>12
  <2>2. NodeFits(g.facts, k)
      BY <1>12, <2>1 DEF FactsFit
  <2>3. ASSUME k[1].repo # Shared, s.facts[k].ph
        PROVE  \E e \in DOMAIN s.facts : Incident(e, k[1]) /\ ExtractedEdge(s.facts, e, k[1].repo)
      BY <1>11, <2>1, <2>2, <2>3 DEF NodeFits
  <2>4. QED  BY <2>1, <2>2, <2>3 DEF NodeFits
<1>13. ASSUME NEW k \in cs PROVE EdgeFits(s.facts, k)
  <2>1. NodeFits(g.facts, NodeKey(k[1]))
      BY <1>5, <1>13 DEF FactsFit, Nodes
  <2>2. k[1].repo \in Repo
      BY <1>5, <1>13, <2>1, NodeKeys DEF NodeFits
  <2>3. QED  BY <1>4, <1>5, <1>7, <1>13, <2>2 DEF EdgeFits
<1>14. ASSUME NEW k \in DOMAIN s.facts, k \notin cs, IsEdge(k) PROVE EdgeFits(s.facts, k)
  <2>1. k \in DOMAIN g.facts /\ s.facts[k] = g.facts[k]
      BY <1>4, <1>14
  <2>2. EdgeFits(g.facts, k)
      BY <1>14, <2>1 DEF FactsFit
  <2>3. QED  BY <2>1, <2>2 DEF EdgeFits, ExtractedEdge
<1>15. FactsFit(s.facts)
    BY <1>4, <1>7, <1>8, <1>12, <1>13, <1>14 DEF FactsFit
<1>16. DOMAIN s.bind = DOMAIN g.bind
    BY <1>4 DEF BoundFits
<1>17. BoundFits(s)
    BY <1>4 DEF BoundFits
<1>18. AdrsBeside(s.facts)
    BY <1>9, OwnIds DEF AdrsBeside
<1>19. \A i : NodeKey(i) \in DOMAIN s.facts => NodeKey(i) \in DOMAIN g.facts
    BY <1>9, NodeKeys
<1>20. QED  BY <1>2, <1>4, <1>6, <1>15, <1>16, <1>17, <1>18, <1>19

-----------------------------------------------------------------------------
(* The relink.                                                             *)

\* A decision record and a link of it, as found.
FoundAdr(facts, k, q) ==
    /\ k = NodeKey(AdrId(q)) /\ IsNode(k) /\ ~IsEdge(k) /\ KeyShaped(k)
    /\ facts[k].label = "ADR" /\ facts[k].by = {q} /\ facts[k].ph = FALSE

FoundLink(facts, k, q) ==
    /\ k[1] = AdrId(q) /\ k[3] = "DECIDES" /\ IsEdge(k) /\ ~IsNode(k) /\ KeyShaped(k)
    /\ facts[k].by = {q}

\* What is found of the decision records of a tree.
LEMMA AdrFound ==
    ASSUME NEW q, NEW t, NEW seen, NEW k \in DOMAIN AdrFacts(q, t, seen)
    PROVE  FoundAdr(AdrFacts(q, t, seen), k, q) \/ FoundLink(AdrFacts(q, t, seen), k, q)
<1>1. PICK facts : facts = AdrFacts(q, t, seen)
    OBVIOUS
<1>2. \/ k = NodeKey(AdrId(q)) /\ facts[k] = Row("ADR", {q}, FALSE, "found")
      \/ /\ facts[k] = Row("", {q}, FALSE, "found")
         /\ NodeKey(AdrId(q)) \in DOMAIN facts
         /\ \E i : k = <<AdrId(q), i, "DECIDES">> /\ NodeKey(i) \in DOMAIN seen
  <2>1. \/ k = NodeKey(AdrId(q)) /\ AdrFacts(q, t, seen)[k] = Row("ADR", {q}, FALSE, "found")
        \/ /\ AdrFacts(q, t, seen)[k] = Row("", {q}, FALSE, "found")
           /\ NodeKey(AdrId(q)) \in DOMAIN AdrFacts(q, t, seen)
           /\ \E i : k = <<AdrId(q), i, "DECIDES">> /\ NodeKey(i) \in DOMAIN seen
      BY AdrShape
  <2>2. QED  BY <1>1, <2>1
<1>3. CASE k = NodeKey(AdrId(q)) /\ facts[k] = Row("ADR", {q}, FALSE, "found")
  <2>1. facts[k].label = "ADR" /\ facts[k].by = {q} /\ facts[k].ph = FALSE
    <3>1. PICK row : row = Row("ADR", {q}, FALSE, "found")
        OBVIOUS
    <3>2. row.label = "ADR" /\ row.by = {q} /\ row.ph = FALSE
        BY <3>1 DEF Row
    <3>3. QED  BY <1>3, <3>1, <3>2
  <2>2. QED  BY <1>1, <1>3, <2>1, NodeKeys DEF FoundAdr
<1>4. CASE facts[k] = Row("", {q}, FALSE, "found") /\ \E i : k = <<AdrId(q), i, "DECIDES">>
  <2>1. facts[k].by = {q}
    <3>1. PICK row : row = Row("", {q}, FALSE, "found")
        OBVIOUS
    <3>2. row.by = {q}
        BY <3>1 DEF Row
    <3>3. QED  BY <1>4, <3>1, <3>2
  <2>2. PICK i : k = <<AdrId(q), i, "DECIDES">>
      BY <1>4
  <2>3. k[1] = AdrId(q) /\ k[3] = "DECIDES"
      BY <2>2
  <2>4. IsEdge(k) /\ ~IsNode(k) /\ KeyShaped(k)
      BY <2>2, EdgeKeys
  <2>5. QED  BY <1>1, <2>1, <2>3, <2>4 DEF FoundLink
<1>5. QED  BY <1>2, <1>3, <1>4

\* The patch of a relink against the graph that it was computed from.
LEMMA RelinkShape ==
    ASSUME NEW seen, NEW at
    PROVE  LET p == FoundAdrPatch(seen, at)
           IN  /\ PatchShaped(p)
               /\ \A k \in p.drop : k[3] = "DECIDES"
               /\ \A i \in p.gone : \E q \in Repo : i = AdrId(q)
               /\ \A k \in DOMAIN p.nodes : \E q \in Repo :
                     FoundAdr(p.nodes, k, q) /\ NodeKey(RepoId(q)) \in DOMAIN seen
               /\ \A k \in DOMAIN p.edges : \E q \in Repo : FoundLink(p.edges, k, q)
<1>0. PICK p : p = FoundAdrPatch(seen, at)
    OBVIOUS
<1>1. PICK rs : rs = {r \in Repo : NodeKey(RepoId(r)) \in DOMAIN seen}
    OBVIOUS
<1>2. PICK facts : facts = [r \in rs |-> AdrFacts(r, at[r], seen)]
    OBVIOUS
<1>3. PICK current : current = {r \in rs : facts[r] # EmptyFunction}
    OBVIOUS
<1>4. PICK existing : existing = {r \in rs : NodeKey(AdrId(r)) \in DOMAIN seen}
    OBVIOUS
<1>5. PICK found : found = [k \in UNION {DOMAIN facts[r] : r \in rs} |-> facts[k[1].repo][k]]
    OBVIOUS
<1>6. p = [drop  |-> {k \in DOMAIN seen : IsEdge(k) /\ k[3] = "DECIDES"
                                        /\ \E r \in existing \cup current : k[1] = AdrId(r)},
           gone  |-> {AdrId(r) : r \in existing \ current},
           nodes |-> Restrict(found, {k \in DOMAIN found : IsNode(k)}),
           edges |-> Restrict(found, {k \in DOMAIN found : IsEdge(k)})]
    BY <1>0, <1>1, <1>2, <1>3, <1>4, <1>5 DEF FoundAdrPatch
<1>7. /\ \A k \in p.drop : IsEdge(k) /\ k[3] = "DECIDES"
      /\ \A i \in p.gone : \E q \in Repo : i = AdrId(q)
    BY <1>1, <1>4, <1>6
<1>8. /\ DOMAIN p.nodes = {k \in DOMAIN found : IsNode(k)} /\ \A k \in DOMAIN p.nodes : p.nodes[k] = found[k]
      /\ DOMAIN p.edges = {k \in DOMAIN found : IsEdge(k)} /\ \A k \in DOMAIN p.edges : p.edges[k] = found[k]
    BY <1>6 DEF Restrict
<1>9. ASSUME NEW k \in DOMAIN found
      PROVE  \E q \in Repo : /\ NodeKey(RepoId(q)) \in DOMAIN seen
                             /\ FoundAdr(found, k, q) \/ FoundLink(found, k, q)
  <2>1. PICK q \in rs : k \in DOMAIN facts[q]
      BY <1>5
  <2>2. facts[q] = AdrFacts(q, at[q], seen)
      BY <1>2
  <2>3. FoundAdr(facts[q], k, q) \/ FoundLink(facts[q], k, q)
    <3>1. k \in DOMAIN AdrFacts(q, at[q], seen)
        BY <2>1, <2>2
    <3>2. FoundAdr(AdrFacts(q, at[q], seen), k, q) \/ FoundLink(AdrFacts(q, at[q], seen), k, q)
        BY <3>1, AdrFound
    <3>3. QED  BY <2>2, <3>2
  <2>4. k[1] = AdrId(q)
      BY <2>3, NodeKeys DEF FoundAdr, FoundLink
  <2>5. k[1].repo = q
      BY <2>4, OwnIds
  <2>6. found[k] = facts[q][k]
      BY <1>5, <2>5
  <2>7. q \in Repo /\ NodeKey(RepoId(q)) \in DOMAIN seen
      BY <1>1
  <2>8. FoundAdr(found, k, q) \/ FoundLink(found, k, q)
      BY <2>3, <2>6 DEF FoundAdr, FoundLink
  <2>9. QED  BY <2>7, <2>8
<1>10. \A k \in DOMAIN found : KeyShaped(k)
    BY <1>9 DEF FoundAdr, FoundLink
<1>11. PatchShaped(p)
    BY <1>7, <1>8, <1>10 DEF PatchShaped
<1>12. ASSUME NEW k \in DOMAIN p.nodes
       PROVE  \E q \in Repo : FoundAdr(p.nodes, k, q) /\ NodeKey(RepoId(q)) \in DOMAIN seen
  <2>1. k \in DOMAIN found /\ IsNode(k) /\ p.nodes[k] = found[k]
      BY <1>8
  <2>2. PICK q \in Repo : /\ NodeKey(RepoId(q)) \in DOMAIN seen
                          /\ FoundAdr(found, k, q) \/ FoundLink(found, k, q)
      BY <1>9, <2>1
  <2>3. QED  BY <2>1, <2>2 DEF FoundAdr, FoundLink
<1>13. ASSUME NEW k \in DOMAIN p.edges PROVE \E q \in Repo : FoundLink(p.edges, k, q)
  <2>1. k \in DOMAIN found /\ IsEdge(k) /\ p.edges[k] = found[k]
      BY <1>8
  <2>2. PICK q \in Repo : FoundAdr(found, k, q) \/ FoundLink(found, k, q)
      BY <1>9, <2>1
  <2>3. QED  BY <2>1, <2>2 DEF FoundAdr, FoundLink
<1>14. QED  BY <1>0, <1>7, <1>11, <1>12, <1>13

\* What a relink leaves fits.
LEMMA RelinkFits ==
    ASSUME NEW g, NEW at, g = [facts |-> g.facts, bind |-> g.bind],
           FactsFit(g.facts), Attested(g), Closed(g), BoundFits(g), AdrsBeside(g.facts),
           PatchOK(g, FoundAdrPatch(g.facts, at))
    PROVE  LET s == ApplyPatchRows(g, FoundAdrPatch(g.facts, at))
           IN  /\ s = [facts |-> s.facts, bind |-> s.bind]
               /\ FactsFit(s.facts) /\ Attested(s) /\ Closed(s) /\ BoundFits(s) /\ AdrsBeside(s.facts)
<1>1. KeysShaped(g)
    BY DEF KeysShaped, FactsFit
<1>2. PICK p : p = FoundAdrPatch(g.facts, at)
    OBVIOUS
<1>3. PICK s : s = ApplyPatchRows(g, p)
    OBVIOUS
<1>4. /\ PatchShaped(p)
      /\ \A k \in p.drop : k[3] = "DECIDES"
      /\ \A i \in p.gone : \E q \in Repo : i = AdrId(q)
      /\ \A k \in DOMAIN p.nodes : \E q \in Repo :
            FoundAdr(p.nodes, k, q) /\ NodeKey(RepoId(q)) \in DOMAIN g.facts
      /\ \A k \in DOMAIN p.edges : \E q \in Repo : FoundLink(p.edges, k, q)
    BY <1>2, RelinkShape
<1>5. s = [facts |-> PatchedFacts(g, p), bind |-> Without(g.bind, Invalidated(g, p))]
    BY <1>3 DEF ApplyPatchRows
<1>6. s.facts = PatchedFacts(g, p) /\ s = [facts |-> s.facts, bind |-> s.bind]
    BY <1>5
<1>7. /\ DOMAIN s.facts = (DOMAIN g.facts \ DeletedKeys(g, p)) \cup DOMAIN p.nodes \cup DOMAIN p.edges
      /\ \A k \in DOMAIN p.nodes : s.facts[k] = p.nodes[k]
      /\ \A k \in DOMAIN p.edges : s.facts[k] = p.edges[k]
      /\ \A k \in DOMAIN g.facts \ (DeletedKeys(g, p) \cup DOMAIN p.nodes \cup DOMAIN p.edges) :
            s.facts[k] = g.facts[k]
  <2>1. PatchShaped(p)
      BY <1>4
  <2>2. s.facts = PatchedFacts(g, p)
      BY <1>6
  <2>3. /\ DOMAIN PatchedFacts(g, p) =
               (DOMAIN g.facts \ DeletedKeys(g, p)) \cup DOMAIN p.nodes \cup DOMAIN p.edges
        /\ \A k \in DOMAIN p.nodes : PatchedFacts(g, p)[k] = p.nodes[k]
        /\ \A k \in DOMAIN p.edges : PatchedFacts(g, p)[k] = p.edges[k]
        /\ \A k \in DOMAIN g.facts \ (DeletedKeys(g, p) \cup DOMAIN p.nodes \cup DOMAIN p.edges) :
              PatchedFacts(g, p)[k] = g.facts[k]
      BY <2>1, Patched
  <2>4. QED  BY <2>2, <2>3
<1>8. /\ Attested(s) /\ DOMAIN s.bind = DOMAIN g.bind \ Invalidated(g, p)
      /\ \A k \in DOMAIN s.bind : s.bind[k] = g.bind[k]
    BY <1>1, <1>3, <1>4, PatchAttests
<1>9. PatchOK(g, p)
    BY <1>2
<1>10. Closed(s)
    BY <1>1, <1>3, <1>4, <1>9, PatchCloses
<1>11. BoundFits(s)
    BY <1>8 DEF BoundFits
<1>12. \A q : AdrId(q).name = "adr" /\ AdrId(q).repo = q /\ NodeKey(AdrId(q))[1] = AdrId(q)
    BY OwnIds
<1>13. ASSUME NEW q, NEW e \in DOMAIN g.facts, IsEdge(e), ExtractedEdge(g.facts, e, q)
       PROVE  e \in DOMAIN s.facts /\ ExtractedEdge(s.facts, e, q)
  <2>1. e[3] # "DECIDES" /\ e[1].name # "adr" /\ e[2].name # "adr"
      BY <1>13 DEF ExtractedEdge
  <2>2. ~IsNode(e)
      BY <1>1, <1>13, Keys DEF KeysShaped
  <2>3. e \notin DeletedKeys(g, p)
      BY <1>4, <1>12, <2>1, <2>2 DEF DeletedKeys
  <2>4. e \notin DOMAIN p.nodes /\ e \notin DOMAIN p.edges
      BY <1>4, <2>1, <2>2 DEF PatchShaped, FoundLink
  <2>5. e \in DOMAIN s.facts /\ s.facts[e] = g.facts[e]
      BY <1>7, <2>3, <2>4
  <2>6. QED  BY <1>13, <2>5 DEF ExtractedEdge
<1>14. ASSUME NEW k \in DOMAIN s.facts, k \notin DOMAIN p.nodes, k \notin DOMAIN p.edges
       PROVE  k \in DOMAIN g.facts /\ s.facts[k] = g.facts[k] /\ k \notin DeletedKeys(g, p)
    BY <1>7, <1>14
<1>15. ASSUME NEW k \in DOMAIN p.nodes PROVE NodeFits(s.facts, k)
  <2>1. PICK q \in Repo : FoundAdr(p.nodes, k, q)
      BY <1>4
  <2>2. k[1].repo = q /\ k[1].name = "adr"
      BY <1>12, <2>1 DEF FoundAdr
  <2>3. s.facts[k].label = "ADR" /\ s.facts[k].by = {q} /\ s.facts[k].ph = FALSE
      BY <1>7, <2>1 DEF FoundAdr
  <2>4. QED  BY <2>2, <2>3 DEF NodeFits
<1>16. ASSUME NEW k \in DOMAIN s.facts, IsNode(k), k \notin DOMAIN p.nodes PROVE NodeFits(s.facts, k)
  <2>1. k \notin DOMAIN p.edges
      BY <1>4, <1>16, Keys DEF PatchShaped
  <2>2. k \in DOMAIN g.facts /\ s.facts[k] = g.facts[k]
      BY <1>14, <1>16, <2>1
  <2>3. NodeFits(g.facts, k)
      BY <1>16, <2>2 DEF FactsFit
  <2>4. ASSUME k[1].repo # Shared, s.facts[k].ph
        PROVE  \E e \in DOMAIN s.facts : Incident(e, k[1]) /\ ExtractedEdge(s.facts, e, k[1].repo)
      BY <1>13, <2>2, <2>3, <2>4 DEF NodeFits, Incident
  <2>5. QED  BY <2>2, <2>3, <2>4 DEF NodeFits
<1>17. ASSUME NEW k \in DOMAIN p.edges PROVE EdgeFits(s.facts, k)
  <2>1. PICK q \in Repo : FoundLink(p.edges, k, q)
      BY <1>4
  <2>2. QED  BY <1>7, <2>1 DEF EdgeFits, FoundLink
<1>18. ASSUME NEW k \in DOMAIN s.facts, IsEdge(k), k \notin DOMAIN p.edges PROVE EdgeFits(s.facts, k)
  <2>1. k \notin DOMAIN p.nodes
      BY <1>4, <1>18, Keys DEF PatchShaped
  <2>2. k \in DOMAIN g.facts /\ s.facts[k] = g.facts[k]
      BY <1>14, <1>18, <2>1
  <2>3. EdgeFits(g.facts, k)
      BY <1>18, <2>2 DEF FactsFit
  <2>4. QED  BY <2>2, <2>3 DEF EdgeFits, ExtractedEdge
<1>19. FactsFit(s.facts)
  <2>1. \A k \in DOMAIN s.facts : KeyShaped(k)
      BY <1>1, <1>4, <1>7 DEF KeysShaped, PatchShaped
  <2>2. QED  BY <2>1, <1>15, <1>16, <1>17, <1>18 DEF FactsFit
<1>20. AdrsBeside(s.facts)
  <2> SUFFICES ASSUME NEW q \in Repo, NodeKey(AdrId(q)) \in DOMAIN s.facts
               PROVE  NodeKey(RepoId(q)) \in DOMAIN s.facts
      BY DEF AdrsBeside
  <2>1. NodeKey(RepoId(q)) \in DOMAIN g.facts
    <3>1. CASE NodeKey(AdrId(q)) \in DOMAIN p.nodes
      <4>1. PICK q1 \in Repo : NodeKey(AdrId(q)) = NodeKey(AdrId(q1)) /\ NodeKey(RepoId(q1)) \in DOMAIN g.facts
          BY <1>4, <3>1 DEF FoundAdr
      <4>2. q = q1
          BY <1>12, <4>1
      <4>3. QED  BY <4>1, <4>2
    <3>2. CASE NodeKey(AdrId(q)) \notin DOMAIN p.nodes
      <4>1. NodeKey(AdrId(q)) \notin DOMAIN p.edges
          BY <1>4, NodeKeys DEF PatchShaped
      <4>2. QED  BY <1>14, <3>2, <4>1 DEF AdrsBeside
    <3>3. QED  BY <3>1, <3>2
  <2>2. NodeKey(RepoId(q)) \notin DeletedKeys(g, p)
    <3>1. ~IsEdge(NodeKey(RepoId(q))) /\ NodeKey(RepoId(q))[1] = RepoId(q) /\ RepoId(q).name = "repo"
        BY NodeKeys, OwnIds
    <3>2. RepoId(q) \notin p.gone
        BY <1>4, <1>12, <3>1
    <3>3. QED  BY <1>4, <3>1, <3>2 DEF DeletedKeys, PatchShaped
  <2>3. QED  BY <1>7, <2>1, <2>2
<1>21. QED  BY <1>2, <1>3, <1>6, <1>8, <1>10, <1>11, <1>19, <1>20

-----------------------------------------------------------------------------
(* The invariant.                                                          *)

\* The load keeps what fits.
LEMMA LoadKeeps ==
    ASSUME NEW g, NEW r \in Repo, NEW f, GraphFits(g), AdrsBeside(g.facts), Emitted(r, f)
    PROVE  LET n == LoadIntoGraph(g, r, f)
           IN  GraphFits(n) /\ AdrsBeside(n.facts) /\ n.facts = PatchedFacts(g, LoadPatch(g, r, f))
<1>1. PICK n : n = LoadIntoGraph(g, r, f)
    OBVIOUS
<1>2. /\ FactsFit(g.facts) /\ BoundFits(g) /\ Attested(g) /\ Closed(g)
    BY DEF GraphFits
<1>3. g = [facts |-> g.facts, bind |-> g.bind]
    BY DEF GraphFits
<1>4. /\ n = [facts |-> PatchedFacts(g, LoadPatch(g, r, f)), bind |-> n.bind]
      /\ Attested(n) /\ Closed(n) /\ BoundFits(n)
    BY <1>1, <1>2, <1>3, LoadPublishes
<1>5. n.facts = PatchedFacts(g, LoadPatch(g, r, f))
    BY <1>4
<1>6. FactsFit(n.facts)
    BY <1>2, <1>5, LoadFits
<1>7. AdrsBeside(n.facts)
    BY <1>2, <1>5, LoadKeepsAdrs
<1>8. GraphFits(n)
    BY <1>4, <1>5, <1>6 DEF GraphFits
<1>9. QED  BY <1>1, <1>5, <1>7, <1>8

\* The stitch keeps what fits, and deletes observed backings only.
LEMMA StitchKeeps ==
    ASSUME NEW g, GraphFits(g), AdrsBeside(g.facts)
    PROVE  LET s == StitchBackings(g)
           IN  /\ GraphFits(s) /\ AdrsBeside(s.facts)
               /\ \A i : NodeKey(i) \in DOMAIN s.facts => NodeKey(i) \in DOMAIN g.facts
               /\ \A k \in DOMAIN g.facts \ DOMAIN s.facts :
                     IsEdge(k) /\ k[3] = "BACKS" /\ g.facts[k].v = "observed"
<1>1. PICK s : s = StitchBackings(g)
    OBVIOUS
<1>2. FactsFit(g.facts) /\ BoundFits(g) /\ Attested(g) /\ Closed(g)
    BY DEF GraphFits
<1>3. KeysShaped(g)
    BY <1>2 DEF KeysShaped, FactsFit
<1>4. s = [facts |-> s.facts, bind |-> s.bind] /\ Attested(s) /\ Closed(s)
    BY <1>1, <1>2, <1>3, StitchShape
<1>5. /\ FactsFit(s.facts) /\ BoundFits(s) /\ AdrsBeside(s.facts)
      /\ \A i : NodeKey(i) \in DOMAIN s.facts => NodeKey(i) \in DOMAIN g.facts
      /\ \A k \in DOMAIN g.facts \ DOMAIN s.facts :
            IsEdge(k) /\ k[3] = "BACKS" /\ g.facts[k].v = "observed"
    BY <1>1, <1>2, StitchFits
<1>6. QED  BY <1>1, <1>4, <1>5 DEF GraphFits

\* A relink that finds the graph that it has read keeps what fits.
LEMMA RelinkKeeps ==
    ASSUME NEW g, NEW at, GraphFits(g), AdrsBeside(g.facts), PatchOK(g, FoundAdrPatch(g.facts, at))
    PROVE  LET s == ApplyPatchRows(g, FoundAdrPatch(g.facts, at))
           IN  GraphFits(s) /\ AdrsBeside(s.facts)
<1>1. PICK s : s = ApplyPatchRows(g, FoundAdrPatch(g.facts, at))
    OBVIOUS
<1>2. FactsFit(g.facts) /\ BoundFits(g) /\ Attested(g) /\ Closed(g)
    BY DEF GraphFits
<1>3. g = [facts |-> g.facts, bind |-> g.bind]
    BY DEF GraphFits
<1>4. /\ s = [facts |-> s.facts, bind |-> s.bind]
      /\ FactsFit(s.facts) /\ Attested(s) /\ Closed(s) /\ BoundFits(s) /\ AdrsBeside(s.facts)
    BY <1>1, <1>2, <1>3, RelinkFits
<1>5. QED  BY <1>1, <1>4 DEF GraphFits

\* An emptied graph fits.
LEMMA ClearKeeps ==
    ASSUME NEW g, GraphFits(g)
    PROVE  GraphFits(Clear(g)) /\ AdrsBeside(Clear(g).facts)
<1>1. PICK p : p = [EmptyPatch EXCEPT !.drop = Edges(g), !.gone = {k[1] : k \in Nodes(g)}]
    OBVIOUS
<1>2. PICK s : s = ApplyPatchRows(g, p)
    OBVIOUS
<1>3. s = Clear(g)
    BY <1>1, <1>2 DEF Clear
<1>4. FactsFit(g.facts) /\ BoundFits(g) /\ Attested(g) /\ Closed(g) /\ KeysShaped(g)
    BY DEF GraphFits, KeysShaped, FactsFit
<1>5. /\ p.drop = Edges(g) /\ p.gone = {k[1] : k \in Nodes(g)}
      /\ DOMAIN p.nodes = {} /\ DOMAIN p.edges = {}
  <2>1. \A x, y : LET n == [EmptyPatch EXCEPT !.drop = x, !.gone = y]
                  IN  n.drop = x /\ n.gone = y /\ n.nodes = EmptyFunction /\ n.edges = EmptyFunction
      BY DEF EmptyPatch
  <2>2. QED  BY <1>1, <2>1, EmptyDomain
<1>6. PatchShaped(p)
    BY <1>5 DEF PatchShaped, Edges
<1>7. DOMAIN g.facts \ DeletedKeys(g, p) = {}
    BY <1>4, <1>5, Keys DEF DeletedKeys, KeysShaped, Nodes, Edges
<1>8. DOMAIN PatchedFacts(g, p) =
          (DOMAIN g.facts \ DeletedKeys(g, p)) \cup DOMAIN p.nodes \cup DOMAIN p.edges
    BY <1>6, Patched
<1>9. s = [facts |-> PatchedFacts(g, p), bind |-> Without(g.bind, Invalidated(g, p))]
    BY <1>2 DEF ApplyPatchRows
<1>10. s = [facts |-> s.facts, bind |-> s.bind] /\ s.facts = PatchedFacts(g, p)
    BY <1>9
<1>11. DOMAIN s.facts = {}
    BY <1>5, <1>7, <1>8, <1>10
<1>12. Attested(s)
    BY <1>2, <1>4, <1>6, PatchAttests
<1>13. DOMAIN s.bind = {}
    BY <1>11, <1>12 DEF Attested
<1>14. FactsFit(s.facts) /\ BoundFits(s) /\ Closed(s) /\ AdrsBeside(s.facts)
    BY <1>11, <1>13 DEF FactsFit, BoundFits, Closed, Edges, AdrsBeside
<1>15. QED  BY <1>3, <1>10, <1>12, <1>14 DEF GraphFits

\* GraphInv with its part about decision records as one about facts.
LEMMA AdrsAreBeside == AdrsHaveRepo <=> AdrsBeside(graph.facts)
BY OwnIds DEF AdrsHaveRepo, AdrsBeside, Nodes

\* The same in the next state.
LEMMA AdrsAreBesideNext == AdrsHaveRepo' <=> AdrsBeside(graph'.facts)
BY OwnIds DEF AdrsHaveRepo, AdrsBeside, Nodes

\* At first there is nothing.
LEMMA GraphInitHolds == GraphInit => GraphInv
<1> SUFFICES ASSUME GraphInit PROVE GraphInv
    OBVIOUS
<1>1. graph = [facts |-> EmptyFunction, bind |-> EmptyFunction] /\ rec = [r \in Repo |-> Idle]
    BY DEF GraphInit, EmptyGraph
<1>2. DOMAIN graph.facts = {} /\ DOMAIN graph.bind = {} /\ graph = [facts |-> graph.facts, bind |-> graph.bind]
    BY <1>1, EmptyDomain
<1>3. GraphFits(graph)
    BY <1>2 DEF GraphFits, FactsFit, BoundFits, Attested, Closed, Edges
<1>4. AdrsHaveRepo
    BY <1>2 DEF AdrsHaveRepo, Nodes
<1>5. \A r \in Repo : RecFits(r)
    BY <1>1 DEF RecFits, Idle
<1>6. QED  BY <1>1, <1>3, <1>4, <1>5 DEF GraphInv

\* The recovery that steps fits, the others are as before.
LEMMA RecsStay ==
    ASSUME NEW r \in Repo, GraphInv, NEW x, rec' = [rec EXCEPT ![r] = x],
           x.at = "extracted" => \E t \in Trees[r] : x.facts = Extracted(r, t),
           x.at = "linking" => \E at \in [Repo -> UNION {Trees[q] : q \in Repo}] : x.patch = FoundAdrPatch(x.seen, at)
    PROVE  DOMAIN rec' = Repo /\ \A q \in Repo : RecFits(q)'
<1>1. DOMAIN rec = Repo /\ \A q \in Repo : RecFits(q)
    BY DEF GraphInv
<1>2. DOMAIN rec' = Repo /\ rec'[r] = x /\ \A q \in Repo \ {r} : rec'[q] = rec[q]
    BY <1>1
<1>3. RecFits(r)'
    BY <1>2 DEF RecFits
<1>4. \A q \in Repo \ {r} : RecFits(q)'
    BY <1>1, <1>2 DEF RecFits
<1>5. QED  BY <1>2, <1>3, <1>4

\* What a step has to establish.
LEMMA GraphInvStays ==
    ASSUME GraphInv, GraphFits(graph'), AdrsBeside(graph'.facts), DOMAIN rec' = Repo, \A q \in Repo : RecFits(q)'
    PROVE  GraphInv'
BY AdrsAreBesideNext DEF GraphInv, GraphFits, FactsFit

\* The fields of a recovery at each stage.
LEMMA IdleRecs ==
    /\ Idle.at = "idle"
    /\ \A x : [Idle EXCEPT !.at = x].at = x
    /\ \A x, y : LET n == [Idle EXCEPT !.at = x, !.facts = y] IN n.at = x /\ n.facts = y
    /\ \A x, y, z : LET n == [Idle EXCEPT !.at = x, !.seen = y, !.patch = z] IN n.at = x /\ n.seen = y /\ n.patch = z
BY DEF Idle

\* An extraction touches its recovery only.
LEMMA ExtractKeeps ==
    ASSUME GraphInv, NEW r \in Repo, Extract(r)
    PROVE  GraphInv'
<1>1. PICK t \in Trees[r] : rec' = [rec EXCEPT ![r] = [Idle EXCEPT !.at = "extracted", !.facts = Extracted(r, t)]]
    BY DEF Extract
<1>2. PICK x : x = [Idle EXCEPT !.at = "extracted", !.facts = Extracted(r, t)]
    OBVIOUS
<1>3. x.at = "extracted" /\ x.facts = Extracted(r, t)
    BY <1>2, IdleRecs
<1>4. DOMAIN rec' = Repo /\ \A q \in Repo : RecFits(q)'
    BY <1>1, <1>2, <1>3, RecsStay
<1>5. graph' = graph /\ GraphFits(graph) /\ AdrsBeside(graph.facts)
    BY AdrsAreBeside DEF Extract, GraphInv
<1>6. QED  BY <1>4, <1>5, GraphInvStays

\* What a recovery is about to load was emitted.
LEMMA HeldIsEmitted ==
    ASSUME GraphInv, NEW r \in Repo, rec[r].at = "extracted"
    PROVE  Emitted(r, rec[r].facts)
BY ExtractedIsEmitted DEF GraphInv, RecFits

\* Load and stitch of what was extracted.
LEMMA LoadAndStitchKeeps ==
    ASSUME GraphInv, NEW r \in Repo, LoadAndStitch(r)
    PROVE  GraphInv'
<1>1. PICK f : f = rec[r].facts
    OBVIOUS
<1>2. PICK n : n = LoadIntoGraph(graph, r, f)
    OBVIOUS
<1>3. graph' = StitchBackings(n) /\ rec' = [rec EXCEPT ![r] = [Idle EXCEPT !.at = "loaded"]]
    BY <1>1, <1>2 DEF LoadAndStitch
<1>4. GraphFits(graph) /\ AdrsBeside(graph.facts) /\ Emitted(r, f)
    BY <1>1, HeldIsEmitted, AdrsAreBeside DEF LoadAndStitch, GraphInv
<1>5. GraphFits(n) /\ AdrsBeside(n.facts)
    BY <1>2, <1>4, LoadKeeps
<1>6. GraphFits(graph') /\ AdrsBeside(graph'.facts)
    BY <1>3, <1>5, StitchKeeps
<1>7. PICK x : x = [Idle EXCEPT !.at = "loaded"]
    OBVIOUS
<1>8. x.at = "loaded"
    BY <1>7, IdleRecs
<1>9. DOMAIN rec' = Repo /\ \A q \in Repo : RecFits(q)'
    BY <1>3, <1>7, <1>8, RecsStay
<1>10. QED  BY <1>6, <1>9, GraphInvStays

\* A recovery that ends fits.
LEMMA IdleAgain ==
    ASSUME GraphInv, NEW r \in Repo, rec' = [rec EXCEPT ![r] = Idle]
    PROVE  DOMAIN rec' = Repo /\ \A q \in Repo : RecFits(q)'
BY RecsStay, IdleRecs

\* The load alone.
LEMMA LoadThenCancelledKeeps ==
    ASSUME GraphInv, NEW r \in Repo, LoadThenCancelled(r)
    PROVE  GraphInv'
<1>1. PICK f : f = rec[r].facts
    OBVIOUS
<1>2. graph' = LoadIntoGraph(graph, r, f) /\ rec' = [rec EXCEPT ![r] = Idle]
    BY <1>1 DEF LoadThenCancelled
<1>3. GraphFits(graph) /\ AdrsBeside(graph.facts) /\ Emitted(r, f)
    BY <1>1, HeldIsEmitted, AdrsAreBeside DEF LoadThenCancelled, GraphInv
<1>4. GraphFits(graph') /\ AdrsBeside(graph'.facts)
    BY <1>2, <1>3, LoadKeeps
<1>5. QED  BY <1>2, <1>4, IdleAgain, GraphInvStays

\* A relink reads a snapshot.
LEMMA RelinkReadKeeps ==
    ASSUME GraphInv, NEW r \in Repo, RelinkRead(r)
    PROVE  GraphInv'
<1>1. PICK at \in [Repo -> UNION {Trees[q] : q \in Repo}] :
          rec' = [rec EXCEPT ![r] = [Idle EXCEPT !.at = "linking", !.seen = ReadSnapshot(graph),
                                                 !.patch = FoundAdrPatch(ReadSnapshot(graph), at)]]
    BY DEF RelinkRead
<1>2. PICK x : x = [Idle EXCEPT !.at = "linking", !.seen = ReadSnapshot(graph),
                                !.patch = FoundAdrPatch(ReadSnapshot(graph), at)]
    OBVIOUS
<1>3. x.at = "linking" /\ x.patch = FoundAdrPatch(x.seen, at)
    BY <1>2, IdleRecs
<1>4. DOMAIN rec' = Repo /\ \A q \in Repo : RecFits(q)'
    BY <1>1, <1>2, <1>3, RecsStay
<1>5. graph' = graph /\ GraphFits(graph) /\ AdrsBeside(graph.facts)
    BY AdrsAreBeside DEF RelinkRead, GraphInv
<1>6. QED  BY <1>4, <1>5, GraphInvStays

\* A relink is applied to the graph that it was computed from.
LEMMA RelinkApplyKeeps ==
    ASSUME GraphInv, NEW r \in Repo, RelinkApply(r)
    PROVE  GraphInv'
<1>1. /\ rec[r].at = "linking" /\ graph.facts = rec[r].seen /\ PatchOK(graph, rec[r].patch)
      /\ graph' = ApplyPatchRows(graph, rec[r].patch) /\ rec' = [rec EXCEPT ![r] = Idle]
    BY DEF RelinkApply, RelinkApplies, ApplyPatchIfSnapshotMatchesOK, ReadSnapshot
<1>2. PICK at : rec[r].patch = FoundAdrPatch(rec[r].seen, at)
    BY <1>1 DEF GraphInv, RecFits
<1>3. PatchOK(graph, FoundAdrPatch(graph.facts, at)) /\ graph' = ApplyPatchRows(graph, FoundAdrPatch(graph.facts, at))
    BY <1>1, <1>2
<1>4. GraphFits(graph) /\ AdrsBeside(graph.facts)
    BY AdrsAreBeside DEF GraphInv
<1>5. GraphFits(graph') /\ AdrsBeside(graph'.facts)
    BY <1>3, <1>4, RelinkKeeps
<1>6. QED  BY <1>1, <1>5, IdleAgain, GraphInvStays

\* A stale relink and a stopped recovery write nothing.
LEMMA StopKeeps ==
    ASSUME GraphInv, NEW r \in Repo, RelinkStale(r) \/ StopRecovery(r)
    PROVE  GraphInv'
<1>1. graph' = graph /\ GraphFits(graph) /\ AdrsBeside(graph.facts) /\ rec' = [rec EXCEPT ![r] = Idle]
    BY AdrsAreBeside DEF RelinkStale, StopRecovery, GraphInv
<1>2. QED  BY <1>1, IdleAgain, GraphInvStays

\* The user empties the graph.
LEMMA ClearGraphKeeps ==
    ASSUME GraphInv, ClearGraph
    PROVE  GraphInv'
<1>1. graph' = Clear(graph) /\ GraphFits(graph) /\ rec' = rec
    BY DEF ClearGraph, GraphInv
<1>2. GraphFits(graph') /\ AdrsBeside(graph'.facts)
    BY <1>1, ClearKeeps
<1>3. DOMAIN rec' = Repo /\ \A q \in Repo : RecFits(q)'
    BY <1>1 DEF GraphInv, RecFits
<1>4. QED  BY <1>2, <1>3, GraphInvStays

\* The process starts again.
LEMMA RestartKeeps ==
    ASSUME GraphInv, Restart
    PROVE  GraphInv'
<1>1. (graph' = Clear(graph) \/ graph' = graph) /\ GraphFits(graph) /\ AdrsBeside(graph.facts)
    BY AdrsAreBeside DEF Restart, OpenGraph, GraphInv
<1>2. GraphFits(graph') /\ AdrsBeside(graph'.facts)
    BY <1>1, ClearKeeps
<1>3. rec' = [r \in Repo |-> Idle]
    BY DEF Restart
<1>4. DOMAIN rec' = Repo /\ \A q \in Repo : RecFits(q)'
    BY <1>3, IdleRecs DEF RecFits
<1>5. QED  BY <1>2, <1>4, GraphInvStays

\* Every step keeps the invariant.
LEMMA GraphNextKeeps == GraphInv /\ [GraphNext]_graphVars => GraphInv'
<1> SUFFICES ASSUME GraphInv, [GraphNext]_graphVars PROVE GraphInv'
    OBVIOUS
<1>1. ASSUME NEW r \in Repo, Extract(r) PROVE GraphInv'
    BY <1>1, ExtractKeeps
<1>2. ASSUME NEW r \in Repo, LoadAndStitch(r) PROVE GraphInv'
    BY <1>2, LoadAndStitchKeeps
<1>3. ASSUME NEW r \in Repo, LoadThenCancelled(r) PROVE GraphInv'
    BY <1>3, LoadThenCancelledKeeps
<1>4. ASSUME NEW r \in Repo, RelinkRead(r) PROVE GraphInv'
    BY <1>4, RelinkReadKeeps
<1>5. ASSUME NEW r \in Repo, RelinkApply(r) PROVE GraphInv'
    BY <1>5, RelinkApplyKeeps
<1>6. ASSUME NEW r \in Repo, RelinkStale(r) \/ StopRecovery(r) PROVE GraphInv'
    BY <1>6, StopKeeps
<1>7. CASE ClearGraph
    BY <1>7, ClearGraphKeeps
<1>8. CASE Restart
    BY <1>8, RestartKeeps
<1>9. CASE UNCHANGED graphVars
  <2>1. graph' = graph /\ rec' = rec
      BY <1>9 DEF graphVars
  <2>2. GraphFits(graph') /\ AdrsBeside(graph'.facts)
      BY <2>1, AdrsAreBeside DEF GraphInv
  <2>3. DOMAIN rec' = Repo /\ \A q \in Repo : RecFits(q)'
      BY <2>1 DEF GraphInv, RecFits
  <2>4. QED  BY <2>2, <2>3, GraphInvStays
<1>10. QED  BY <1>1, <1>2, <1>3, <1>4, <1>5, <1>6, <1>7, <1>8, <1>9 DEF GraphNext

\* GraphInv holds in every state of GraphIngest.
THEOREM GraphStaysFit == GraphSpec => []GraphInv
<1>1. GraphInit => GraphInv
    BY GraphInitHolds
<1>2. GraphInv /\ [GraphNext]_graphVars => GraphInv'
    BY GraphNextKeeps
<1>3. QED  BY <1>1, <1>2, PTL DEF GraphSpec

\* Associations attest the stored rows and edges have their ends, under every
\* interleaving of loads, stitches, relinks, clears and restarts.
THEOREM AttestedAndClosed == GraphSpec => []GraphAttested
<1>1. GraphInv => GraphAttested
    BY DEF GraphInv, GraphFits, GraphAttested
<1>2. QED  BY <1>1, GraphStaysFit, PTL

\* A decision record is in the graph beside its repository only.
THEOREM NoAdrAlone == GraphSpec => []AdrsHaveRepo
<1>1. GraphInv => AdrsHaveRepo
    BY DEF GraphInv
<1>2. QED  BY <1>1, GraphStaysFit, PTL

-----------------------------------------------------------------------------
\* The keys after a load.
LEMMA LoadWrites ==
    ASSUME NEW g, NEW r, NEW f, KeysShaped(g), Closed(g), Emitted(r, f)
    PROVE  DOMAIN PatchedFacts(g, LoadPatch(g, r, f)) =
               (DOMAIN g.facts \ DeletedKeys(g, LoadPatch(g, r, f))) \cup DOMAIN Told(r, f)
<1>1. LET p == LoadPatch(g, r, f)
          n == PatchedFacts(g, p)
      IN  /\ PatchShaped(p) /\ PatchOK(g, p)
          /\ DOMAIN n = (DOMAIN g.facts \ DeletedKeys(g, p)) \cup DOMAIN Told(r, f)
          /\ \A e \in DOMAIN Told(r, f) : n[e] = Told(r, f)[e]
          /\ \A e \in DOMAIN n \ DOMAIN Told(r, f) : n[e] = g.facts[e]
    BY LoadShape
<1>2. QED  BY <1>1

\* What a load may take from the others.
LEMMA LoadLoses ==
    ASSUME NEW g, NEW r \in Repo, NEW f, GraphFits(g), Emitted(r, f),
           NEW h, h = PatchedFacts(g, LoadPatch(g, r, f)), NEW k \in DOMAIN g.facts \ DOMAIN h
    PROVE  \/ IsNode(k) /\ k[1].repo \in {r, Shared}
           \/ IsEdge(k) /\ \/ g.facts[k].by = {r}
                           \/ \E i \in {1, 2} : k[i].repo = r /\ NodeKey(k[i]) \notin DOMAIN h
<1>0. Closed(g) /\ KeysShaped(g)
    BY DEF GraphFits, KeysShaped, FactsFit
<1>1. FactsFit(g.facts) /\ Closed(g) /\ KeysShaped(g)
    BY <1>0 DEF GraphFits
<1>2. PICK d : d = DeletedKeys(g, LoadPatch(g, r, f))
    OBVIOUS
<1>3. DOMAIN h = (DOMAIN g.facts \ d) \cup DOMAIN Told(r, f)
    BY <1>0, <1>2, LoadWrites
<1>4. /\ \A n \in DOMAIN Told(r, f) : n \notin d
      /\ \A n \in Nodes(g) : n \in d <=> n \in Stale(g, r, f)
      /\ \A e \in Edges(g) \cap d :
            \/ e \in Dropped(g, r, f)
            \/ \E i \in {e[1], e[2]} : i.repo = r /\ NodeKey(i) \in Stale(g, r, f)
    BY <1>1, <1>2, LoadDeletes
<1>5. \A n \in Stale(g, r, f) : n[1].repo \in {r, Shared}
    BY <1>1, OthersStay
<1>6. k \in d /\ KeyShaped(k)
    BY <1>1, <1>3 DEF KeysShaped
<1>7. CASE IsNode(k)
    BY <1>4, <1>5, <1>6, <1>7 DEF Nodes
<1>8. CASE IsEdge(k)
  <2>1. \A n \in Stale(g, r, f) : n \notin DOMAIN h
      BY <1>3, <1>4 DEF Stale
  <2>2. \A e \in Dropped(g, r, f) : g.facts[e].by = {r}
      BY DEF Dropped, FactOwnedByRepo
  <2>3. QED  BY <1>4, <1>6, <1>8, <2>1, <2>2 DEF Edges
<1>9. QED  BY <1>6, <1>7, <1>8, Keys

\* A load rewrites no backing.
LEMMA LoadRewrites ==
    ASSUME NEW g, NEW r \in Repo, NEW f, GraphFits(g), Emitted(r, f),
           NEW h, h = PatchedFacts(g, LoadPatch(g, r, f)),
           NEW k \in DOMAIN h, IsEdge(k), k[3] = "BACKS"
    PROVE  k \in DOMAIN g.facts /\ h[k] = g.facts[k]
<1>1. Closed(g) /\ KeysShaped(g)
    BY DEF GraphFits, KeysShaped, FactsFit
<1>2. LET p == LoadPatch(g, r, f)
          n == PatchedFacts(g, p)
      IN  /\ PatchShaped(p) /\ PatchOK(g, p)
          /\ DOMAIN n = (DOMAIN g.facts \ DeletedKeys(g, p)) \cup DOMAIN Told(r, f)
          /\ \A e \in DOMAIN Told(r, f) : n[e] = Told(r, f)[e]
          /\ \A e \in DOMAIN n \ DOMAIN Told(r, f) : n[e] = g.facts[e]
    BY <1>1, LoadShape
<1>3. k \notin DOMAIN Told(r, f)
    BY CurrentFacts
<1>4. QED  BY <1>2, <1>3

\* A recovery of one repository keeps the facts of the others.
THEOREM OthersAreKept == GraphSpec => OthersKept
<1>1. GraphInv /\ [GraphNext]_graphVars =>
      [\A r \in Repo :
        (LoadAndStitch(r) \/ LoadThenCancelled(r)) =>
            \A k \in DOMAIN graph.facts \ DOMAIN graph'.facts :
                \/ IsNode(k) /\ k[1].repo \in {r, Shared}
                \/ IsEdge(k) /\ (graph.facts[k].by = {r} \/ graph.facts[k].v = "observed"
                                 \/ \E i \in {1, 2} : k[i].repo = r /\ NodeKey(k[i]) \notin DOMAIN graph'.facts)
      ]_graphVars
  <2> SUFFICES ASSUME GraphInv, NEW r \in Repo, LoadAndStitch(r) \/ LoadThenCancelled(r),
                      NEW k \in DOMAIN graph.facts \ DOMAIN graph'.facts
               PROVE  \/ IsNode(k) /\ k[1].repo \in {r, Shared}
                      \/ IsEdge(k) /\ (graph.facts[k].by = {r} \/ graph.facts[k].v = "observed"
                                 \/ \E i \in {1, 2} : k[i].repo = r /\ NodeKey(k[i]) \notin DOMAIN graph'.facts)
      OBVIOUS
  <2>1. PICK f : f = rec[r].facts
      OBVIOUS
  <2>2. PICK n : n = LoadIntoGraph(graph, r, f)
      OBVIOUS
  <2>3. GraphFits(graph) /\ AdrsBeside(graph.facts) /\ Emitted(r, f)
      BY <2>1, HeldIsEmitted, AdrsAreBeside DEF LoadAndStitch, LoadThenCancelled, GraphInv
  <2>4. GraphFits(n) /\ AdrsBeside(n.facts) /\ n.facts = PatchedFacts(graph, LoadPatch(graph, r, f))
      BY <2>2, <2>3, LoadKeeps
  <2>5. graph' = n \/ graph' = StitchBackings(n)
      BY <2>1, <2>2 DEF LoadAndStitch, LoadThenCancelled
  <2>6. /\ \A i : NodeKey(i) \in DOMAIN graph'.facts => NodeKey(i) \in DOMAIN n.facts
        /\ \A e \in DOMAIN n.facts \ DOMAIN graph'.facts :
              IsEdge(e) /\ e[3] = "BACKS" /\ n.facts[e].v = "observed"
      BY <2>4, <2>5, StitchKeeps
  <2>7. CASE k \notin DOMAIN n.facts
    <3>1. \/ IsNode(k) /\ k[1].repo \in {r, Shared}
          \/ IsEdge(k) /\ \/ graph.facts[k].by = {r}
                          \/ \E i \in {1, 2} : k[i].repo = r /\ NodeKey(k[i]) \notin DOMAIN n.facts
        BY <2>3, <2>4, <2>7, LoadLoses
    <3>2. QED  BY <2>6, <3>1
  <2>8. CASE k \in DOMAIN n.facts
    <3>1. IsEdge(k) /\ k[3] = "BACKS" /\ n.facts[k].v = "observed"
        BY <2>6, <2>8
    <3>2. n.facts[k] = graph.facts[k]
        BY <2>3, <2>4, <2>8, <3>1, LoadRewrites
    <3>3. QED  BY <3>1, <3>2
  <2>9. QED  BY <2>7, <2>8
<1>2. QED  BY <1>1, GraphStaysFit, PTL DEF GraphSpec, OthersKept

-----------------------------------------------------------------------------
(* Recovering twice.                                                       *)

Fcn(f) == f = [x \in DOMAIN f |-> f[x]]

\* Functions with the same arguments and values are equal.
LEMMA FcnEqual ==
    ASSUME NEW f, NEW h, Fcn(f), Fcn(h), DOMAIN f = DOMAIN h, \A x \in DOMAIN f : f[x] = h[x]
    PROVE  f = h
<1>1. [x \in DOMAIN f |-> f[x]] = [x \in DOMAIN h |-> h[x]]
    OBVIOUS
<1>2. QED  BY <1>1 DEF Fcn

\* Functions made by the operators.
LEMMA FcnMade ==
    ASSUME NEW f, NEW h, NEW s
    PROVE  Fcn(Over(f, h)) /\ Fcn(Without(f, s)) /\ Fcn([x \in s |-> h])
BY DEF Fcn, Over, Without, Restrict

\* What a function is without some arguments.
LEMMA Withouts ==
    ASSUME NEW f, NEW s
    PROVE  /\ DOMAIN Without(f, s) = DOMAIN f \ s
           /\ \A x \in DOMAIN f \ s : Without(f, s)[x] = f[x]
BY DEF Without, Restrict

\* Patched facts and associations are functions.
LEMMA PatchFcn ==
    ASSUME NEW g, NEW p
    PROVE  Fcn(ApplyPatchRows(g, p).facts) /\ Fcn(ApplyPatchRows(g, p).bind)
<1>1. Fcn(PatchedFacts(g, p))
    BY FcnMade DEF PatchedFacts
<1>2. Fcn(Without(g.bind, Invalidated(g, p)))
    BY FcnMade
<1>3. PICK s : s = ApplyPatchRows(g, p)
    OBVIOUS
<1>4. s.facts = PatchedFacts(g, p) /\ s.bind = Without(g.bind, Invalidated(g, p))
    BY <1>3 DEF ApplyPatchRows
<1>5. QED  BY <1>1, <1>2, <1>3, <1>4

BoundTo(r, f, k) ==
    [repo |-> r, receipt |-> MatchingBindings(r, f)[k].receipt, digest |-> MatchingBindings(r, f)[k].digest]

\* A graph that a recovery of r with the facts f has just settled.
Once(g, r, f) ==
    /\ GraphFits(g) /\ Fcn(g.facts) /\ Fcn(g.bind)
    /\ \A k \in DOMAIN Told(r, f) : k \in DOMAIN g.facts /\ g.facts[k] = Told(r, f)[k]
    /\ \A e \in Edges(g) \ DOMAIN Told(r, f) : g.facts[e].by # {r}
    /\ \A k \in Nodes(g) \ DOMAIN Told(r, f) : k[1].repo # r
    /\ \A k \in DOMAIN MatchingBindings(r, f) : k \in DOMAIN g.bind /\ g.bind[k] = BoundTo(r, f, k)
    /\ \A k \in DOMAIN g.bind \ DOMAIN MatchingBindings(r, f) : g.bind[k].repo # r
    /\ \A e \in BackingCandidates(g) : e \in DOMAIN g.facts /\ g.facts[e] = BackingRow
    /\ StitchStale(g) = {}

\* Candidates are named by nodes.
LEMMA SameNodesSameCandidates ==
    ASSUME NEW g, NEW h, \A k : k \in Nodes(g) <=> k \in Nodes(h), \A k \in Nodes(g) : g.facts[k] = h.facts[k]
    PROVE  BackingCandidates(g) = BackingCandidates(h)
<1>1. Nodes(g) = Nodes(h)
    OBVIOUS
<1>2. {n \in Nodes(g) : g.facts[n].label = "Resource" /\ NodeKey(Id(Shared, g.facts[n].v)) \in Nodes(g)}
      = {n \in Nodes(h) : h.facts[n].label = "Resource" /\ NodeKey(Id(Shared, h.facts[n].v)) \in Nodes(h)}
    BY <1>1
<1>3. BackingCandidates(g) \subseteq BackingCandidates(h)
    BY <1>1, <1>2 DEF BackingCandidates
<1>4. BackingCandidates(h) \subseteq BackingCandidates(g)
    BY <1>1, <1>2 DEF BackingCandidates
<1>5. QED  BY <1>3, <1>4

\* What a load leaves of the facts.
LEMMA LoadOf ==
    ASSUME NEW g, NEW r \in Repo, NEW f, GraphFits(g), Emitted(r, f)
    PROVE  LET n == LoadIntoGraph(g, r, f)
               h == n.facts
               d == DeletedKeys(g, LoadPatch(g, r, f))
           IN  /\ DOMAIN h = (DOMAIN g.facts \ d) \cup DOMAIN Told(r, f)
               /\ \A k \in DOMAIN Told(r, f) : h[k] = Told(r, f)[k]
               /\ \A k \in DOMAIN h \ DOMAIN Told(r, f) : h[k] = g.facts[k]
<1>1. Closed(g) /\ KeysShaped(g)
    BY DEF GraphFits, KeysShaped, FactsFit
<1>2. LET p == LoadPatch(g, r, f)
          n == PatchedFacts(g, p)
      IN  /\ PatchShaped(p) /\ PatchOK(g, p)
          /\ DOMAIN n = (DOMAIN g.facts \ DeletedKeys(g, p)) \cup DOMAIN Told(r, f)
          /\ \A e \in DOMAIN Told(r, f) : n[e] = Told(r, f)[e]
          /\ \A e \in DOMAIN n \ DOMAIN Told(r, f) : n[e] = g.facts[e]
    BY <1>1, LoadShape
<1>3. FactsFit(g.facts) /\ BoundFits(g) /\ Attested(g) /\ Closed(g)
    BY DEF GraphFits
<1>4. g = [facts |-> g.facts, bind |-> g.bind]
    BY DEF GraphFits
<1>5. PICK n : n = LoadIntoGraph(g, r, f)
    OBVIOUS
<1>6. n = [facts |-> PatchedFacts(g, LoadPatch(g, r, f)), bind |-> n.bind]
    BY <1>3, <1>4, <1>5, LoadPublishes
<1>7. n.facts = PatchedFacts(g, LoadPatch(g, r, f))
    BY <1>6
<1>8. QED  BY <1>2, <1>5, <1>7

\* Told facts are no backings.
LEMMA ToldIsNotBacking ==
    ASSUME NEW r, NEW f, Emitted(r, f), NEW k \in DOMAIN Told(r, f)
    PROVE  ~(IsEdge(k) /\ k[3] = "BACKS")
BY CurrentFacts

\* A stitched graph needs no stitch.
LEMMA StitchedOnce ==
    ASSUME NEW n, GraphFits(n), NEW s, s = StitchBackings(n)
    PROVE  /\ Fcn(s.facts) /\ Fcn(s.bind)
           /\ \A e \in BackingCandidates(s) : e \in DOMAIN s.facts /\ s.facts[e] = BackingRow
           /\ StitchStale(s) = {}
           /\ \A k : IsNode(k) => (k \in DOMAIN s.facts <=> k \in DOMAIN n.facts)
           /\ \A k \in DOMAIN s.facts : s.facts[k] = n.facts[k] \/ (IsEdge(k) /\ k[3] = "BACKS" /\ s.facts[k] = BackingRow)
           /\ \A k \in DOMAIN s.facts \ DOMAIN n.facts : IsEdge(k) /\ k[3] = "BACKS" /\ s.facts[k] = BackingRow
           /\ \A k \in DOMAIN n.facts \ DOMAIN s.facts : IsEdge(k) /\ k[3] = "BACKS"
<1>1. FactsFit(n.facts) /\ Attested(n) /\ Closed(n)
    BY DEF GraphFits
<1>2. KeysShaped(n)
    BY <1>1 DEF KeysShaped, FactsFit
<1>3. PICK cs : cs = BackingCandidates(n)
    OBVIOUS
<1>4. /\ DOMAIN s.facts = (DOMAIN n.facts \ StitchStale(n)) \cup cs
      /\ \A k \in cs : s.facts[k] = BackingRow
      /\ \A k \in DOMAIN s.facts \ cs : s.facts[k] = n.facts[k]
    BY <1>1, <1>2, <1>3, StitchShape
<1>5. \A k \in cs : k = <<k[1], k[2], "BACKS">>
    BY <1>2, <1>3, Candidates
<1>6. \A k \in cs : IsEdge(k) /\ ~IsNode(k) /\ k[3] = "BACKS"
  <2>1. \A k \in cs : IsEdge(k) /\ ~IsNode(k)
      BY <1>5, EdgeKeys
  <2>2. QED  BY <1>5, <2>1
<1>7. \A k \in StitchStale(n) : IsEdge(k) /\ ~IsNode(k) /\ k[3] = "BACKS"
    BY <1>2, Keys DEF StitchStale, Edges, KeysShaped
<1>8. \A k : IsNode(k) => (k \in DOMAIN s.facts <=> k \in DOMAIN n.facts)
    BY <1>4, <1>6, <1>7
<1>9. BackingCandidates(s) = cs
  <2>1. \A k : k \in Nodes(s) <=> k \in Nodes(n)
      BY <1>8 DEF Nodes
  <2>2. \A k \in Nodes(s) : s.facts[k] = n.facts[k]
      BY <1>4, <1>6 DEF Nodes
  <2>3. QED  BY <1>3, <2>1, <2>2, SameNodesSameCandidates
<1>10. StitchStale(s) = {}
  <2> SUFFICES ASSUME NEW k \in StitchStale(s) PROVE FALSE
      OBVIOUS
  <2>1. k \in DOMAIN s.facts /\ IsEdge(k) /\ k \notin cs /\ k[3] = "BACKS" /\ s.facts[k].v = "observed"
      BY <1>9 DEF StitchStale, Edges
  <2>2. k \in DOMAIN n.facts /\ k \notin StitchStale(n) /\ n.facts[k].v = "observed"
      BY <1>4, <2>1
  <2>3. QED  BY <1>3, <2>1, <2>2 DEF StitchStale, Edges
<1>11. Fcn(s.facts) /\ Fcn(s.bind)
    BY PatchFcn DEF StitchBackings, PutEdges
<1>12. \A e \in BackingCandidates(s) : e \in DOMAIN s.facts /\ s.facts[e] = BackingRow
    BY <1>4, <1>9
<1>13. /\ \A k \in DOMAIN s.facts : s.facts[k] = n.facts[k] \/ (IsEdge(k) /\ k[3] = "BACKS" /\ s.facts[k] = BackingRow)
       /\ \A k \in DOMAIN s.facts \ DOMAIN n.facts : IsEdge(k) /\ k[3] = "BACKS" /\ s.facts[k] = BackingRow
       /\ \A k \in DOMAIN n.facts \ DOMAIN s.facts : IsEdge(k) /\ k[3] = "BACKS"
    BY <1>4, <1>6, <1>7
<1>14. QED  BY <1>8, <1>10, <1>11, <1>12, <1>13

\* The stitch keeps all associations.
LEMMA StitchKeepsBindings ==
    ASSUME NEW n, GraphFits(n), NEW s, s = StitchBackings(n)
    PROVE  DOMAIN s.bind = DOMAIN n.bind /\ \A k \in DOMAIN s.bind : s.bind[k] = n.bind[k]
<1>1. FactsFit(n.facts) /\ Attested(n) /\ Closed(n) /\ BoundFits(n)
    BY DEF GraphFits
<1>2. KeysShaped(n)
    BY <1>1 DEF KeysShaped, FactsFit
<1>3. /\ \A k \in DOMAIN s.bind : k \in DOMAIN n.bind /\ s.bind[k] = n.bind[k]
      /\ \A k \in DOMAIN n.bind : IsNode(k) => k \in DOMAIN s.bind
    BY <1>1, <1>2, StitchShape
<1>4. QED  BY <1>1, <1>3 DEF BoundFits

\* Load and stitch settle the graph.
LEMMA OnceHolds ==
    ASSUME NEW g, NEW r \in Repo, NEW f, GraphFits(g), AdrsBeside(g.facts), Emitted(r, f)
    PROVE  Once(Reloaded(g, r, f), r, f)
<1>1. PICK n : n = LoadIntoGraph(g, r, f)
    OBVIOUS
<1>2. PICK s : s = StitchBackings(n)
    OBVIOUS
<1>3. s = Reloaded(g, r, f)
    BY <1>1, <1>2 DEF Reloaded
<1>4. GraphFits(n) /\ AdrsBeside(n.facts)
    BY <1>1, LoadKeeps
<1>5. GraphFits(s)
    BY <1>2, <1>4, StitchKeeps
<1>6. PICK d : d = DeletedKeys(g, LoadPatch(g, r, f))
    OBVIOUS
<1>7. PICK T : T = Told(r, f)
    OBVIOUS
<1>8. /\ DOMAIN n.facts = (DOMAIN g.facts \ d) \cup DOMAIN T
      /\ \A k \in DOMAIN T : n.facts[k] = T[k]
      /\ \A k \in DOMAIN n.facts \ DOMAIN T : n.facts[k] = g.facts[k]
    BY <1>1, <1>6, <1>7, LoadOf
<1>9. /\ Fcn(s.facts) /\ Fcn(s.bind)
      /\ \A e \in BackingCandidates(s) : e \in DOMAIN s.facts /\ s.facts[e] = BackingRow
      /\ StitchStale(s) = {}
      /\ \A k : IsNode(k) => (k \in DOMAIN s.facts <=> k \in DOMAIN n.facts)
      /\ \A k \in DOMAIN s.facts : s.facts[k] = n.facts[k] \/ (IsEdge(k) /\ k[3] = "BACKS" /\ s.facts[k] = BackingRow)
      /\ \A k \in DOMAIN s.facts \ DOMAIN n.facts : IsEdge(k) /\ k[3] = "BACKS" /\ s.facts[k] = BackingRow
      /\ \A k \in DOMAIN n.facts \ DOMAIN s.facts : IsEdge(k) /\ k[3] = "BACKS"
    BY <1>2, <1>4, StitchedOnce
<1>10. \A k \in DOMAIN T : ~(IsEdge(k) /\ k[3] = "BACKS")
    BY <1>7, ToldIsNotBacking
<1>11. \A k \in DOMAIN T : k \in DOMAIN s.facts /\ s.facts[k] = T[k]
    BY <1>8, <1>9, <1>10
<1>12. Closed(g) /\ KeysShaped(g) /\ FactsFit(g.facts)
    BY DEF GraphFits, KeysShaped, FactsFit
<1>13. ASSUME NEW e \in Edges(s) \ DOMAIN T PROVE s.facts[e].by # {r}
  <2>1. CASE s.facts[e] = BackingRow
    <3>1. BackingRow.by = {}
        BY DEF BackingRow, Row
    <3>2. QED  BY <2>1, <3>1
  <2>2. CASE s.facts[e] # BackingRow
    <3>1. e \in DOMAIN n.facts /\ s.facts[e] = n.facts[e] /\ IsEdge(e)
        BY <1>9, <1>13, <2>2 DEF Edges
    <3>2. e \in DOMAIN g.facts /\ e \notin d /\ s.facts[e] = g.facts[e]
        BY <1>8, <1>13, <3>1
    <3>3. \A k \in Dropped(g, r, f) : k \in d
        BY <1>6, <1>12, LoadDeletes
    <3>4. QED  BY <1>7, <1>13, <3>1, <3>2, <3>3 DEF Dropped, Edges, FactOwnedByRepo
  <2>3. QED  BY <2>1, <2>2
<1>14. ASSUME NEW k \in Nodes(s) \ DOMAIN T PROVE k[1].repo # r
  <2>1. k \in Nodes(g) /\ k \notin d
      BY <1>8, <1>9, <1>14 DEF Nodes
  <2>2. \A m \in Nodes(g) : m \in d <=> m \in Stale(g, r, f)
      BY <1>6, <1>12, LoadDeletes
  <2>3. \A m \in Nodes(g) \ DOMAIN T : m[1].repo = r => m \in Stale(g, r, f)
      BY <1>7, <1>12, OthersStay
  <2>4. QED  BY <1>14, <2>1, <2>2, <2>3
<1>15. PICK bs : bs = MatchingBindings(r, f)
    OBVIOUS
<1>16. /\ \A k \in DOMAIN bs : k \in DOMAIN n.bind /\ n.bind[k] = [repo |-> r, receipt |-> bs[k].receipt, digest |-> bs[k].digest]
       /\ \A k \in DOMAIN n.bind \ DOMAIN bs : k \in DOMAIN g.bind /\ n.bind[k] = g.bind[k] /\ g.bind[k].repo # r
  <2>1. BoundFits(g) /\ Attested(g) /\ Closed(g) /\ FactsFit(g.facts)
      BY DEF GraphFits
  <2>2. g = [facts |-> g.facts, bind |-> g.bind]
      BY DEF GraphFits
  <2>3. QED  BY <1>1, <1>15, <2>1, <2>2, LoadPublishes
<1>17. DOMAIN s.bind = DOMAIN n.bind /\ \A k \in DOMAIN s.bind : s.bind[k] = n.bind[k]
    BY <1>2, <1>4, StitchKeepsBindings
<1>18. /\ \A k \in DOMAIN bs : k \in DOMAIN s.bind /\ s.bind[k] = BoundTo(r, f, k)
       /\ \A k \in DOMAIN s.bind \ DOMAIN bs : s.bind[k].repo # r
    BY <1>15, <1>16, <1>17 DEF BoundTo
<1>19. Once(s, r, f)
    BY <1>5, <1>7, <1>9, <1>11, <1>13, <1>14, <1>15, <1>18 DEF Once
<1>20. QED  BY <1>3, <1>19

\* The second reconcile finds everything as told; only orphans are stale.
LEMMA AgainOrphans ==
    ASSUME NEW g, NEW r \in Repo, NEW f, Emitted(r, f), Once(g, r, f)
    PROVE  /\ Dropped(g, r, f) = {} /\ Stale(g, r, f) = Orphans(g, r, f)
           /\ \A k \in Orphans(g, r, f) : k \in Nodes(g) /\ k[1].repo = Shared /\ k \notin DOMAIN Told(r, f)
           /\ \A k \in Orphans(g, r, f) : \A e \in Edges(g) : ~Incident(e, k[1])
<1>1. PICK T : T = Told(r, f)
    OBVIOUS
<1>2. /\ \A k \in DOMAIN T : k \in DOMAIN g.facts /\ g.facts[k] = T[k]
      /\ \A e \in Edges(g) \ DOMAIN T : g.facts[e].by # {r}
      /\ \A k \in Nodes(g) \ DOMAIN T : k[1].repo # r
    BY <1>1 DEF Once
<1>3. FactsFit(g.facts) /\ Closed(g)
    BY DEF Once, GraphFits
<1>4. Dropped(g, r, f) = {}
    BY <1>1, <1>2 DEF Dropped, FactOwnedByRepo
<1>5. Remains(g, r, f) = Edges(g)
    BY <1>1, <1>2, <1>4 DEF Remains, RemainingEdges, Edges
<1>6. DOMAIN T = DOMAIN f \cup {NodeKey(RepoId(r))} /\ T[NodeKey(RepoId(r))] = RepoRow(r)
    BY <1>1, Currents
<1>7. RepoRow(r).by = {} /\ RepoRow(r).ph = FALSE
    BY DEF RepoRow, Row
<1>8. ASSUME NEW k \in Orphans(g, r, f)
      PROVE  /\ k \in Nodes(g) \ DOMAIN T /\ \A e \in Edges(g) : ~Incident(e, k[1])
             /\ g.facts[k].by = {r} \/ g.facts[k].ph
  <2>1. /\ k \in Nodes(g) \ DOMAIN f /\ \A e \in Edges(g) : ~Incident(e, k[1])
        /\ g.facts[k].by = {r} \/ g.facts[k].ph
      BY DEF Orphans, FactOwnedByRepo
  <2>2. k # NodeKey(RepoId(r))
      BY <1>2, <1>6, <1>7, <2>1
  <2>3. QED  BY <1>6, <2>1, <2>2
<1>9. Stale(g, r, f) \subseteq Orphans(g, r, f)
  <2> SUFFICES ASSUME NEW k \in Stale(g, r, f) PROVE k \in Orphans(g, r, f)
      OBVIOUS
  <2>1. k \in Nodes(g) \ DOMAIN T /\ StaleNode(g, k, r, Remains(g, r, f))
      BY <1>1 DEF Stale, Remains
  <2>2. StaleNode(g, k, r, Edges(g)) /\ k[1].repo # r
      BY <1>2, <1>5, <2>1
  <2>3. QED  BY <1>6, <2>1, <2>2 DEF StaleNode, IdExplicitlyOwnedByRepo, Orphans
<1>10. Orphans(g, r, f) \subseteq Stale(g, r, f)
  <2> SUFFICES ASSUME NEW k \in Orphans(g, r, f) PROVE k \in Stale(g, r, f)
      OBVIOUS
  <2>1. StaleNode(g, k, r, Edges(g))
      BY <1>8 DEF StaleNode, FactOwnedByRepo
  <2>2. StaleNode(g, k, r, Remains(g, r, f))
      BY <1>5, <2>1
  <2>3. QED  BY <1>1, <1>8, <2>2 DEF Stale, Remains
<1>11. \A k \in Stale(g, r, f) : k[1].repo \in {r, Shared}
    BY <1>3, OthersStay
<1>12. QED  BY <1>1, <1>2, <1>4, <1>8, <1>9, <1>10, <1>11

\* A patch that writes nothing.
LEMMA PatchedDeletes ==
    ASSUME NEW g, NEW p, PatchShaped(p), DOMAIN p.nodes = {}, DOMAIN p.edges = {}
    PROVE  /\ DOMAIN PatchedFacts(g, p) = DOMAIN g.facts \ DeletedKeys(g, p)
           /\ \A k \in DOMAIN g.facts \ DeletedKeys(g, p) : PatchedFacts(g, p)[k] = g.facts[k]
<1>1. /\ DOMAIN PatchedFacts(g, p) =
             (DOMAIN g.facts \ DeletedKeys(g, p)) \cup DOMAIN p.nodes \cup DOMAIN p.edges
      /\ \A k \in DOMAIN g.facts \ (DeletedKeys(g, p) \cup DOMAIN p.nodes \cup DOMAIN p.edges) :
             PatchedFacts(g, p)[k] = g.facts[k]
    BY Patched
<1>2. QED  BY <1>1

\* ... so it deletes the orphans and writes nothing.
LEMMA AgainPatch ==
    ASSUME NEW g, NEW r \in Repo, NEW f, Emitted(r, f), Once(g, r, f),
           NEW p, p = LoadPatch(g, r, f)
    PROVE  /\ p.drop = {} /\ p.gone = {k[1] : k \in Orphans(g, r, f)}
           /\ DOMAIN p.nodes = {} /\ DOMAIN p.edges = {}
           /\ PatchedFacts(g, p) = Without(g.facts, Orphans(g, r, f))
<1>1. PICK left : left = Orphans(g, r, f)
    OBVIOUS
<1>2. /\ p.drop = Dropped(g, r, f) /\ p.gone = {k[1] : k \in Stale(g, r, f)}
      /\ \A k \in DOMAIN p.nodes \cup DOMAIN p.edges :
            k \in DOMAIN Told(r, f) /\ (k \notin DOMAIN g.facts \/ g.facts[k] # Told(r, f)[k])
    BY LoadFields
<1>3. \A k \in DOMAIN Told(r, f) : k \in DOMAIN g.facts /\ g.facts[k] = Told(r, f)[k]
    BY DEF Once
<1>4. DOMAIN p.nodes = {} /\ DOMAIN p.edges = {}
    BY <1>2, <1>3
<1>5. /\ Dropped(g, r, f) = {} /\ Stale(g, r, f) = left
      /\ \A k \in left : k \in Nodes(g) /\ \A e \in Edges(g) : ~Incident(e, k[1])
    BY <1>1, AgainOrphans
<1>6. p.drop = {} /\ p.gone = {k[1] : k \in left}
    BY <1>2, <1>5
<1>7. \A k \in DOMAIN g.facts : KeyShaped(k)
    BY DEF Once, GraphFits, FactsFit
<1>8. \A k \in Nodes(g) : k = NodeKey(k[1]) /\ IsNode(k) /\ ~IsEdge(k) /\ k \in DOMAIN g.facts
    BY <1>7, Keys DEF Nodes
<1>9. \A k \in DOMAIN g.facts : k \in DeletedKeys(g, p) <=> k \in left
  <2> SUFFICES ASSUME NEW k \in DOMAIN g.facts PROVE k \in DeletedKeys(g, p) <=> k \in left
      OBVIOUS
  <2>1. \A i \in p.gone : NodeKey(i) \in left
      BY <1>5, <1>6, <1>8
  <2>2. CASE IsNode(k)
      BY <1>6, <1>7, <1>8, <2>1, <2>2, Keys DEF DeletedKeys, Nodes
  <2>3. CASE IsEdge(k)
    <3>1. k \notin left
        BY <1>5, <1>8, <2>3
    <3>2. \A i \in p.gone : ~Incident(k, i)
        BY <1>5, <1>6, <2>3 DEF Edges
    <3>3. ~IsNode(k)
        BY <1>7, <2>3, Keys
    <3>4. QED  BY <1>6, <2>3, <3>1, <3>2, <3>3 DEF DeletedKeys, Incident
  <2>4. QED  BY <1>7, <2>2, <2>3, Keys
<1>10. PatchedFacts(g, p) = Without(g.facts, left)
  <2>1. PatchShaped(p)
      BY <1>4, <1>6 DEF PatchShaped
  <2>2. /\ DOMAIN PatchedFacts(g, p) = DOMAIN g.facts \ DeletedKeys(g, p)
        /\ \A k \in DOMAIN g.facts \ DeletedKeys(g, p) : PatchedFacts(g, p)[k] = g.facts[k]
      BY <1>4, <2>1, PatchedDeletes
  <2>3. /\ DOMAIN Without(g.facts, left) = DOMAIN g.facts \ left
        /\ \A x \in DOMAIN g.facts \ left : Without(g.facts, left)[x] = g.facts[x]
      BY Withouts
  <2>4. DOMAIN PatchedFacts(g, p) = DOMAIN Without(g.facts, left)
      BY <1>4, <1>9, <2>2, <2>3
  <2>5. \A x \in DOMAIN PatchedFacts(g, p) : PatchedFacts(g, p)[x] = Without(g.facts, left)[x]
      BY <1>4, <1>9, <2>2, <2>3
  <2>6. Fcn(PatchedFacts(g, p)) /\ Fcn(Without(g.facts, left))
      BY FcnMade DEF PatchedFacts
  <2>7. QED  BY <2>4, <2>5, <2>6, FcnEqual
<1>11. QED  BY <1>1, <1>4, <1>6, <1>10

\* ... and it renews the same bindings.
LEMMA AgainLoads ==
    ASSUME NEW g, NEW r \in Repo, NEW f, Emitted(r, f), Once(g, r, f)
    PROVE  LoadIntoGraph(g, r, f) = [facts |-> Without(g.facts, Orphans(g, r, f)), bind |-> g.bind]
<1>1. PICK p : p = LoadPatch(g, r, f)
    OBVIOUS
<1>2. PICK bs : bs = MatchingBindings(r, f)
    OBVIOUS
<1>3. PICK left : left = Orphans(g, r, f)
    OBVIOUS
<1>4. /\ p.drop = {} /\ p.gone = {k[1] : k \in left}
      /\ DOMAIN p.nodes = {} /\ DOMAIN p.edges = {}
      /\ PatchedFacts(g, p) = Without(g.facts, left)
    BY <1>1, <1>3, AgainPatch
<1>5. PICK theirs : theirs = Restrict(g.bind, {k \in DOMAIN g.bind : g.bind[k].repo # r})
    OBVIOUS
<1>6. /\ DOMAIN theirs = {k \in DOMAIN g.bind : g.bind[k].repo # r}
      /\ \A k \in DOMAIN theirs : theirs[k] = g.bind[k]
    BY <1>5 DEF Restrict
<1>7. PICK others : others = [facts |-> g.facts, bind |-> theirs]
    OBVIOUS
<1>8. others.facts = g.facts /\ others.bind = theirs
    BY <1>7
<1>9. PICK written : written = ApplyPatchRows(others, p)
    OBVIOUS
<1>10. PICK added : added = [k \in DOMAIN bs |-> [repo |-> r, receipt |-> bs[k].receipt, digest |-> bs[k].digest]]
    OBVIOUS
<1>11. LoadIntoGraph(g, r, f) = [written EXCEPT !.bind = Over(written.bind, added)]
  <2>1. g = [facts |-> g.facts, bind |-> g.bind]
      BY DEF Once, GraphFits
  <2>2. [g EXCEPT !.bind = theirs] = others
    <3>1. PICK gf, gb : g = [facts |-> gf, bind |-> gb] /\ gf = g.facts
        BY <2>1
    <3>2. QED  BY <1>7, <3>1
  <2>3. QED  BY <1>1, <1>2, <1>5, <1>9, <1>10, <2>2 DEF LoadIntoGraph, PublishWithBindings
<1>12. written.facts = Without(g.facts, left) /\ written.bind = Without(theirs, Invalidated(others, p))
  <2>1. written = [facts |-> PatchedFacts(others, p), bind |-> Without(others.bind, Invalidated(others, p))]
      BY <1>9 DEF ApplyPatchRows
  <2>2. PatchedFacts(others, p) = PatchedFacts(g, p)
      BY <1>8 DEF PatchedFacts, DeletedKeys
  <2>3. QED  BY <1>4, <1>8, <2>1, <2>2
<1>13. written = [facts |-> written.facts, bind |-> written.bind]
  <2>1. written = [facts |-> PatchedFacts(others, p), bind |-> Without(others.bind, Invalidated(others, p))]
      BY <1>9 DEF ApplyPatchRows
  <2>2. QED  BY <2>1
<1>14. ASSUME NEW k \in DOMAIN theirs PROVE k \notin Invalidated(others, p)
  <2>1. IsNode(k) /\ k[1].repo \in Repo /\ k[1].repo # Shared /\ ~IsEdge(k)
    <3>1. IsNode(k) /\ k[1].repo \in Repo
        BY <1>6 DEF Once, GraphFits, BoundFits
    <3>2. ~IsEdge(k)
        BY <3>1 DEF IsNode, IsEdge
    <3>3. QED  BY <3>1, <3>2, SharedIsNoRepo
  <2>2. \A i \in p.gone : i.repo = Shared
    <3>1. \A m \in left : m[1].repo = Shared
        BY <1>3, AgainOrphans
    <3>2. QED  BY <1>4, <3>1
  <2>3. \A i \in p.gone : k \notin NodeDeleteTrigger(others, i)
      BY <2>1, <2>2, NodeKeys DEF NodeDeleteTrigger, Incident
  <2>4. \A e \in {d \in DeletedKeys(others, p) : IsEdge(d)} \cup DOMAIN p.edges : k \notin EdgeTrigger(others, e)
      BY <1>4, <2>1 DEF EdgeTrigger
  <2>5. QED  BY <1>4, <2>3, <2>4 DEF Invalidated
<1>15. /\ DOMAIN written.bind = DOMAIN theirs
       /\ \A k \in DOMAIN theirs : written.bind[k] = g.bind[k]
  <2>1. PICK gone : gone = Invalidated(others, p)
      OBVIOUS
  <2>2. /\ DOMAIN Without(theirs, gone) = DOMAIN theirs \ gone
        /\ \A x \in DOMAIN theirs \ gone : Without(theirs, gone)[x] = theirs[x]
      BY Withouts
  <2>3. QED  BY <1>6, <1>12, <1>14, <2>1, <2>2
<1>16. /\ \A k \in DOMAIN bs : k \in DOMAIN g.bind /\ g.bind[k] = added[k]
       /\ \A k \in DOMAIN g.bind \ DOMAIN bs : g.bind[k].repo # r
       /\ DOMAIN added = DOMAIN bs
    BY <1>2, <1>10 DEF Once, BoundTo
<1>17. Over(written.bind, added) = g.bind
  <2>1. /\ DOMAIN Over(written.bind, added) = DOMAIN written.bind \cup DOMAIN added
        /\ \A k \in DOMAIN added : Over(written.bind, added)[k] = added[k]
        /\ \A k \in DOMAIN written.bind \ DOMAIN added : Over(written.bind, added)[k] = written.bind[k]
      BY Overs
  <2>2. DOMAIN Over(written.bind, added) = DOMAIN g.bind
      BY <1>6, <1>15, <1>16, <2>1
  <2>3. \A k \in DOMAIN g.bind : Over(written.bind, added)[k] = g.bind[k]
      BY <1>15, <1>16, <2>1, <2>2
  <2>4. Fcn(Over(written.bind, added)) /\ Fcn(g.bind)
      BY FcnMade DEF Once
  <2>5. QED  BY <2>2, <2>3, <2>4, FcnEqual
<1>18. [written EXCEPT !.bind = g.bind] = [facts |-> written.facts, bind |-> g.bind]
  <2>1. PICK wf, wb : written = [facts |-> wf, bind |-> wb] /\ wf = written.facts
      BY <1>13
  <2>2. QED  BY <2>1
<1>19. QED  BY <1>3, <1>11, <1>12, <1>17, <1>18

\* A stitch with nothing to do.
LEMMA StitchIdle ==
    ASSUME NEW g, g = [facts |-> g.facts, bind |-> g.bind], Fcn(g.facts), Fcn(g.bind), KeysShaped(g),
           \A k \in DOMAIN g.bind : IsNode(k), StitchStale(g) = {},
           \A e \in BackingCandidates(g) : e \in DOMAIN g.facts /\ g.facts[e] = BackingRow
    PROVE  StitchBackings(g) = g
<1>1. PICK cs : cs = BackingCandidates(g)
    OBVIOUS
<1>2. PICK rows : rows = [k \in cs |-> BackingRow]
    OBVIOUS
<1>3. PICK p : p = [EmptyPatch EXCEPT !.drop = {}]
    OBVIOUS
<1>4. PICK q : q = [EmptyPatch EXCEPT !.edges = rows]
    OBVIOUS
<1>5. /\ p.drop = {} /\ p.gone = {} /\ DOMAIN p.nodes = {} /\ DOMAIN p.edges = {}
  <2>1. p.drop = {} /\ p.gone = {} /\ p.nodes = EmptyFunction /\ p.edges = EmptyFunction
      BY <1>3 DEF EmptyPatch
  <2>2. QED  BY <2>1, EmptyDomain
<1>6. /\ q.drop = {} /\ q.gone = {} /\ DOMAIN q.nodes = {} /\ q.edges = rows
  <2>1. q.drop = {} /\ q.gone = {} /\ q.nodes = EmptyFunction /\ q.edges = rows
      BY <1>4 DEF EmptyPatch
  <2>2. QED  BY <2>1, EmptyDomain
<1>7. DOMAIN rows = cs /\ \A k \in cs : rows[k] = BackingRow
    BY <1>2
<1>8. \A k \in cs : KeyShaped(k) /\ IsEdge(k) /\ k \in DOMAIN g.facts /\ g.facts[k] = BackingRow
  <2>1. \A k \in cs : k = <<k[1], k[2], "BACKS">>
      BY <1>1, Candidates
  <2>2. QED  BY <1>1, <2>1, EdgeKeys
<1>9. PatchShaped(p) /\ PatchShaped(q)
    BY <1>5, <1>6, <1>7, <1>8 DEF PatchShaped
<1>10. ASSUME NEW x, x \in {p, q} PROVE ApplyPatchRows(g, x) = g
  <2>1. PatchShaped(x) /\ x.gone = {} /\ DOMAIN x.nodes = {} /\ x.drop = {}
      BY <1>5, <1>6, <1>9, <1>10
  <2>2. \A k \in DOMAIN x.edges : k \in DOMAIN g.facts /\ x.edges[k] = g.facts[k]
      BY <1>5, <1>6, <1>7, <1>8, <1>10
  <2>3. DeletedKeys(g, x) = {}
      BY <2>1 DEF DeletedKeys
  <2>4. /\ DOMAIN PatchedFacts(g, x) =
               (DOMAIN g.facts \ DeletedKeys(g, x)) \cup DOMAIN x.nodes \cup DOMAIN x.edges
        /\ \A k \in DOMAIN x.nodes : PatchedFacts(g, x)[k] = x.nodes[k]
        /\ \A k \in DOMAIN x.edges : PatchedFacts(g, x)[k] = x.edges[k]
        /\ \A k \in DOMAIN g.facts \ (DeletedKeys(g, x) \cup DOMAIN x.nodes \cup DOMAIN x.edges) :
               PatchedFacts(g, x)[k] = g.facts[k]
      BY <2>1, Patched
  <2>5. PatchedFacts(g, x) = g.facts
    <3>1. DOMAIN PatchedFacts(g, x) = DOMAIN g.facts
        BY <2>1, <2>2, <2>3, <2>4
    <3>2. \A k \in DOMAIN g.facts : PatchedFacts(g, x)[k] = g.facts[k]
        BY <2>1, <2>2, <2>3, <2>4
    <3>3. Fcn(PatchedFacts(g, x))
        BY FcnMade DEF PatchedFacts
    <3>4. QED  BY <3>1, <3>2, <3>3, FcnEqual
  <2>6. Without(g.bind, Invalidated(g, x)) = g.bind
    <3>1. \A k \in DOMAIN g.bind : k \notin Invalidated(g, x)
        BY <2>1, NodesStayBound
    <3>2. /\ DOMAIN Without(g.bind, Invalidated(g, x)) = DOMAIN g.bind \ Invalidated(g, x)
          /\ \A k \in DOMAIN g.bind \ Invalidated(g, x) : Without(g.bind, Invalidated(g, x))[k] = g.bind[k]
        BY Withouts
    <3>3. Fcn(Without(g.bind, Invalidated(g, x)))
        BY FcnMade
    <3>4. QED  BY <3>1, <3>2, <3>3, FcnEqual
  <2>7. QED  BY <2>5, <2>6 DEF ApplyPatchRows
<1>11. StitchBackings(g) = ApplyPatchRows(ApplyPatchRows(g, p), q)
    BY <1>1, <1>2, <1>3, <1>4 DEF StitchBackings, StitchStale, PutEdges, DeleteEdges
<1>12. QED  BY <1>10, <1>11

\* What the second load leaves needs no stitch.
LEMMA AgainStitches ==
    ASSUME NEW g, NEW r \in Repo, NEW f, Emitted(r, f), Once(g, r, f),
           NEW n, n = [facts |-> Without(g.facts, Orphans(g, r, f)), bind |-> g.bind]
    PROVE  StitchBackings(n) = n
<1>1. PICK left : left = Orphans(g, r, f)
    OBVIOUS
<1>2. n.facts = Without(g.facts, left) /\ n.bind = g.bind /\ n = [facts |-> n.facts, bind |-> n.bind]
    BY <1>1
<1>3. \A k \in left : k \in Nodes(g) /\ k[1].repo = Shared /\ \A e \in Edges(g) : ~Incident(e, k[1])
    BY <1>1, AgainOrphans
<1>4. DOMAIN n.facts = DOMAIN g.facts \ left /\ \A k \in DOMAIN n.facts : n.facts[k] = g.facts[k]
  <2>1. /\ DOMAIN Without(g.facts, left) = DOMAIN g.facts \ left
        /\ \A x \in DOMAIN g.facts \ left : Without(g.facts, left)[x] = g.facts[x]
      BY Withouts
  <2>2. n.facts = Without(g.facts, left)
      BY <1>2
  <2>3. QED  BY <2>1, <2>2
<1>5. FactsFit(g.facts) /\ BoundFits(g) /\ KeysShaped(g)
    BY DEF Once, GraphFits, KeysShaped, FactsFit
<1>6. /\ \A e \in BackingCandidates(g) : e \in DOMAIN g.facts /\ g.facts[e] = BackingRow
      /\ StitchStale(g) = {} /\ Fcn(g.bind)
    BY DEF Once
<1>7. KeysShaped(n)
    BY <1>4, <1>5 DEF KeysShaped
<1>8. \A k \in left : ~IsEdge(k)
    BY <1>3, <1>5, Keys DEF KeysShaped, Nodes
<1>9. Edges(n) = Edges(g)
    BY <1>4, <1>8 DEF Edges
<1>10. ASSUME NEW k \in Nodes(g), g.facts[k].label = "Resource" PROVE k \in Nodes(n)
  <2>1. NodeFits(g.facts, k)
      BY <1>5 DEF FactsFit, Nodes
  <2>2. k \notin left
      BY <1>3, <1>10, <2>1 DEF NodeFits
  <2>3. QED  BY <1>4, <2>2 DEF Nodes
<1>11. ASSUME NEW e \in BackingCandidates(g) PROVE e \in BackingCandidates(n)
  <2>1. PICK k \in Nodes(g) : /\ g.facts[k].label = "Resource"
                              /\ NodeKey(Id(Shared, g.facts[k].v)) \in Nodes(g)
                              /\ e = <<k[1], Id(Shared, g.facts[k].v), "BACKS">>
      BY DEF BackingCandidates
  <2>2. k \in Nodes(n) /\ n.facts[k] = g.facts[k]
      BY <1>4, <1>10, <2>1 DEF Nodes
  <2>3. e[2] = Id(Shared, g.facts[k].v) /\ IsEdge(e) /\ e \in Edges(g)
    <3>1. IsEdge(e)
        BY <2>1, EdgeKeys
    <3>2. QED  BY <1>6, <2>1, <3>1 DEF Edges
  <2>4. NodeKey(Id(Shared, g.facts[k].v)) \notin left
      BY <1>3, <2>3, NodeKeys DEF Incident
  <2>5. NodeKey(Id(Shared, n.facts[k].v)) \in Nodes(n)
      BY <1>4, <2>1, <2>2, <2>4 DEF Nodes
  <2>6. QED  BY <2>1, <2>2, <2>5 DEF BackingCandidates
<1>12. ASSUME NEW e \in BackingCandidates(n) PROVE e \in BackingCandidates(g)
  <2>1. PICK k \in Nodes(n) : /\ n.facts[k].label = "Resource"
                              /\ NodeKey(Id(Shared, n.facts[k].v)) \in Nodes(n)
                              /\ e = <<k[1], Id(Shared, n.facts[k].v), "BACKS">>
      BY DEF BackingCandidates
  <2>2. k \in Nodes(g) /\ n.facts[k] = g.facts[k] /\ NodeKey(Id(Shared, g.facts[k].v)) \in Nodes(g)
      BY <1>4, <2>1 DEF Nodes
  <2>3. QED  BY <2>1, <2>2 DEF BackingCandidates
<1>13. BackingCandidates(n) = BackingCandidates(g)
    BY <1>11, <1>12
<1>14. StitchStale(n) = {}
    BY <1>4, <1>6, <1>9, <1>13 DEF StitchStale, Edges
<1>15. \A e \in BackingCandidates(n) : e \in DOMAIN n.facts /\ n.facts[e] = BackingRow
  <2>1. \A e \in BackingCandidates(g) : IsEdge(e)
    <3>1. \A e \in BackingCandidates(g) : e = <<e[1], e[2], "BACKS">>
        BY <1>5, Candidates
    <3>2. QED  BY <3>1, EdgeKeys
  <2>2. QED  BY <1>4, <1>6, <1>8, <1>13, <2>1
<1>16. Fcn(n.facts) /\ Fcn(n.bind)
    BY <1>2, <1>6, FcnMade
<1>17. \A k \in DOMAIN n.bind : IsNode(k)
    BY <1>2, <1>5 DEF BoundFits
<1>18. QED
  <2>1. n = [facts |-> n.facts, bind |-> n.bind]
      BY <1>2
  <2>2. QED  BY <1>7, <1>14, <1>15, <1>16, <1>17, <2>1, StitchIdle

\* What is left over was held by an observation.
LEMMA OrphansWereHeld ==
    ASSUME NEW g, NEW r \in Repo, NEW f, GraphFits(g), AdrsBeside(g.facts), Emitted(r, f),
           NEW s, s = Reloaded(g, r, f), NEW k \in Orphans(s, r, f)
    PROVE  \E e \in Edges(g) \ Edges(s) : Incident(e, k[1]) /\ g.facts[e].by = {}
<1>1. PICK n : n = LoadIntoGraph(g, r, f)
    OBVIOUS
<1>2. PICK T : T = Told(r, f)
    OBVIOUS
<1>3. PICK d : d = DeletedKeys(g, LoadPatch(g, r, f))
    OBVIOUS
<1>4. GraphFits(n) /\ s = StitchBackings(n)
    BY <1>1, LoadKeeps DEF Reloaded
<1>5. /\ DOMAIN n.facts = (DOMAIN g.facts \ d) \cup DOMAIN T
      /\ \A m \in DOMAIN T : n.facts[m] = T[m]
      /\ \A m \in DOMAIN n.facts \ DOMAIN T : n.facts[m] = g.facts[m]
    BY <1>1, <1>2, <1>3, LoadOf
<1>6. /\ \A m : IsNode(m) => (m \in DOMAIN s.facts <=> m \in DOMAIN n.facts)
      /\ \A m \in DOMAIN s.facts : s.facts[m] = n.facts[m] \/ (IsEdge(m) /\ m[3] = "BACKS" /\ s.facts[m] = BackingRow)
      /\ \A m \in DOMAIN n.facts \ DOMAIN s.facts : IsEdge(m) /\ m[3] = "BACKS"
    BY <1>4, StitchedOnce
<1>7. Once(s, r, f)
    BY OnceHolds
<1>8. /\ k \in Nodes(s) /\ k[1].repo = Shared /\ k \notin DOMAIN T
      /\ \A e \in Edges(s) : ~Incident(e, k[1])
    BY <1>2, <1>7, AgainOrphans
<1>9. s.facts[k].by = {r} \/ s.facts[k].ph
    BY DEF Orphans, FactOwnedByRepo
<1>10. FactsFit(g.facts) /\ Closed(g) /\ KeysShaped(g)
    BY DEF GraphFits, KeysShaped, FactsFit
<1>11. IsNode(k) /\ ~IsEdge(k)
    BY <1>8 DEF Nodes, IsNode, IsEdge
<1>12. k \in Nodes(g) /\ k \notin d /\ s.facts[k] = g.facts[k]
    BY <1>5, <1>6, <1>8, <1>11 DEF Nodes
<1>13. /\ \A m \in Nodes(g) : m \in d <=> m \in Stale(g, r, f)
       /\ \A e \in Edges(g) \cap d :
             \/ e \in Dropped(g, r, f)
             \/ \E i \in {e[1], e[2]} : i.repo = r /\ NodeKey(i) \in Stale(g, r, f)
    BY <1>3, <1>10, LoadDeletes
<1>14. ~StaleNode(g, k, r, Remains(g, r, f))
    BY <1>2, <1>8, <1>12, <1>13 DEF Stale, Remains
<1>15. PICK e \in Remains(g, r, f) : Incident(e, k[1])
    BY <1>9, <1>12, <1>14 DEF StaleNode, FactOwnedByRepo
<1>16. \A m \in DOMAIN T : m \in DOMAIN s.facts
    BY <1>2, <1>7 DEF Once
<1>17. e \notin Edges(s) /\ IsEdge(e) /\ e \notin DOMAIN s.facts /\ e \notin DOMAIN T
    BY <1>8, <1>15, <1>16 DEF Incident, Edges
<1>18. e \in Edges(g) /\ e \notin Dropped(g, r, f)
    BY <1>2, <1>15, <1>17 DEF Remains, RemainingEdges
<1>19. g.facts[e].by # {r}
    BY <1>2, <1>17, <1>18 DEF Dropped, FactOwnedByRepo
<1>20. e[3] # "BACKS" => e \in d
    BY <1>5, <1>6, <1>17, <1>18 DEF Edges
<1>21. PICK q \in Repo :
          \/ ExtractedEdge(g.facts, e, q)
          \/ e[3] = "DECIDES" /\ e[1] = AdrId(q) /\ g.facts[e].by = {q}
          \/ e[3] = "BACKS" /\ g.facts[e] = BackingRow
    BY <1>10, <1>17, <1>18 DEF FactsFit, EdgeFits, Edges
<1>22. CASE e[3] = "BACKS" /\ g.facts[e] = BackingRow
  <2>1. BackingRow.by = {}
      BY DEF BackingRow, Row
  <2>2. QED  BY <1>15, <1>17, <1>18, <1>22, <2>1
<1>23. CASE e[3] = "DECIDES" /\ e[1] = AdrId(q) /\ g.facts[e].by = {q}
  <2>1. q # r /\ e[1].repo = q
      BY <1>19, <1>23, OwnIds
  <2>2. e[2].repo = r
      BY <1>13, <1>18, <1>20, <1>23, <2>1
  <2>3. k[1] = e[1] \/ k[1] = e[2]
      BY <1>15 DEF Incident
  <2>4. QED  BY <1>8, <2>1, <2>2, <2>3, SharedIsNoRepo
<1>24. CASE ExtractedEdge(g.facts, e, q)
  <2>1. e[3] # "BACKS" /\ g.facts[e].by \subseteq {q}
      BY <1>24 DEF ExtractedEdge
  <2>2. q = r
    <3>1. \A m \in Repo \ {r} : \A x \in Edges(g) : ExtractedEdge(g.facts, x, m) => x \notin d
        BY <1>3, <1>10, OthersStay
    <3>2. QED  BY <1>18, <1>20, <1>24, <2>1, <3>1
  <2>3. g.facts[e].by = {}
      BY <1>19, <2>1, <2>2
  <2>4. QED  BY <1>15, <1>17, <1>18, <2>3
<1>25. QED  BY <1>21, <1>22, <1>23, <1>24

\* A second recovery of the same facts deletes the orphans, and nothing else.
LEMMA ReloadSettles ==
    ASSUME NEW g, NEW r \in Repo, NEW f, GraphFits(g), AdrsBeside(g.facts), Emitted(r, f)
    PROVE  LET once == Reloaded(g, r, f)
               left == Orphans(once, r, f)
           IN  /\ LoadOK(g, r, f)
               /\ Reloaded(once, r, f) = [once EXCEPT !.facts = Without(@, left)]
               /\ \A k \in left : \E e \in Edges(g) \ Edges(once) :
                      Incident(e, k[1]) /\ g.facts[e].by = {}
<1>1. PICK once : once = Reloaded(g, r, f)
    OBVIOUS
<1>2. PICK left : left = Orphans(once, r, f)
    OBVIOUS
<1>3. Once(once, r, f)
    BY <1>1, OnceHolds
<1>4. LoadOK(g, r, f)
  <2>1. FactsFit(g.facts) /\ BoundFits(g) /\ Attested(g) /\ Closed(g)
      BY DEF GraphFits
  <2>2. g = [facts |-> g.facts, bind |-> g.bind]
      BY DEF GraphFits
  <2>3. QED  BY <2>1, <2>2, LoadPublishes
<1>5. PICK n : n = [facts |-> Without(once.facts, left), bind |-> once.bind]
    OBVIOUS
<1>6. LoadIntoGraph(once, r, f) = n
    BY <1>2, <1>3, <1>5, AgainLoads
<1>7. StitchBackings(n) = n
    BY <1>2, <1>3, <1>5, AgainStitches
<1>8. Reloaded(once, r, f) = n
    BY <1>6, <1>7 DEF Reloaded
<1>9. [once EXCEPT !.facts = Without(@, left)] = n
  <2>1. once = [facts |-> once.facts, bind |-> once.bind]
      BY <1>3 DEF Once, GraphFits
  <2>2. PICK of, ob : once = [facts |-> of, bind |-> ob] /\ of = once.facts /\ ob = once.bind
      BY <2>1
  <2>3. QED  BY <1>5, <2>2
<1>10. \A k \in left : \E e \in Edges(g) \ Edges(once) : Incident(e, k[1]) /\ g.facts[e].by = {}
    BY <1>1, <1>2, OrphansWereHeld
<1>11. QED  BY <1>1, <1>2, <1>4, <1>8, <1>9, <1>10

\* The graph is whole after every transaction, and a recovery settles it.
THEOREM GraphIsWhole == GraphSpec => []GraphWhole
<1>1. GraphInv => ReloadIsStable
  <2> SUFFICES ASSUME GraphInv, NEW r \in Repo, NEW t \in Trees[r]
               PROVE  LET facts == Extracted(r, t)
                          once == Reloaded(graph, r, facts)
                          left == Orphans(once, r, facts)
                      IN  /\ LoadOK(graph, r, facts)
                          /\ Reloaded(once, r, facts) = [once EXCEPT !.facts = Without(@, left)]
                          /\ \A k \in left : \E e \in Edges(graph) \ Edges(once) :
                                 Incident(e, k[1]) /\ graph.facts[e].by = {}
      BY DEF ReloadIsStable
  <2>1. GraphFits(graph) /\ AdrsBeside(graph.facts)
      BY AdrsAreBeside DEF GraphInv
  <2>2. Emitted(r, Extracted(r, t))
      BY ExtractedIsEmitted
  <2>3. QED  BY <2>1, <2>2, ReloadSettles
<1>2. GraphInv => GraphAttested /\ AdrsHaveRepo
    BY DEF GraphInv, GraphFits, GraphAttested
<1>3. GraphInv => GraphWhole
    BY <1>1, <1>2 DEF GraphWhole
<1>4. QED  BY <1>3, GraphStaysFit, PTL
=============================================================================
