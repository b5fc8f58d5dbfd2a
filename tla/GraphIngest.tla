---------------------------- MODULE GraphIngest ----------------------------
(***************************************************************************)
(* How recoveries write the graph (src-tauri/src/main.rs).  Each recovery  *)
(* extracts one repository without a lock, then holds the graph mutex to   *)
(* reconcile the repository's facts and to stitch observed backings, then  *)
(* releases it, reads every repository's decision records against a        *)
(* snapshot, and takes it again to relink them if the graph is unchanged.  *)
(* Recoveries of several repositories, a cancel, a crash and clear_graph   *)
(* interleave at those points.  The user edits the working trees at any    *)
(* time, so every read of one finds any of its trees.                      *)
(*                                                                         *)
(* A node id is [repo, name]; repo is Shared for the ids that no           *)
(* repository's prefix owns (modules, channels).  A row is                 *)
(* [label, by, ph, v]: by is the set of repositories its evidence cites    *)
(* (an observation, of deployed state or a trace, cites none), ph the      *)
(* placeholder flag and v the rest of its properties.                      *)
(***************************************************************************)
EXTENDS GraphStore

CONSTANTS
    Repo,        \* registered repositories
    Trees,       \* Trees[r]: the working trees of r, [facts, adrs] each
    Shared       \* owner of ids without a repository prefix

ASSUME SharedIsNoRepo == Shared \notin Repo

(* What extraction promises of a tree's facts.  A key is a node's or an    *)
(* edge's, its ids are the repository's own or shared, but neither the     *)
(* repository's node nor its decision record's; evidence is in no other    *)
(* repository; declared symbols have own ids; only the stitch writes       *)
(* observed backings; every endpoint is a node, and an own placeholder is  *)
(* an endpoint (close_over_endpoints).                                     *)
KeyShaped(k) == k = <<k[1]>> \/ k = <<k[1], k[2], k[3]>>

EndIds(k) == IF IsNode(k) THEN {k[1]} ELSE {k[1], k[2]}

EmittedBy(r, facts) ==
    \A k \in DOMAIN facts :
        /\ KeyShaped(k)
        /\ \A i \in EndIds(k) : i.repo \in {r, Shared} /\ i.name \notin {"repo", "adr"}
        /\ facts[k].by \subseteq {r} /\ facts[k].ph \in BOOLEAN
        /\ IsNode(k) /\ facts[k].label = "Symbol" => k[1].repo = r
        /\ IsNode(k) /\ facts[k].label = "Resource" => k[1].repo = r
        /\ IsNode(k) => facts[k].label # "ADR"
        /\ IsEdge(k) => k[3] \notin {"BACKS", "DECIDES"} /\ EndpointsIn(DOMAIN facts, k)
        /\ IsNode(k) /\ facts[k].ph /\ k[1].repo = r =>
               \E e \in DOMAIN facts : Incident(e, k[1])

ASSUME TreesAssumption == \A r \in Repo : \A t \in Trees[r] : EmittedBy(r, t.facts)

VARIABLES
    graph,       \* graph.db
    rec          \* rec[r]: the recovery of r

graphVars == <<graph, rec>>

Row(label, by, ph, v) == [label |-> label, by |-> by, ph |-> ph, v |-> v]

Id(repo, name) == [repo |-> repo, name |-> name]

RepoId(r) == Id(r, "repo")
RepoRow(r) == Row("Repo", {}, FALSE, r)
AdrId(r) == Id(r, "adr")

Idle == [at |-> "idle", facts |-> EmptyFunction, seen |-> EmptyFunction, patch |-> EmptyPatch]

-----------------------------------------------------------------------------
(* Faulty variant: whose fact it is is not asked.                           *)
FactOwnedByAnyone(row, r) == TRUE

(* fact_owned_by_repo: there is evidence and all of it is in the repo.     *)
FactOwnedByRepo(row, r) == row.by = {r}

IdExplicitlyOwnedByRepo(id, r) == id.repo = r

(* A node that the extraction no longer emits goes when its id is the      *)
(* repo's, or when nothing that stays needs it and it is either the repo's *)
(* own fact or a placeholder.                                              *)
StaleNode(g, k, r, remaining) ==
    LET held == \E e \in remaining : Incident(e, k[1])
    IN  \/ IdExplicitlyOwnedByRepo(k[1], r)
        \/ FactOwnedByRepo(g.facts[k], r) /\ ~held
        \/ g.facts[k].ph /\ ~held

(* Faulty variant: an edge that this load deletes still counts.            *)
RemainingWithDropped(g, drop, current) == Edges(g) \cup {k \in DOMAIN current : IsEdge(k)}

RemainingEdges(g, drop, current) == (Edges(g) \ drop) \cup {k \in DOMAIN current : IsEdge(k)}

(* What the graph should hold of the repository, and what of the graph the *)
(* extraction no longer tells.                                             *)
Told(r, facts) == Over(facts, [k \in {NodeKey(RepoId(r))} |-> RepoRow(r)])

Dropped(g, r, facts) ==
    {k \in Edges(g) \ DOMAIN Told(r, facts) : FactOwnedByRepo(g.facts[k], r)}

Stale(g, r, facts) ==
    {k \in Nodes(g) \ DOMAIN Told(r, facts) :
        StaleNode(g, k, r, RemainingEdges(g, Dropped(g, r, facts), Told(r, facts)))}

(* The reconcile of load_into_graph_with_bindings as a patch.              *)
LoadPatch(g, r, facts) ==
    LET current == Told(r, facts)
        changed == {k \in DOMAIN current : k \notin DOMAIN g.facts \/ g.facts[k] # current[k]}
    IN  [drop  |-> Dropped(g, r, facts),
         gone  |-> {k[1] : k \in Stale(g, r, facts)},
         nodes |-> Restrict(current, {k \in changed : IsNode(k)}),
         edges |-> Restrict(current, {k \in changed : IsEdge(k)})]

(* matching_bindings: a receipt binds the fact it attests, and only if the *)
(* published row is the one it attests.  Here the declared symbols have    *)
(* receipts.                                                               *)
MatchingBindings(r, facts) ==
    [k \in {n \in DOMAIN facts : IsNode(n) /\ facts[n].label = "Symbol"}
        |-> [receipt |-> <<r, facts[k]>>, digest |-> facts[k]]]

LoadIntoGraph(g, r, facts) ==
    PublishWithBindings(g, LoadPatch(g, r, facts), r, MatchingBindings(r, facts))

LoadOK(g, r, facts) ==
    /\ PatchOK(g, LoadPatch(g, r, facts))
    /\ BindingsOK(g, LoadPatch(g, r, facts), r, MatchingBindings(r, facts))

-----------------------------------------------------------------------------
(* backing_candidates: a resource with an observed identity names a        *)
(* channel; only channels that code declares are linked.                   *)
BackingCandidates(g) ==
    {<<k[1], Id(Shared, g.facts[k].v), "BACKS">> :
        k \in {n \in Nodes(g) : g.facts[n].label = "Resource"
                                /\ NodeKey(Id(Shared, g.facts[n].v)) \in Nodes(g)}}

(* Its evidence is the observation, which is in no repository.             *)
BackingRow == Row("", {}, FALSE, "observed")

(* Observed backings that no candidate supports are deleted, the           *)
(* candidates are written one by one, all under the graph mutex.           *)
StitchBackings(g) ==
    LET cs == BackingCandidates(g)
        stale == {k \in Edges(g) \ cs : k[3] = "BACKS" /\ g.facts[k].v = "observed"}
    IN  PutEdges(DeleteEdges(g, stale), [k \in cs |-> BackingRow])

-----------------------------------------------------------------------------
(* extract_found_adrs: a repository with decision records has an ADR node, *)
(* linked to the targets it names that exist among the given facts, other  *)
(* than decision records.                                                  *)
AdrFacts(r, t, seen) ==
    LET targets == {i \in t.adrs : NodeKey(i) \in DOMAIN seen /\ seen[NodeKey(i)].label # "ADR"}
    IN  IF t.adrs = {} THEN EmptyFunction
        ELSE Over([k \in {NodeKey(AdrId(r))} |-> Row("ADR", {r}, FALSE, "found")],
                  [k \in {<<AdrId(r), i, "DECIDES">> : i \in targets} |-> Row("", {r}, FALSE, "found")])

(* What a recovery of r extracts: the records of its own tree are read     *)
(* against its own facts.                                                  *)
Extracted(r, t) == Over(t.facts, AdrFacts(r, t, t.facts))

(* found_adr_patch over all the repositories that the snapshot names; at   *)
(* is the tree that each of them has on disk.                              *)
FoundAdrPatch(seen, at) ==
    LET rs == {r \in Repo : NodeKey(RepoId(r)) \in DOMAIN seen}
        facts == [r \in rs |-> AdrFacts(r, at[r], seen)]
        current == {r \in rs : facts[r] # EmptyFunction}
        existing == {r \in rs : NodeKey(AdrId(r)) \in DOMAIN seen}
        found == [k \in UNION {DOMAIN facts[r] : r \in rs} |-> facts[k[1].repo][k]]
    IN  [drop  |-> {k \in DOMAIN seen : IsEdge(k) /\ k[3] = "DECIDES"
                                        /\ \E r \in existing \cup current : k[1] = AdrId(r)},
         gone  |-> {AdrId(r) : r \in existing \ current},
         nodes |-> Restrict(found, {k \in DOMAIN found : IsNode(k)}),
         edges |-> Restrict(found, {k \in DOMAIN found : IsEdge(k)})]

-----------------------------------------------------------------------------
GraphInit ==
    /\ graph = EmptyGraph
    /\ rec = [r \in Repo |-> Idle]

(* The extraction reads the working tree with no graph lock.               *)
Extract(r) ==
    /\ rec[r].at = "idle"
    /\ \E t \in Trees[r] :
          rec' = [rec EXCEPT ![r] = [Idle EXCEPT !.at = "extracted", !.facts = Extracted(r, t)]]
    /\ UNCHANGED graph

(* Load and stitch under one hold of the graph mutex.                      *)
LoadAndStitch(r) ==
    /\ rec[r].at = "extracted"
    /\ LoadOK(graph, r, rec[r].facts)
    /\ graph' = StitchBackings(LoadIntoGraph(graph, r, rec[r].facts))
    /\ rec' = [rec EXCEPT ![r] = [Idle EXCEPT !.at = "loaded"]]

(* The job is cancelled between the load and the stitch: the load stays.   *)
LoadThenCancelled(r) ==
    /\ rec[r].at = "extracted"
    /\ LoadOK(graph, r, rec[r].facts)
    /\ graph' = LoadIntoGraph(graph, r, rec[r].facts)
    /\ rec' = [rec EXCEPT ![r] = Idle]

(* relink_found_adrs, before the graph mutex is taken again.               *)
RelinkRead(r) ==
    /\ rec[r].at = "loaded"
    /\ \E at \in {f \in [Repo -> UNION {Trees[q] : q \in Repo}] : \A q \in Repo : f[q] \in Trees[q]} :
          rec' = [rec EXCEPT ![r] = [Idle EXCEPT !.at = "linking",
                                                 !.seen = ReadSnapshot(graph),
                                                 !.patch = FoundAdrPatch(ReadSnapshot(graph), at)]]
    /\ UNCHANGED graph

(* Faulty variant: the patch is applied to whatever graph is there now.     *)
RelinkUnchecked(r) == PatchOK(graph, rec[r].patch)

(* ... and after: only an unchanged graph is patched.                      *)
RelinkApplies(r) == ApplyPatchIfSnapshotMatchesOK(graph, rec[r].seen, rec[r].patch)

RelinkApply(r) ==
    /\ rec[r].at = "linking"
    /\ RelinkApplies(r)
    /\ graph' = ApplyPatchRows(graph, rec[r].patch)
    /\ rec' = [rec EXCEPT ![r] = Idle]

RelinkStale(r) ==
    /\ rec[r].at = "linking"
    /\ ~RelinkApplies(r)
    /\ rec' = [rec EXCEPT ![r] = Idle]
    /\ UNCHANGED graph

(* A cancel or a failure: the worker stops.                                *)
StopRecovery(r) ==
    /\ rec[r].at # "idle"
    /\ rec' = [rec EXCEPT ![r] = Idle]
    /\ UNCHANGED graph

(* The process ends and starts again: every recovery is gone, and a graph  *)
(* written under another fact schema is emptied when it is opened.         *)
Restart ==
    /\ \E sameVersion \in BOOLEAN : graph' = OpenGraph(graph, sameVersion)
    /\ rec' = [r \in Repo |-> Idle]

(* clear_graph takes the graph mutex only.                                 *)
ClearGraph ==
    /\ graph.facts # EmptyFunction
    /\ graph' = Clear(graph)
    /\ UNCHANGED rec

GraphNext ==
    \/ \E r \in Repo : Extract(r) \/ LoadAndStitch(r) \/ LoadThenCancelled(r)
                       \/ RelinkRead(r) \/ RelinkApply(r) \/ RelinkStale(r) \/ StopRecovery(r)
    \/ ClearGraph
    \/ Restart

GraphSpec == GraphInit /\ [][GraphNext]_graphVars

-----------------------------------------------------------------------------
(* Every source association in the graph attests the row stored now and    *)
(* every edge has its endpoints, whatever recoveries, stitches, relinks    *)
(* and clears were interleaved (the triggers of core-graph/source.rs).     *)
GraphAttested == Attested(graph) /\ Closed(graph)

(* Recovering an unchanged repository twice in a row: the publication does *)
(* not roll back (it deletes no endpoint of an edge that it writes, takes  *)
(* over no binding), and the second one writes nothing.  It deletes what   *)
(* has no edge any more, and that is what an observation, withdrawn or     *)
(* deleted with its other end, held during the first: a reconcile removes  *)
(* all else that is stale, nodes that its own deletions orphan too.        *)
Reloaded(g, r, facts) == StitchBackings(LoadIntoGraph(g, r, facts))

Orphans(g, r, facts) ==
    {k \in Nodes(g) \ DOMAIN facts :
        /\ FactOwnedByRepo(g.facts[k], r) \/ g.facts[k].ph
        /\ \A e \in Edges(g) : ~Incident(e, k[1])}

ReloadIsStable ==
    \A r \in Repo : rec[r].at = "idle" => \A t \in Trees[r] :
        LET facts == Extracted(r, t)
            once == Reloaded(graph, r, facts)
            left == Orphans(once, r, facts)
        IN  /\ LoadOK(graph, r, facts)
            /\ Reloaded(once, r, facts) = [once EXCEPT !.facts = Without(@, left)]
            /\ \A k \in left : \E e \in Edges(graph) \ Edges(once) :
                   Incident(e, k[1]) /\ graph.facts[e].by = {}

(* A decision record is in the graph only beside its repository: a relink  *)
(* computed from an old snapshot never writes into a graph that was        *)
(* cleared meanwhile.                                                      *)
AdrsHaveRepo ==
    \A r \in Repo : NodeKey(AdrId(r)) \in Nodes(graph) => NodeKey(RepoId(r)) \in Nodes(graph)

(* The graph is whole after every transaction, and a recovery settles it.  *)
GraphWhole == GraphAttested /\ AdrsHaveRepo /\ ReloadIsStable

(* Recovering an unchanged repository again changes nothing: "Given the    *)
(* same commit and inputs, when re-ingested, then the ordered T0 node/edge *)
(* identity plus content-hash snapshot is identical" (user_stories.md:235).*)
ReingestIsIdentical ==
    \A r \in Repo : rec[r].at = "idle" => \A t \in Trees[r] :
        LET facts == Extracted(r, t)
            once == Reloaded(graph, r, facts)
        IN  Reloaded(once, r, facts) = once

(* A recovery of one repository keeps the facts of the others: the nodes   *)
(* of their ids, and their edges unless an endpoint was the recovered      *)
(* repository's and is gone.                                               *)
OthersKept ==
    [][\A r \in Repo :
        (LoadAndStitch(r) \/ LoadThenCancelled(r)) =>
            \A k \in DOMAIN graph.facts \ DOMAIN graph'.facts :
                \/ IsNode(k) /\ k[1].repo \in {r, Shared}
                \/ IsEdge(k) /\ (graph.facts[k].by = {r} \/ graph.facts[k].v = "observed"
                                 \/ \E i \in {1, 2} : k[i].repo = r /\ NodeKey(k[i]) \notin DOMAIN graph'.facts)
      ]_graphVars
-----------------------------------------------------------------------------
(* The inductive invariant of GraphIngestProofs.                           *)

(* The edge was extracted from q, and its ends are what q may name.        *)
ExtractedEdge(facts, k, q) ==
    /\ k[3] \notin {"BACKS", "DECIDES"} /\ facts[k].by \subseteq {q}
    /\ \A i \in {k[1], k[2]} : i.repo \in {q, Shared} /\ i.name \notin {"repo", "adr"}

(* A node of q's id cites q only.  Its placeholder is needed by an edge    *)
(* that only a recovery of q deletes.                                      *)
NodeFits(facts, k) ==
    /\ k[1].repo \in Repo \cup {Shared}
    /\ facts[k].label \in {"Symbol", "Resource"} => k[1].repo # Shared
    /\ k[1].repo # Shared => facts[k].by \subseteq {k[1].repo}
    /\ k[1].repo # Shared /\ k[1].name = "repo" => facts[k].by = {}
    /\ k[1].repo # Shared /\ facts[k].ph =>
           \E e \in DOMAIN facts : Incident(e, k[1]) /\ ExtractedEdge(facts, e, k[1].repo)

EdgeFits(facts, k) ==
    \E q \in Repo :
        \/ ExtractedEdge(facts, k, q)
        \/ k[3] = "DECIDES" /\ k[1] = AdrId(q) /\ facts[k].by = {q}
        \/ k[3] = "BACKS" /\ k[1].repo = q /\ k[2].repo = Shared /\ facts[k] = BackingRow

FactsFit(facts) ==
    \A k \in DOMAIN facts :
        /\ KeyShaped(k)
        /\ IsNode(k) => NodeFits(facts, k)
        /\ IsEdge(k) => EdgeFits(facts, k)

(* Only symbols are bound, by the recovery of their repository.            *)
BoundFits(g) ==
    \A k \in DOMAIN g.bind : IsNode(k) /\ g.bind[k].repo = k[1].repo /\ k[1].repo \in Repo

(* A recovery holds what it extracted, or a patch of what it read.         *)
RecFits(r) ==
    /\ rec[r].at = "extracted" => \E t \in Trees[r] : rec[r].facts = Extracted(r, t)
    /\ rec[r].at = "linking" =>
           \E at \in [Repo -> UNION {Trees[q] : q \in Repo}] : rec[r].patch = FoundAdrPatch(rec[r].seen, at)

GraphFits(g) ==
    /\ g = [facts |-> g.facts, bind |-> g.bind]
    /\ FactsFit(g.facts) /\ BoundFits(g) /\ Attested(g) /\ Closed(g)

GraphInv ==
    /\ GraphFits(graph) /\ AdrsHaveRepo
    /\ DOMAIN rec = Repo /\ \A r \in Repo : RecFits(r)
=============================================================================
