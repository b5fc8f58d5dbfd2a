----------------------------- MODULE GraphStore -----------------------------
(***************************************************************************)
(* The unified graph of crates/core-graph (graph.db) as operators on one   *)
(* value.  A graph is a record                                             *)
(*                                                                         *)
(*   facts : a function from fact keys to rows (nodes and edges tables)    *)
(*   bind  : a function from fact keys to the source association that the  *)
(*           bindings tables hold for them                                 *)
(*                                                                         *)
(* A node's key is <<id>> and an edge's <<src, dst, label>>, the primary   *)
(* keys of the two tables.  An association is [repo, receipt, digest]; the *)
(* digest of a row is the row itself, since node_digest and edge_digest    *)
(* hash all of it.  Every operator is one SQLite transaction: it returns   *)
(* the graph after commit, and its precondition (a name ending in OK) is   *)
(* what makes the transaction commit rather than roll back.                *)
(***************************************************************************)
EXTENDS Integers, Sequences, FiniteSets, Functions

EmptyFunction == [k \in {} |-> {}]

EmptyGraph == [facts |-> EmptyFunction, bind |-> EmptyFunction]

IsNode(k) == Len(k) = 1
IsEdge(k) == Len(k) = 3

Nodes(g) == {k \in DOMAIN g.facts : IsNode(k)}
Edges(g) == {k \in DOMAIN g.facts : IsEdge(k)}

NodeKey(id) == <<id>>

Incident(k, id) == IsEdge(k) /\ (k[1] = id \/ k[2] = id)

(* The foreign keys of the edges table.                                    *)
EndpointsIn(keys, k) == NodeKey(k[1]) \in keys /\ NodeKey(k[2]) \in keys

Without(f, keys) == Restrict(f, DOMAIN f \ keys)

Over(f, h) == [k \in DOMAIN f \cup DOMAIN h |-> IF k \in DOMAIN h THEN h[k] ELSE f[k]]

-----------------------------------------------------------------------------
(* The six triggers: the associations that a write to one row removes.  An *)
(* upsert of an existing id runs the update trigger, whose id is the same, *)
(* and leaves the associations of incident edges alone.                    *)

EdgeTrigger(g, key) == DOMAIN g.bind \cap {key}

NodeUpdateTrigger(g, key) == DOMAIN g.bind \cap {key}

NodeInsertTrigger(g, key) ==
    (DOMAIN g.bind \cap {key}) \cup {k \in DOMAIN g.bind : Incident(k, key[1])}

(* Faulty variant: deleting a node leaves its association behind.          *)
NodeDeleteKeepsBinding(g, id) == {k \in DOMAIN g.bind : Incident(k, id)}

NodeDeleteTrigger(g, id) ==
    (DOMAIN g.bind \cap {NodeKey(id)}) \cup {k \in DOMAIN g.bind : Incident(k, id)}

(* Writes.  A patch is [drop, gone, nodes, edges]: edge keys and node ids  *)
(* to delete, then the rows to upsert, in that order.                      *)

EmptyPatch == [drop |-> {}, gone |-> {}, nodes |-> EmptyFunction, edges |-> EmptyFunction]

(* Deleting a node deletes its incident edges first.                       *)
DeletedKeys(g, patch) ==
    {k \in DOMAIN g.facts :
        \/ k \in patch.drop
        \/ IsNode(k) /\ k[1] \in patch.gone
        \/ IsEdge(k) /\ (k[1] \in patch.gone \/ k[2] \in patch.gone)}

PatchedFacts(g, patch) ==
    Over(Over(Without(g.facts, DeletedKeys(g, patch)), patch.nodes), patch.edges)

(* The triggers of the patch's writes, row by row.                         *)
Invalidated(g, patch) ==
    UNION ({EdgeTrigger(g, k) : k \in {d \in DeletedKeys(g, patch) : IsEdge(d)} \cup DOMAIN patch.edges}
           \cup {NodeDeleteTrigger(g, id) : id \in patch.gone}
           \cup {IF k \in DOMAIN g.facts \ DeletedKeys(g, patch) THEN NodeUpdateTrigger(g, k)
                 ELSE NodeInsertTrigger(g, k) : k \in DOMAIN patch.nodes})

(* Every upserted edge has its endpoints, else the transaction rolls back. *)
PatchOK(g, patch) ==
    \A k \in DOMAIN patch.edges : EndpointsIn(DOMAIN PatchedFacts(g, patch), k)

ApplyPatchRows(g, patch) ==
    [facts |-> PatchedFacts(g, patch), bind |-> Without(g.bind, Invalidated(g, patch))]

(* put_edge and delete_edge, applied to each of several keys.              *)
PutEdges(g, rows) == ApplyPatchRows(g, [EmptyPatch EXCEPT !.edges = rows])

DeleteEdges(g, keys) == ApplyPatchRows(g, [EmptyPatch EXCEPT !.drop = keys])

(* clear deletes every row; the triggers remove every association.         *)
Clear(g) == ApplyPatchRows(g, [EmptyPatch EXCEPT !.drop = Edges(g), !.gone = {k[1] : k \in Nodes(g)}])

(* init on open: a graph of another fact schema version loses its facts.   *)
OpenGraph(g, sameVersion) == IF sameVersion THEN g ELSE Clear(g)

-----------------------------------------------------------------------------
(* read_snapshot copies the facts of one revision, not the associations.   *)
ReadSnapshot(g) == g.facts

ApplyPatchIfSnapshotMatchesOK(g, expected, patch) ==
    ReadSnapshot(g) = expected /\ PatchOK(g, patch)

(* A set of bindings is a function from fact keys to [receipt, digest].    *)
(* A fact that another source is bound to may not be taken over.           *)
BindingsOK(g, patch, repo, bs) ==
    /\ \A k \in DOMAIN bs \cap DOMAIN g.bind : g.bind[k].repo = repo
    /\ \A k \in DOMAIN bs : k \in DOMAIN PatchedFacts(g, patch)
                            /\ PatchedFacts(g, patch)[k] = bs[k].digest

(* Replaces all of this repo's associations, in the patch's transaction.   *)
PublishWithBindings(g, patch, repo, bs) ==
    LET others == [g EXCEPT !.bind = Restrict(g.bind, {k \in DOMAIN g.bind : g.bind[k].repo # repo})]
        written == ApplyPatchRows(others, patch)
    IN  [written EXCEPT !.bind =
            Over(written.bind,
                 [k \in DOMAIN bs |-> [repo |-> repo, receipt |-> bs[k].receipt,
                                       digest |-> bs[k].digest]])]

(* The association of a fact, checked against the fact in one revision.    *)
CurrentSourceBinding(g, k) ==
    IF k \in DOMAIN g.bind /\ k \in DOMAIN g.facts /\ g.facts[k] = g.bind[k].digest
    THEN {g.bind[k]} ELSE {}

SourceBindingsForRepo(g, repo) == Restrict(g.bind, {k \in DOMAIN g.bind : g.bind[k].repo = repo})

(* read_source_selection_snapshot: the state of one selected fact.         *)
SelectionState(g, k) ==
    CASE k \notin DOMAIN g.facts /\ k \notin DOMAIN g.bind -> "missing"
      [] k \in DOMAIN g.facts /\ k \notin DOMAIN g.bind -> "absent"
      [] k \in DOMAIN g.bind /\ CurrentSourceBinding(g, k) # {} -> "present"
      [] OTHER -> "invalid"

-----------------------------------------------------------------------------
(* Every association attests the row that is stored now.                   *)
Attested(g) ==
    \A k \in DOMAIN g.bind : k \in DOMAIN g.facts /\ g.bind[k].digest = g.facts[k]

(* Every edge has its endpoints.                                           *)
Closed(g) == \A k \in Edges(g) : EndpointsIn(DOMAIN g.facts, k)
=============================================================================
