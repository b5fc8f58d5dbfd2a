-------------------------- MODULE TerraformAdapter --------------------------
(***************************************************************************)
(* The Terraform extractor (crates/iac/src/lib.rs).  A file is             *)
(* [path, src, ignored]; src is a sequence of blocks [local, refs, deps,   *)
(* caps, grants, policy, source]: local is <<kind, type, name>>, refs and  *)
(* deps the addresses that the block and its depends_on name, caps the     *)
(* [label, from, to] of the capability registry, policy the statements of  *)
(* a policy document (each the set of resources it names), and source      *)
(* [up, segs] of a module, with up = -1 if it is not a local path.         *)
(* An address is the sequence of module names above a block, and its own.  *)
(***************************************************************************)
EXTENDS Placeholders, Integers

ResourceId(address) == <<"res", address>>
Scoped(prefix, refs) == {Append(prefix, r) : r \in refs}
IsPolicyDocument(b) == b.local[1] = "data" /\ b.local[2] = "aws_iam_policy_document"

(* The edges of one block: dependencies, other references, capabilities    *)
(* and grants.                                                             *)
BlockEdges(prefix, b, ev) ==
    LET self == ResourceId(Append(prefix, b.local))
        to(label, refs) == {EdgeFact(self, label, ResourceId(a), "Confirmed", ev) : a \in Scoped(prefix, refs)}
        able == UNION {{EdgeFact(ResourceId(s), c.label, ResourceId(t), "Confirmed", ev) :
                           s \in Scoped(prefix, c.from), t \in Scoped(prefix, c.to)} : c \in b.caps}
    IN  to("DEPENDS_ON", b.deps) \cup to("REFERENCES", (b.refs \ {b.local}) \ b.deps)
        \cup IF b.local[1] = "resource" THEN able \cup to("GRANTS", b.grants) ELSE {}

(* extract_source_unresolved: a file in the context of a module address,   *)
(* with the directories that are being expanded above it.                  *)
TfFileFacts(prefix, path, src, ancestors, commit) ==
    LET ev == {[path |-> path, commit |-> commit]}
        id(b) == ResourceId(Append(prefix, b.local))
        modules == SelectSeq(src, LAMBDA b : b.local[1] = "module" /\ b.source # {})
    IN  [nodes |-> [i \in DOMAIN src |-> NodeFact(id(src[i]), "Confirmed", ev)],
         edges |-> UNION {BlockEdges(prefix, src[i], ev) : i \in DOMAIN src},
         docs |-> {[id |-> id(b), statements |-> {Scoped(prefix, s) : s \in b.policy}, ev |-> ev] : b \in {b \in ToSet(src) : IsPolicyDocument(b)}},
         decls |-> [i \in DOMAIN modules |-> [address |-> Append(prefix, modules[i].local), source |-> modules[i].source,
                                              path |-> path, ev |-> ev, ancestors |-> ancestors]]]

NoTfFacts == [nodes |-> <<>>, edges |-> {}, docs |-> {}, decls |-> <<>>]

Absorb(a, b) ==
    [nodes |-> a.nodes \o b.nodes, edges |-> a.edges \cup b.edges, docs |-> a.docs \cup b.docs, decls |-> a.decls \o b.decls]

TfRetarget(facts, commit) ==
    LET at(f) == [f EXCEPT !.ev = {[e EXCEPT !.commit = commit] : e \in @}]
    IN  [nodes |-> [i \in DOMAIN facts.nodes |-> at(facts.nodes[i])], edges |-> {at(e) : e \in facts.edges},
         docs |-> {at(d) : d \in facts.docs}, decls |-> [i \in DOMAIN facts.decls |-> at(facts.decls[i])]]

(* extract_file_incremental: cached under the module address and the path, *)
(* by the content alone.                                                   *)
TfCached(prefix, f, ancestors, commit, held) ==
    LET key == <<prefix, f.path>>
    IN  IF key \in DOMAIN held /\ held[key].key = f.src THEN TfRetarget(held[key].facts, commit)
        ELSE TfFileFacts(prefix, f.path, f.src, ancestors, commit)

-----------------------------------------------------------------------------
TfFiles(tree) == SelectSeq(tree.files, LAMBDA f : ~f.ignored)

(* collect_direct_tf_files: an explicit module source overrides gitignore. *)
DirectFiles(tree, dir) == SelectSeq(tree.files, LAMBDA f : Front(f.path) = dir)

(* resolve_local_module_source: a directory of this repository.            *)
ModuleDir(tree, decl) ==
    LET from == Front(decl.path)
        local == {s \in decl.source : s.up >= 0 /\ s.up <= Len(from)}
    IN  {d \in {SubSeq(from, 1, Len(from) - s.up) \o s.segs : s \in local} : \E f \in ToSet(tree.files) : IsPrefix(d, Front(f.path))}

(* The work of a recovery: trail lists the files read, each with the entry *)
(* that the cache then holds for it.                                       *)
Visited(st, prefix, files, facts) ==
    LET all == FoldLeft(Absorb, NoTfFacts, facts)
    IN  [st EXCEPT !.facts = Absorb(@, all), !.pending = @ \o all.decls,
                   !.trail = @ \o [i \in DOMAIN files |-> [at |-> <<prefix, files[i].path>>, entry |-> [key |-> files[i].src, facts |-> facts[i]]]]]

Visit(st, prefix, files, ancestors, commit, held) ==
    Visited(st, prefix, files, [i \in DOMAIN files |-> TfCached(prefix, files[i], ancestors, commit, held)])

(* The declarations of one address are taken in path order.                *)
FirstPending(tree, pending) ==
    LET index(i) == CHOOSE k \in DOMAIN tree.files : tree.files[k].path = pending[i].path
    IN  CHOOSE i \in DOMAIN pending : \A k \in DOMAIN pending : index(i) < index(k) \/ (index(i) = index(k) /\ i <= k)

(* The module's block refers to what the expansion brought.                *)
Expanded(st, next, d, dir) ==
    LET children == {n.id : n \in ToSet(SubSeq(next.facts.nodes, Len(st.facts.nodes) + 1, Len(next.facts.nodes)))}
    IN  [next EXCEPT !.expanded = @ \cup {<<d.address, dir>>},
                     !.facts.edges = @ \cup {EdgeFact(ResourceId(d.address), "REFERENCES", c, "Confirmed", d.ev) : c \in children}]

(* One declaration: expanded unless it is not local, its directory is      *)
(* being expanded above it, or it was expanded before.                     *)
ExpandOne(tree, commit, held, st, d) ==
    LET above == IF d.ancestors = {} THEN {Front(d.path)} ELSE d.ancestors
        dirs == {dir \in ModuleDir(tree, d) \ above : <<d.address, dir>> \notin st.expanded}
        in(dir) == Visit(st, d.address, DirectFiles(tree, dir), above \cup {dir}, commit, held)
    IN  IF dirs = {} THEN st ELSE LET dir == CHOOSE x \in dirs : TRUE IN Expanded(st, in(dir), d, dir)

RECURSIVE ExpandLocalModules(_, _, _, _)
ExpandLocalModules(tree, commit, held, st) ==
    IF st.pending = <<>> THEN st
    ELSE LET i == FirstPending(tree, st.pending)
         IN  ExpandLocalModules(tree, commit, held, ExpandOne(tree, commit, held, [st EXCEPT !.pending = RemoveAt(@, i)], st.pending[i]))

(* resolve_policy_document_grants: a grant of a document becomes grants of *)
(* what its statements name; one that names nothing keeps the document.    *)
ResolveGrants(facts) ==
    LET doc(e) == {d \in facts.docs : e.label = "GRANTS" /\ d.id = e.dst}
        through(e, d) == {EdgeFact(e.src, "GRANTS", ResourceId(t), "Confirmed", e.ev \cup d.ev) : t \in UNION d.statements}
                         \cup {EdgeFact(e.src, "GRANTS", e.dst, "Confirmed", e.ev \cup d.ev) : x \in {d.statements} \cap {{}}}
                         \cup {EdgeFact(e.src, "GRANTS", e.dst, "Confirmed", e.ev \cup d.ev) : s \in {s \in d.statements : s = {}}}
    IN  {e \in facts.edges : doc(e) = {}} \cup UNION {UNION {through(e, d) : d \in doc(e)} : e \in facts.edges}

(* extract_dir_incremental_with_progress.                                  *)
TfRun(tree, commit, held) ==
    ExpandLocalModules(tree, commit, held,
        Visit([facts |-> NoTfFacts, pending |-> <<>>, trail |-> <<>>, expanded |-> {}], <<>>, TfFiles(tree), {}, commit, held))

TfComplete(facts) ==
    LET edges == ResolveGrants(facts)
    IN  [nodes |-> CloseOverEndpoints(facts.nodes, [r \in MissingEndpoints(facts.nodes, edges) |-> Unresolved]), edges |-> edges]

(* The cache after n files: what is no longer read is dropped at the end.  *)
TfCacheAfter(trail, held, n) ==
    LET read == [k \in {trail[i].at : i \in 1..n} |-> (CHOOSE t \in {trail[i] : i \in 1..n} : t.at = k).entry]
    IN  IF n = Len(trail) THEN read ELSE read @@ held
=============================================================================
