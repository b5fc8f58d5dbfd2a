---------------------------- MODULE TsResolution ----------------------------
(***************************************************************************)
(* How TypeScript import specifiers name files                             *)
(* (crates/adapters-lang-ts/src/lib.rs and resolution.rs).  A path is its  *)
(* segments followed by the extension; a directory has segments only.  A   *)
(* specifier is [up, segs, ext]: up >= 0 directories up for a relative one *)
(* (ext "" when none is written), up = -1 for a bare one, whose first      *)
(* segment is the package name, "#...", or "node:".  The tree has          *)
(* tsconfigs, manifests and bundler aliases beside its files; their        *)
(* targets are written without extension.                                  *)
(***************************************************************************)
EXTENDS Placeholders, Integers, FiniteSets

Dir(path) == SubSeq(path, 1, Len(path) - 2)
Ext(path) == Last(path)
Stem(path) == Front(path)

(* SOURCE_EXTENSIONS in the order in which they are tried, one asset       *)
(* extension, and what a written .js or .jsx may stand for.                *)
SourceExtensions == <<".ts", ".tsx", ".js", ".jsx", ".mjs", ".cjs">>
AssetExtensions == {".json"}
NodeNextSiblings == [e \in {".js", ".jsx"} |-> IF e = ".js" THEN <<".ts", ".tsx">> ELSE <<".tsx">>]

Relative(spec) == spec.up >= 0

(* normalize: as many directories are left as there are.                   *)
Above(dir, up) == IF up < Len(dir) THEN SubSeq(dir, 1, Len(dir) - up) ELSE <<>>

ResolveRelative(from, spec) ==
    IF Relative(spec)
    THEN {Above(Dir(from), spec.up) \o spec.segs \o <<IF spec.ext = "" THEN ".ts" ELSE spec.ext>>}
    ELSE {}

EscapesRoot(from, spec) == spec.up > Len(Dir(from))

(* The first of the candidates that is known.                              *)
FirstKnown(candidates, known) ==
    LET i == SelectInSeq(candidates, LAMBDA c : c \in known) IN IF i = 0 THEN {} ELSE {candidates[i]}

WithExtensions(stem, exts) == [i \in DOMAIN exts |-> stem \o <<exts[i]>>]

(* reconcile_guessed_extension: the file (or the file of the symbol) that  *)
(* a guessed path stands for, the guess itself when there is none.         *)
Reconciled(id, known) ==
    LET stem == Stem(id[2])
        paths == CASE Ext(id[2]) = ".ts" -> WithExtensions(stem, Tail(SourceExtensions))
                                             \o WithExtensions(stem \o <<"index">>, SourceExtensions)
                   [] Ext(id[2]) \in DOMAIN NodeNextSiblings -> WithExtensions(stem, NodeNextSiblings[Ext(id[2])])
                   [] OTHER -> <<>>
    IN  CHOOSE r \in OrElse({id} \cap known,
                            OrElse(FirstKnown([i \in DOMAIN paths |-> [id EXCEPT ![2] = paths[i]]], known), {id})) : TRUE

(* reconcile_guessed_edge_targets: files against files, symbols against    *)
(* every node.                                                             *)
ReconcileEdge(e, files, known) ==
    CASE e.dst[1] = "file" -> [e EXCEPT !.dst = Reconciled(@, files)]
      [] e.dst[1] = "sym" -> [e EXCEPT !.dst = Reconciled(@, known)]
      [] OTHER -> e

-----------------------------------------------------------------------------
(* prove_candidate: a path without extension is tried with each, then as   *)
(* a directory with an index file.                                         *)
ProveCandidate(stem, files) ==
    FirstKnown([i \in 1..(2 * Len(SourceExtensions)) |->
        LET n == Len(SourceExtensions)
        IN  <<"file", IF i <= n THEN stem \o <<SourceExtensions[i]>>
                      ELSE stem \o <<"index", SourceExtensions[i - n]>>>>], files)

Covers(dir, importer) == IsPrefix(dir, Dir(importer))

(* The innermost of the records that cover the importer, the first of      *)
(* those in one directory (load sorts them so).                            *)
Innermost(records, importer) ==
    LET over == {i \in DOMAIN records : Covers(records[i].dir, importer)}
        best == {i \in over : \A j \in over : Len(records[j].dir) <= Len(records[i].dir)}
    IN  IF over = {} THEN {} ELSE {records[CHOOSE i \in best : \A j \in best : i <= j]}

NearestScope(tree, importer) == Innermost(tree.tsconfigs, importer)

BaseDir(scope) == IF scope.base = {} THEN scope.dir ELSE scope.dir \o (CHOOSE b \in scope.base : TRUE)

(* apply_pattern: a pattern is [key, star]; what the star matches is       *)
(* appended to the target.                                                 *)
PatternMatches(p, segs) == IF p.star THEN IsPrefix(p.key, segs) ELSE p.key = segs
Mapped(p, target, segs) == target \o SubSeq(segs, Len(p.key) + 1, Len(segs))

(* The files that the patterns of a scope prove, most specific first.      *)
FirstProven(stems, files) == FoldLeft(LAMBDA found, s : OrElse(found, ProveCandidate(s, files)), {}, stems)

PathsTarget(scope, segs, files) ==
    LET rank(i) == IF scope.paths[i].star THEN Len(scope.paths[i].key) ELSE 100
        proved == [i \in {i \in DOMAIN scope.paths : PatternMatches(scope.paths[i], segs)} |->
                     FirstProven([k \in DOMAIN scope.paths[i].targets |->
                                    BaseDir(scope) \o Mapped(scope.paths[i], scope.paths[i].targets[k], segs)], files)]
        good == {i \in DOMAIN proved : proved[i] # {}}
    IN  UNION {proved[i] : i \in {i \in good : \A j \in good : rank(j) < rank(i) \/ (rank(j) = rank(i) /\ i <= j)}}

AliasMatches(a, segs) == a.key = segs \/ (~a.exact /\ IsPrefix(a.key, segs))

MatchingAlias(tree, importer, segs) ==
    Innermost(SelectSeq(tree.aliases, LAMBDA a : AliasMatches(a, segs)), importer)

(* resolving_bundler_alias: the configs of that directory must agree, and  *)
(* the alias must be in what they export.                                  *)
ResolvingAlias(tree, importer, segs) ==
    {a \in MatchingAlias(tree, importer, segs) :
        \A b \in ToSet(tree.aliases) :
            b.dir = a.dir /\ AliasMatches(b, segs) => b.exported /\ b.key = a.key /\ b.target = a.target}

(* resolve_spec: the nearest tsconfig only (paths, then an explicit        *)
(* baseUrl), a workspace package by its exact name, a bundler alias; with  *)
(* the config file that proves it.                                         *)
Proof(found, r) == {[file |-> f, config |-> r.config] : f \in found}

EntriesOf(m) == [k \in DOMAIN m.entries |-> [at |-> m.dir \o m.entries[k], config |-> m.config]]

ByTsconfig(scopes, segs, files) ==
    OrElse(UNION {Proof(PathsTarget(s, segs, files), s) : s \in scopes},
           UNION {Proof(ProveCandidate(BaseDir(s) \o segs, files), s) : s \in {s \in scopes : s.base # {}}})

ByPackage(entries, files) ==
    FoldLeft(LAMBDA found, c : OrElse(found, Proof(ProveCandidate(c.at, files), c)), {}, entries)

ByAlias(tree, importer, segs, files) ==
    UNION {UNION {Proof(ProveCandidate(t \o SubSeq(segs, Len(a.key) + 1, Len(segs)), files), a) : t \in a.target} :
             a \in ResolvingAlias(tree, importer, segs)}

ResolveSpec(tree, importer, segs, files) ==
    LET named == SelectSeq(tree.manifests, LAMBDA m : m.name = segs)
    IN  OrElse(ByTsconfig(NearestScope(tree, importer), segs, files),
               OrElse(ByPackage(FlattenSeq([i \in DOMAIN named |-> EntriesOf(named[i])]), files),
                      ByAlias(tree, importer, segs, files)))

(* resolve_bare_imports: the proven file replaces the module, and the      *)
(* config that proved it is cited.                                         *)
ToProvenFile(e, found) ==
    IF found = {} THEN e
    ELSE LET hit == CHOOSE f \in found : TRUE
         IN  [e EXCEPT !.dst = hit.file, !.ev = @ \cup {[x EXCEPT !.path = hit.config] : x \in @}]

ResolveBareImport(e, tree, files) ==
    IF e.label = "IMPORTS" /\ e.dst[1] = "mod" THEN ToProvenFile(e, ResolveSpec(tree, e.src[2], e.dst[2], files)) ELSE e

-----------------------------------------------------------------------------
(* package_name: a name that no package can have.                          *)
NotPackages == {"~"}

UnderSource(dir, first, files) ==
    \E f \in files : IsPrefix(dir, f[2]) /\ Len(f[2]) > Len(dir) + 1 /\ f[2][Len(dir) + 1] = first

Workspace(tree, name) == \E i \in DOMAIN tree.manifests : tree.manifests[i].name = <<name>>

Declared(tree, importer, name) ==
    \E m \in ToSet(tree.manifests) : Covers(m.dir, importer) /\ name \in m.deps

(* classify_bare_import: what an import that proved no file is.            *)
ClassifyUnder(segs, importer, tree, files, scopes) ==
    LET first == segs[1]
        aliased == \/ \E s \in scopes : \E i \in DOMAIN s.paths : PatternMatches(s.paths[i], segs)
                   \/ MatchingAlias(tree, importer, segs) # {}
        local == \/ \E s \in scopes : s.base # {} /\ UnderSource(BaseDir(s), first, files)
                 \/ UnderSource(<<>>, first, files) \/ UnderSource(<<"src">>, first, files)
        declared == Declared(tree, importer, first) \/ \A s \in scopes : ~s.extends
    IN  IF first = "#" \/ aliased THEN Unresolved
        ELSE CASE first = "node:" -> External
               [] first \in NotPackages -> Unresolved
               [] Workspace(tree, first) -> IF Len(segs) = 1 THEN Internal ELSE Unresolved
               [] OTHER -> IF local \/ ~declared THEN Unresolved ELSE External

ClassifyBareImport(segs, importer, tree, files) ==
    ClassifyUnder(segs, importer, tree, files, NearestScope(tree, importer))
=============================================================================
