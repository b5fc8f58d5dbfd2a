------------------------------ MODULE Adapters ------------------------------
(***************************************************************************)
(* Incremental extraction of one repository by one language extractor      *)
(* (extract_dir_incremental_with_progress of each adapters-lang crate).    *)
(* The process keeps, per repository, the facts of every file under a hash *)
(* of what they were computed from; a recovery recomputes the files whose  *)
(* hash changed, merges all in path order, and then resolves what needs    *)
(* the whole repository.  Files are edited at any time between recoveries, *)
(* a recovery may fail at any file, and clearing the graph drops the cache.*)
(***************************************************************************)
EXTENDS GoAdapter, PythonAdapter, JvmAdapter, TsAdapter, TerraformAdapter

CONSTANTS
    Trees,       \* Trees[l]: the working trees of a repository in language l
    Commits      \* commits that a recovery may stamp

VARIABLES
    lang,        \* the language, fixed
    tree,        \* the working tree
    cache,       \* RepoExtractionCache: path -> [key, facts]
    out          \* the last finished recovery, [tree, commit, facts], as a set

adapterVars == <<lang, tree, cache, out>>

(* The files that an extractor collects, in path order.                    *)
ActiveFiles(l, t) ==
    CASE l = "go" -> GoFiles(t)
      [] l = "python" -> PyFiles(t)
      [] l = "ts" -> TsFiles(t)
      [] l = "terraform" -> TfFiles(t)
      [] OTHER -> JvmFiles(t, l)

(* Faulty variant: the Go cache key leaves the module path out.            *)
ContentKey(l, f, t) == f.src

(* The hash that facts are cached under: the file's content and, for Go,   *)
(* the module path that its imports were resolved with.                    *)
FileKey(l, f, t) == IF l = "go" THEN <<f.src, ModulePath(t)>> ELSE f.src

FileFacts(l, f, t, commit) ==
    CASE l = "go" -> GoFileFacts(f.path, f.src, ModulePath(t), commit)
      [] l = "python" -> PyFileFacts(f.path, f.src, commit)
      [] l = "ts" -> TsFileFacts(f.path, f.src, commit)
      [] l = "java" -> JavaFileFacts(f.path, f.src, commit)
      [] l = "kotlin" -> KotlinFileFacts(f.path, f.src, commit)

Complete(l, facts, t, commit) ==
    CASE l = "go" -> GoComplete(facts, t)
      [] l = "python" -> PyComplete(facts, t)
      [] l = "ts" -> TsComplete(facts, t, commit)
      [] l = "java" -> JavaComplete(facts, t)
      [] l = "kotlin" -> KotlinComplete(facts, t)

(* One file against the cache: reused and retargeted, or recomputed.       *)
CachedFacts(l, f, t, commit, held) ==
    IF f.path \in DOMAIN held /\ held[f.path].key = FileKey(l, f, t)
    THEN RetargetCommit(held[f.path].facts, commit)
    ELSE FileFacts(l, f, t, commit)

FilesFacts(l, files, t, commit, held) == [i \in DOMAIN files |-> CachedFacts(l, files[i], t, commit, held)]

Merged(parts) == FoldLeft(MergeFacts, NoFacts, parts)

(* What a recovery of the tree returns with that cache.                    *)
Recovered(l, t, commit, held) ==
    IF l = "terraform" THEN TfComplete(TfRun(t, commit, held).facts)
    ELSE Complete(l, Merged(FilesFacts(l, ActiveFiles(l, t), t, commit, held)), t, commit)

Files(l, t, commit, held) ==
    IF l = "terraform" THEN Len(TfRun(t, commit, held).trail) ELSE Len(ActiveFiles(l, t))

(* The cache after the first n files: deleted paths are dropped first.     *)
CacheOf(l, files, facts, t, held, n) ==
    LET index(p) == CHOOSE i \in DOMAIN files : files[i].path = p
    IN  [p \in {files[i].path : i \in 1..n} |-> [key |-> FileKey(l, files[index(p)], t), facts |-> facts[index(p)]]]
        @@ [p \in DOMAIN held \cap {f.path : f \in ToSet(files)} |-> held[p]]

CacheAfter(l, t, commit, held, n) ==
    IF l = "terraform" THEN TfCacheAfter(TfRun(t, commit, held).trail, held, n)
    ELSE CacheOf(l, ActiveFiles(l, t), FilesFacts(l, ActiveFiles(l, t), t, commit, held), t, held, n)

-----------------------------------------------------------------------------
AdaptersInit ==
    /\ lang \in DOMAIN Trees
    /\ tree \in Trees[lang]
    /\ cache = << >>
    /\ out = {}

Edit ==
    /\ \E t \in Trees[lang] \ {tree} : tree' = t
    /\ UNCHANGED <<lang, cache, out>>

Recover ==
    \E c \in Commits :
        /\ cache' = CacheAfter(lang, tree, c, cache, Files(lang, tree, c, cache))
        /\ out' = {[tree |-> tree, commit |-> c, facts |-> Recovered(lang, tree, c, cache)]}
        /\ UNCHANGED <<lang, tree>>

(* A file cannot be read: the files merged before it stay cached.          *)
RecoverFails ==
    \E c \in Commits : \E n \in 0..(Files(lang, tree, c, cache) - 1) :
        /\ cache' = CacheAfter(lang, tree, c, cache, n)
        /\ UNCHANGED <<lang, tree, out>>

(* clear_graph.                                                            *)
ClearCaches ==
    /\ cache # << >>
    /\ cache' = << >>
    /\ out' = {}
    /\ UNCHANGED <<lang, tree>>

AdaptersNext == Edit \/ Recover \/ RecoverFails \/ ClearCaches

AdaptersSpec == AdaptersInit /\ [][AdaptersNext]_adapterVars

-----------------------------------------------------------------------------
(* However edits, failed recoveries and reuse were interleaved, what a     *)
(* recovery returns is what an extraction without any cache returns for    *)
(* that tree at that commit: nothing stale is reused, nothing cites an     *)
(* older commit.                                                           *)
IncrementalIsFresh == \A o \in out : o.facts = Recovered(lang, o.tree, o.commit, << >>)

(* What an import of the file of src names, by the language's own rule.    *)
Denotes(o, src, dst) ==
    LET f == CHOOSE h \in ToSet(o.tree.files) : h.path = src[2]
        g == CHOOSE h \in ToSet(o.tree.files) : h.path = dst[2]
        rivals == {h \in ToSet(o.tree.files) : h.lang = g.lang /\ h # g /\ h.src.pkg = g.src.pkg}
        files == {TsFile(h.path) : h \in ToSet(o.tree.files)}
    IN  CASE lang = "go" -> \E i \in ToSet(f.src.imports) : \E m \in ModulePath(o.tree) : i.path = m \o PackageDir(dst[2])
          [] lang = "python" -> \E i \in ToSet(f.src.imports) : dst[2] \in ModuleFile(src[2], i.module)
          [] lang = "ts" -> \E i \in ToSet(f.src.imports) : \E r \in ResolveRelative(src[2], i.spec) :
                                dst[2] = r \/ (r \notin {h[2] : h \in files} /\ Stem(dst[2]) \in {Stem(r), Stem(r) \o <<"index">>})
          [] OTHER -> \A h \in rivals : {h.src.types[i].chain : i \in DOMAIN h.src.types}
                                        \cap {g.src.types[i].chain : i \in DOMAIN g.src.types} = {}

(* A call or a route that is stated as confirmed (in TypeScript a call     *)
(* only: a route keeps an imported handler that no file has) ends at a symbol that a   *)
(* file of the tree declares, and one into another file follows an import  *)
(* that denotes that file, which no other file can be mistaken for.        *)
ConfirmedIsDeclared ==
    \A o \in out : \A e \in o.facts.edges :
        (e.label = "CALLS" \/ (e.label = "HANDLES" /\ lang # "ts")) /\ e.conf = "Confirmed" =>
            /\ \E i \in DOMAIN o.facts.nodes : /\ o.facts.nodes[i].id = e.dst
                                               /\ o.facts.nodes[i].label \in {"Symbol", "Component"}
                                               /\ ~o.facts.nodes[i].ph
            /\ e.label = "CALLS" /\ e.src[2] # e.dst[2] => Denotes(o, e.src, e.dst)

(* A module that is stated to be outside the repository is provided by no  *)
(* file of it: no module path, no local module name, no package of either  *)
(* JVM language, not even one that could not be read.                      *)
ExternalIsOutside ==
    \A o \in out : \A n \in ToSet(o.facts.nodes) :
        n.ph /\ n.boundary = External =>
            CASE lang = "go" -> \A i \in DOMAIN o.tree.mods : /\ ~IsPrefix(o.tree.mods[i].module, n.id[2])
                                                              /\ \A r \in ToSet(o.tree.mods[i].replaces) :
                                                                    r.local => ~IsPrefix(r.module, n.id[2])
              [] lang = "ts" -> /\ \A i \in DOMAIN o.tree.manifests : ~IsPrefix(o.tree.manifests[i].name, n.id[2])
                                /\ \A f \in ToSet(o.tree.files) : n.id[2][1] \notin {f.path[1]}
              [] lang = "python" -> \A f \in ToSet(o.tree.files) : Head(n.id[2].tail) \notin ToSet(f.path)
              [] OTHER -> \A f \in ToSet(o.tree.files) : \A p \in f.src.pkg : ~IsPrefix(p, n.id[2])

(* What is claimed of the tree, inside it or outside it, is so.            *)
ClaimsHold == ConfirmedIsDeclared /\ ExternalIsOutside

(* What the TypeScript analysis saw and could not follow is stated: an     *)
(* imported call ends in a confirmed edge or in a gap, an eval of a        *)
(* constant in a gap, and a guarded exit is a rule unless the file has an  *)
(* omission gap.                                                           *)
NoticedIsStated ==
    \A o \in out : lang = "ts" => \A f \in ToSet(ActiveFiles("ts", o.tree)) :
        LET ids == {n.id : n \in ToSet(o.facts.nodes)}
            gap(kind, key) == <<"gap", kind, f.path, key>> \in ids
            omitted == \E id \in ids : id[1] = "gap" /\ id[2] = "rule" /\ id[3] = f.path /\ "omitted" \in ToSet(Tail(id[4]))
            foreign(c) == c.recv.kind = "none" /\ ImportedAt(f.src, c.scope, c.name) /\ ImportedSymbol(f.path, f.src, c.name) # {}
                          /\ Enclosing(f.path, f.src, c.scope) # {}
        IN  /\ \A c \in ToSet(f.src.calls) : foreign(c) =>
                  \/ gap("call", <<c.at>>)
                  \/ \E e \in o.facts.edges : e.label = "CALLS" /\ e.src \in Enclosing(f.path, f.src, c.scope) /\ e.conf = "Confirmed"
                                               /\ e.dst[2] # f.path /\ e.dst[3] \in {s[3] : s \in ImportedSymbol(f.path, f.src, c.name)}
            /\ \A e \in ToSet(f.src.evals) : e.proof = "const" => gap("eval", <<e.at>>)
            /\ \A x \in ToSet(f.src.exits) : x.conditions > 0 => <<"rule", f.path, x.at>> \in ids \/ omitted
=============================================================================
