----------------------------- MODULE GoAdapter -----------------------------
(***************************************************************************)
(* The Go extractor (crates/adapters-lang-go/src/lib.rs).  A file is       *)
(* [path, src, skipped]: skipped stands for a test file, a platform suffix *)
(* or a build constraint.  src is [imports, assigns, funcs, calls]; a path *)
(* or an import path is a sequence of segments, a callee <<name>> or       *)
(* <<base, member>>.  mods are the go.mod files of the tree.  An optional  *)
(* value is a set with at most one element.                                *)
(***************************************************************************)
EXTENDS Placeholders, Integers, FiniteSets

GoSym(path, f) == <<"sym", path, IF f.recv = "" THEN <<f.name>> ELSE <<f.recv, f.name>>>>
PackageDir(path) == Front(path)

(* local_package_dir: the directory that the root module path leaves.      *)
LocalPackageDir(import, mod) ==
    {SubSeq(import, Len(m) + 1, Len(import)) : m \in {m \in mod : IsPrefix(m, import)}}

ImportLocal(i) ==
    CASE i.name # "" -> i.name
      [] i.name = "" /\ i.path = <<"github.com", "go-chi", "chi", "v5">> -> "chi"
      [] OTHER -> Last(i.path)

(* parse_imports: the local name's binding; "_" and "." bind nothing.      *)
GoBinding(src, mod, local) ==
    {[path |-> i.path, dirs |-> LocalPackageDir(i.path, mod)] :
        i \in LastOf(src.imports, LAMBDA i : ImportLocal(i) = local /\ local \notin {"_", "."})}

GoImportEdges(path, src, ev) ==
    {EdgeFact(<<"file", path>>, "IMPORTS", <<"mod", src.imports[i].path>>, "Confirmed", ev) : i \in DOMAIN src.imports}

GoFactories ==
    {[path |-> <<"net", "http">>, member |-> "NewServeMux", kind |-> "mux"],
     [path |-> <<"github.com", "go-chi", "chi", "v5">>, member |-> "NewRouter", kind |-> "chi"],
     [path |-> <<"github.com", "gin-gonic", "gin">>, member |-> "Default", kind |-> "gin"],
     [path |-> <<"github.com", "gin-gonic", "gin">>, member |-> "New", kind |-> "gin"]}

FrameworkFactory(src, mod, callee) ==
    {f.kind : f \in {f \in GoFactories : Len(callee) = 2 /\ callee[2] = f.member
                                         /\ \E b \in GoBinding(src, mod, callee[1]) : b.path = f.path}}

(* assignment_receivers: the last proven factory that a name is given.     *)
GoReceiver(src, mod, var) ==
    UNION {FrameworkFactory(src, mod, a.callee) :
        a \in LastOf(src.assigns, LAMBDA a : a.var = var /\ FrameworkFactory(src, mod, a.callee) # {})}

ChiMethods == [Get |-> "GET", Post |-> "POST"]

RoutePattern(route) == IF Len(route) = 2 THEN route ELSE <<"ANY", route[1]>>

GoLocal(src, name) == \E i \in DOMAIN src.funcs : src.funcs[i].recv = "" /\ src.funcs[i].name = name

(* endpoint_registration: the route of a call on a proven router.  A       *)
(* non-literal first argument is the empty route.                          *)
RouteOn(proven, member, arg) ==
    CASE "mux" \in proven /\ member \in {"Handle", "HandleFunc"} -> {RoutePattern(arg)}
      [] "chi" \in proven /\ member \in DOMAIN ChiMethods -> {<<ChiMethods[member]>> \o arg}
      [] "gin" \in proven /\ member \in Range(ChiMethods) -> {<<member>> \o arg}
      [] OTHER -> {}

RegisteredRoute(src, mod, call) ==
    IF Len(call.callee) # 2 \/ Len(call.args) < 2 \/ call.args[1] = <<>> THEN {}
    ELSE RouteOn(GoReceiver(src, mod, call.callee[1])
                 \cup {"mux" : b \in {b \in GoBinding(src, mod, call.callee[1]) : b.path = <<"net", "http">>}},
                 call.callee[2], call.args[1])

(* The facts of one registration: a handler declared in the file, one of   *)
(* an imported package that is looked up later, or a gap.                  *)
RegistrationFacts(path, src, mod, i, route, ev) ==
    LET h == src.calls[i].args[2]
        ep == <<"ep", route>>
        dirs == IF Len(h) = 2 THEN UNION {b.dirs : b \in GoBinding(src, mod, h[1])} ELSE {}
        gap == <<"gap", "go-handler", path, i>>
    IN  CASE Len(h) = 1 /\ GoLocal(src, h[1]) ->
               Facts(<<NodeFact(ep, "Confirmed", ev)>>,
                     {EdgeFact(ep, "HANDLES", GoSym(path, [recv |-> "", name |-> h[1]]), "Confirmed", ev)}, {})
          [] dirs # {} -> Facts(<<>>, {}, {[src |-> ep, label |-> "HANDLES", dir |-> d, name |-> h[2], ev |-> ev] : d \in dirs})
          [] OTHER -> Facts(<<NodeFact(ep, "Confirmed", ev), NodeFact(gap, "Gap", ev)>>,
                            {EdgeFact(ep, "HANDLES", gap, "Gap", ev)}, {})

(* A call in a function: to a function of the file, or to a package of     *)
(* this module, looked up later.                                           *)
GoCallEdges(path, src, ev) ==
    {EdgeFact(GoSym(path, src.funcs[c.in]), "CALLS", GoSym(path, [recv |-> "", name |-> c.callee[1]]), "Confirmed", ev) :
        c \in {c \in ToSet(src.calls) : /\ c.in # 0
                                        /\ Len(c.callee) = 1
                                        /\ GoLocal(src, c.callee[1])
                                        /\ <<src.funcs[c.in].recv, src.funcs[c.in].name>> # <<"", c.callee[1]>>}}

GoPendingCalls(path, src, mod, ev) ==
    UNION {{[src |-> GoSym(path, src.funcs[c.in]), label |-> "CALLS", dir |-> d, name |-> c.callee[2], ev |-> ev] :
                d \in UNION {b.dirs : b \in GoBinding(src, mod, c.callee[1])}} :
           c \in {c \in ToSet(src.calls) : c.in # 0 /\ Len(c.callee) = 2}}

(* extract_source_with_module.                                             *)
GoOwnFacts(path, src, mod, syms, ev) ==
    Facts(<<NodeFact(<<"file", path>>, "Confirmed", ev)>> \o [i \in DOMAIN syms |-> NodeFact(syms[i], "Confirmed", ev)],
          GoImportEdges(path, src, ev) \cup GoCallEdges(path, src, ev)
          \cup {EdgeFact(syms[i], "DEFINED_IN", <<"file", path>>, "Confirmed", ev) : i \in DOMAIN syms},
          GoPendingCalls(path, src, mod, ev))

GoFileFacts(path, src, mod, commit) ==
    LET ev == {[path |-> path, commit |-> commit]}
    IN  FoldLeft(MergeFacts,
                 GoOwnFacts(path, src, mod, [i \in DOMAIN src.funcs |-> GoSym(path, src.funcs[i])], ev),
                 InSomeOrder(UNION {{RegistrationFacts(path, src, mod, i, r, ev) : r \in RegisteredRoute(src, mod, src.calls[i])} :
                                      i \in DOMAIN src.calls}))

-----------------------------------------------------------------------------
(* collect_go_files and has_explicit_build_constraint.                     *)
GoFiles(tree) == SelectSeq(tree.files, LAMBDA f : ~f.skipped)

(* module_path: the go.mod at the root, unless it is ignored.              *)
ModulePath(tree) ==
    {tree.mods[i].module : i \in {i \in DOMAIN tree.mods : tree.mods[i].dir = <<>>}}

(* repo_modules: every go.mod and every local replacement.  A replaced     *)
(* module has a directory only if no version qualifies it and the target   *)
(* is in the repository (to is then that directory).                       *)
RepoModules(tree) ==
    FlattenSeq([i \in DOMAIN tree.mods |->
        <<[module |-> tree.mods[i].module, dirs |-> {tree.mods[i].dir}]>>
        \o LET local == SelectSeq(tree.mods[i].replaces, LAMBDA r : r.local)
           IN  [k \in DOMAIN local |-> [module |-> local[k].module,
                                        dirs |-> IF local[k].versioned THEN {} ELSE local[k].to]]])

Pinned(tree, import) ==
    \E i \in DOMAIN tree.mods : \E k \in DOMAIN tree.mods[i].replaces :
        tree.mods[i].replaces[k].versioned /\ IsPrefix(tree.mods[i].replaces[k].module, import)

HasGoSource(tree, dir) == \E i \in DOMAIN tree.files : PackageDir(tree.files[i].path) = dir

(* classify_import: the longest module path above the import decides; with *)
(* none, an import is external only in module mode.                        *)
OwningModule(mods, owners) ==
    LET key(i) == 4 * Len(mods[i].module) + 2 * Cardinality(mods[i].dirs)
    IN  {mods[i] : i \in {i \in owners : \A j \in owners : key(j) < key(i) \/ (key(j) = key(i) /\ j <= i)}}

GoClassifyUnder(import, tree, mods) ==
    LET owner == OwningModule(mods, {i \in DOMAIN mods : IsPrefix(mods[i].module, import)})
        source(m) == \E d \in m.dirs : HasGoSource(tree, d \o SubSeq(import, Len(m.module) + 1, Len(import)))
    IN  CASE owner # {} /\ ~Pinned(tree, import) /\ (\A m \in owner : source(m)) -> Internal
          [] owner = {} /\ ModulePath(tree) # {} -> External
          [] OTHER -> Unresolved

GoClassifyImport(import, tree) == GoClassifyUnder(import, tree, RepoModules(tree))

(* symbol_index: the last symbol of that name in the directory, methods    *)
(* included.                                                               *)
GoSymbolIndex(nodes, dir, name) ==
    {n.id : n \in LastOf(nodes, LAMBDA n : /\ n.label = "Symbol"
                                           /\ PackageDir(n.id[2]) = dir
                                           /\ Last(n.id[3]) = name)}

GoResolved(p, found) ==
    Facts(IF p.label = "HANDLES" /\ found # {} THEN <<NodeFact(p.src, "Confirmed", p.ev)>> ELSE <<>>,
          {EdgeFact(p.src, p.label, d, "Confirmed", p.ev) : d \in found}, {})

GoClosed(all, tree) ==
    LET classify(id) == IF id[1] = "mod" THEN GoClassifyImport(id[2], tree) ELSE Unresolved
    IN  [nodes |-> CloseOverEndpoints(all.nodes, [r \in MissingEndpoints(all.nodes, all.edges) |-> classify(r[1])]), edges |-> all.edges]

(* What is done with the merged files: pending calls and registrations     *)
(* resolve or are dropped, and missing endpoints are minted.               *)
GoComplete(facts, tree) ==
    GoClosed(MergeFacts(facts, FoldLeft(MergeFacts, NoFacts,
                                        InSomeOrder({GoResolved(p, GoSymbolIndex(facts.nodes, p.dir, p.name)) : p \in facts.pending}))),
             tree)
=============================================================================
