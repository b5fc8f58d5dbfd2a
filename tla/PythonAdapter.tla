--------------------------- MODULE PythonAdapter ---------------------------
(***************************************************************************)
(* The Python extractor (crates/adapters-lang-python/src/lib.rs).  A path  *)
(* has its segments without the extension.  An import is [from, module,    *)
(* name, local] with module = [dots, tail]; a from-import of several names *)
(* is several of them.  A file that is skipped is a stub or a compiled     *)
(* module: it provides a name and is not parsed.                           *)
(***************************************************************************)
EXTENDS Placeholders, Integers

PySym(path, qualified) == <<"sym", path, qualified>>

(* module_file and normalize_path: the file that a module names, from the  *)
(* repository root or, with leading dots, from the importing file.         *)
ModuleFile(path, module) ==
    LET up == IF module.dots = 0 THEN Len(path) ELSE module.dots
        base == SubSeq(path, 1, Len(path) - up) \o module.tail
    IN  IF base = <<>> THEN {} ELSE {base}

IsRelative(module) == module.dots > 0

(* parse_imports: a star import binds nothing.                             *)
PyBinding(src, local) == LastOf(src.imports, LAMBDA i : i.local = local /\ i.name # "*")

PyImportEdges(path, src, ev) ==
    UNION {{EdgeFact(<<"file", path>>, "IMPORTS", d, "Confirmed", ev) :
              d \in IF IsRelative(m) /\ ModuleFile(path, m) # {} THEN {<<"file", f>> : f \in ModuleFile(path, m)}
                    ELSE {<<"mod", m>>}} :
           m \in {src.imports[i].module : i \in DOMAIN src.imports}}

PyFactory(src, callee) ==
    LET is(b, m) == /\ b.module = [dots |-> 0, tail |-> <<m.module>>]
                    /\ \/ b.from /\ Len(callee) = 1 /\ b.name = m.class
                       \/ ~b.from /\ Len(callee) = 2 /\ callee[2] = m.class
    IN  {m.module : m \in {m \in {[module |-> "fastapi", class |-> "FastAPI"], [module |-> "flask", class |-> "Flask"]} :
                            \E b \in PyBinding(src, callee[1]) : is(b, m)}}

(* assignment_receivers.                                                   *)
PyReceiver(src, var) ==
    UNION {PyFactory(src, a.callee) : a \in LastOf(src.assigns, LAMBDA a : a.var = var /\ PyFactory(src, a.callee) # {})}

(* decorator_methods: a verb on a proven application, or Flask's route     *)
(* with its methods (GET without any); the path must be a literal.         *)
DecoratorMethods(src, d) ==
    LET frameworks == PyReceiver(src, d.object)
    IN  CASE frameworks = {} \/ d.path = "" -> {}
          [] frameworks # {} /\ d.path # "" /\ d.verb # "route" -> {<<d.verb, d.path>>}
          [] frameworks = {"flask"} /\ d.path # "" /\ d.verb = "route" ->
                {<<m, d.path>> : m \in IF d.methods = {} THEN {"GET"} ELSE d.methods}
          [] OTHER -> {}

PyEndpoints(path, src, ev) ==
    UNION {UNION {{EdgeFact(<<"ep", r>>, "HANDLES", PySym(path, src.funcs[i].name), "Confirmed", ev) :
                     r \in DecoratorMethods(src, d)} : d \in src.funcs[i].decorators} : i \in DOMAIN src.funcs}

PyLocal(src, name) == \E i \in DOMAIN src.funcs : src.funcs[i].name = <<name>>

(* What an imported callee may be: a member of a module or an imported     *)
(* name, with the file that its module names.                              *)
ImportedCallee(path, src, callee) ==
    UNION {{[dst |-> PySym(f, IF Len(callee) = 1 THEN <<b.name>> ELSE Tail(callee)), relative |-> IsRelative(b.module)] :
              f \in ModuleFile(path, b.module)} :
           b \in {b \in PyBinding(src, callee[1]) : b.from <=> Len(callee) = 1}}

(* The calls of a file's functions: a function of the file, else a pending *)
(* call of an imported one.                                                *)
PyLocalCall(src, c) == Len(c.callee) = 1 /\ PyLocal(src, c.callee[1])

PyCallEdges(path, src, ev) ==
    {EdgeFact(PySym(path, src.funcs[c.in].name), "CALLS", PySym(path, c.callee), "Confirmed", ev) :
        c \in {c \in ToSet(src.calls) : c.in # 0 /\ PyLocalCall(src, c) /\ src.funcs[c.in].name # c.callee}}

PyPending(path, src, ev) ==
    UNION {{[src |-> PySym(path, src.funcs[src.calls[i].in].name), dst |-> t.dst, ev |-> ev,
             gaps |-> {<<"gap", "call", path, i>> : x \in {x \in {TRUE} : t.relative}}] :
              t \in ImportedCallee(path, src, src.calls[i].callee)} :
           i \in {i \in DOMAIN src.calls : src.calls[i].in # 0 /\ ~PyLocalCall(src, src.calls[i])}}

(* extract_source.                                                         *)
PyFileFacts(path, src, commit) ==
    LET ev == {[path |-> path, commit |-> commit]}
        syms == [i \in DOMAIN src.funcs |-> PySym(path, src.funcs[i].name)]
        handles == PyEndpoints(path, src, ev)
    IN  Facts(<<NodeFact(<<"file", path>>, "Confirmed", ev)>>
              \o [i \in DOMAIN syms |-> NodeFact(syms[i], "Confirmed", ev)]
              \o InSomeOrder({NodeFact(e.src, "Confirmed", ev) : e \in handles}),
              PyImportEdges(path, src, ev) \cup handles \cup PyCallEdges(path, src, ev)
              \cup {EdgeFact(syms[i], "DEFINED_IN", <<"file", path>>, "Confirmed", ev) : i \in DOMAIN syms},
              PyPending(path, src, ev))

-----------------------------------------------------------------------------
PyFiles(tree) == SelectSeq(tree.files, LAMBDA f : ~f.skipped)

(* local_module_names: every directory on a file's path and every stem.    *)
LocalModuleNames(tree) == UNION {ToSet(tree.files[i].path) : i \in DOMAIN tree.files}

PyClassifyImport(module, tree) ==
    IF IsRelative(module) \/ Head(module.tail) \in LocalModuleNames(tree) THEN Unresolved ELSE External

(* The completion of the merged files: a pending call resolves to a symbol *)
(* that some file declares; a relative one that does not is a gap.         *)
PyComplete(facts, tree) ==
    LET known == {n.id : n \in {n \in ToSet(facts.nodes) : n.label = "Symbol"}}
        found == {p \in facts.pending : p.dst \in known}
        gaps == UNION {{<<p, g>> : g \in p.gaps} : p \in facts.pending \ found}
        nodes == facts.nodes \o InSomeOrder({NodeFact(g[2], "Gap", g[1].ev) : g \in gaps})
        edges == facts.edges \cup {EdgeFact(p.src, "CALLS", p.dst, "Confirmed", p.ev) : p \in found}
                 \cup {EdgeFact(g[1].src, "CALLS", g[2], "Gap", g[1].ev) : g \in gaps}
        classify(id, e) == IF id[1] = "mod" THEN PyClassifyImport(id[2], tree) ELSE Unresolved
    IN  [nodes |-> CloseOverEndpoints(nodes, [r \in MissingEndpoints(nodes, edges) |-> classify(r[1], r[2])]), edges |-> edges]
=============================================================================
