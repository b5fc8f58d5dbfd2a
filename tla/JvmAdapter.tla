---------------------------- MODULE JvmAdapter ----------------------------
(***************************************************************************)
(* The Java and Kotlin extractors (crates/adapters-lang-java/src/lib.rs    *)
(* and jvm.rs, crates/adapters-lang-kotlin/src/lib.rs).  A file is         *)
(* [path, lang, header, src] and src is [pkg, imports, types, funcs,       *)
(* calls].  A package, a qualified name and a type chain are sequences of  *)
(* names, a route is a sequence of names and "/".  An annotation is        *)
(* [name, arg]; arg is [kind, paths], its kind absent, literal or dynamic. *)
(***************************************************************************)
EXTENDS Placeholders, Integers, FiniteSets

CONSTANT Capitalised    \* names that start with a capital letter

JvmSym(path, qualified) == <<"sym", path, qualified>>
JavaMethod(path, m) == <<"sym", path, m.owner \o <<m.name>>, m.params>>
KotlinFunction(path, f) == JvmSym(path, f.owner \o f.recv \o <<f.name>>)

Spring == <<"org", "springframework", "web", "bind", "annotation">>
Stereotype == <<"org", "springframework", "stereotype">>
MappingMethod == [GetMapping |-> "GET", PostMapping |-> "POST"]

-----------------------------------------------------------------------------
(* parse_imports: what a simple name is bound to.  A static import and a   *)
(* wildcard bind no name.                                                  *)
JvmBinding(src, name) ==
    {i.path : i \in LastOf(src.imports,
                           LAMBDA i : ~i.static /\ ~i.wild /\ name = IF i.alias = "" THEN Last(i.path) ELSE i.alias)}

JvmImportEdges(path, src, ev) ==
    {EdgeFact(<<"file", path>>, "IMPORTS", <<"mod", i.path>>, "Confirmed", ev) : i \in ToSet(src.imports)}

(* spring_proven: an explicit binding decides, else a wildcard import.     *)
SpringProven(src, name) ==
    LET package == IF name = "Controller" THEN Stereotype ELSE Spring
        bound == JvmBinding(src, name)
    IN  /\ name \in {"Controller", "RestController", "RequestMapping"} \cup DOMAIN MappingMethod
        /\ IF bound # {} THEN bound = {Append(package, name)}
           ELSE \E i \in ToSet(src.imports) : i.wild /\ ~i.static /\ i.path = package

(* Segments of an annotation's path; none at all when it is dynamic.       *)
PathSegments(arg) ==
    CASE arg.kind = "absent" -> {<<>>}
      [] arg.kind = "literal" -> arg.paths
      [] OTHER -> {}

TrimEnd(s) == SubSeq(s, 1, SelectLastInSeq(s, LAMBDA c : c # "/"))
TrimStart(s) == LET i == SelectInSeq(s, LAMBDA c : c # "/") IN IF i = 0 THEN <<>> ELSE SubSeq(s, i, Len(s))

(* join_route: one slash at the seam; a trailing slash stays.              *)
JoinRoute(base, tail) ==
    LET route == IF tail = <<>> THEN base ELSE TrimEnd(base) \o <<"/">> \o TrimStart(tail)
    IN  IF route = <<>> \/ Last(route) = "/" THEN Append(TrimEnd(route), "/") ELSE route

(* The class that a function's controller annotations are read from: the   *)
(* nearest one around it.                                                  *)
EnclosingClass(src, owner) ==
    LET around == {t \in ToSet(src.types) : t.class /\ IsPrefix(t.chain, owner)}
    IN  {t \in around : \A u \in around : Len(u.chain) <= Len(t.chain)}

ProvenAnnotations(src, anns, names) == SelectSeq(anns, LAMBDA a : a.name \in names /\ SpringProven(src, a.name))

(* Every base joined with every tail; a dynamic path leaves a gap that the *)
(* handler answers.                                                        *)
Served(path, handler, i, verb, bases, tails) ==
    IF bases = {} \/ tails = {} THEN {[id |-> <<"gap", "route", path, <<handler, i>>>>, conf |-> "Gap"]}
    ELSE {[id |-> <<"ep", <<verb, JoinRoute(b, x)>>>>, conf |-> "Confirmed"] : b \in bases, x \in tails}

ServedFacts(served, handler, ev) ==
    Facts(InSomeOrder({NodeFact(s.id, s.conf, ev) : s \in served}),
          {EdgeFact(s.id, "HANDLES", handler, s.conf, ev) : s \in served}, {})

(* The endpoints of a handler method: mappings proven to be Spring's on a  *)
(* proven controller.                                                      *)
SpringFacts(path, src, owner, anns, handler, ev) ==
    LET bases(own) == IF own = <<>> THEN {<<>>} ELSE PathSegments(own[1].arg)
        mapped == {i \in DOMAIN anns : anns[i].name \in DOMAIN MappingMethod /\ SpringProven(src, anns[i].name)}
        controllers == {t \in EnclosingClass(src, owner) : ProvenAnnotations(src, t.anns, {"RestController", "Controller"}) # <<>>}
    IN  ServedFacts(UNION {UNION {Served(path, handler, i, MappingMethod[anns[i].name],
                                         bases(ProvenAnnotations(src, t.anns, {"RequestMapping"})), PathSegments(anns[i].arg)) :
                                    i \in mapped} : t \in controllers},
                    handler, ev)

(* The facts that both extractors make of a file: the file, its types and  *)
(* functions, its imports and what they declare under its package.         *)
DeclaredFacts(path, src, syms, ev) ==
    LET ids == [i \in DOMAIN src.types |-> JvmSym(path, src.types[i].chain)] \o syms
    IN  [Facts(<<NodeFact(<<"file", path>>, "Confirmed", ev)>> \o [i \in DOMAIN ids |-> NodeFact(ids[i], "Confirmed", ev)],
               {EdgeFact(ids[i], "DEFINED_IN", <<"file", path>>, "Confirmed", ev) : i \in DOMAIN ids}
               \cup JvmImportEdges(path, src, ev), {})
         EXCEPT !.pkgs = src.pkg,
                !.types = IF src.pkg = {} THEN <<>>
                          ELSE [i \in DOMAIN src.types |->
                                  [fqn |-> (CHOOSE p \in src.pkg : TRUE) \o src.types[i].chain,
                                   path |-> path, chain |-> src.types[i].chain]]]

-----------------------------------------------------------------------------
(* arity_matches.                                                          *)
ArityMatches(m, arity) ==
    IF m.variadic THEN arity >= Len(m.params) - 1 ELSE arity = Len(m.params)

OverloadGap(path, i, src, ev) ==
    LET gap == <<"gap", "overload", path, i>>
    IN  Facts(<<NodeFact(gap, "Gap", ev)>>, {EdgeFact(src, "CALLS", gap, "Gap", ev)}, {})

(* A call on this or without an object: the one method of the enclosing    *)
(* type that takes that many arguments, else a gap; a name that the type   *)
(* does not declare asserts nothing.  A call on an imported type waits.    *)
JavaCallFacts(path, src, i, ev) ==
    LET c == src.calls[i]
        caller == src.funcs[c.in]
        from == JavaMethod(path, caller)
        named == {k \in DOMAIN src.funcs : src.funcs[k].owner = caller.owner /\ src.funcs[k].name = c.name}
        fits == {k \in named : ArityMatches(src.funcs[k], c.arity)}
    IN  CASE c.in = 0 -> NoFacts
          [] c.in # 0 /\ c.object \notin {"", "this"} ->
               Facts(<<>>, {}, {[src |-> from, fqn |-> f, name |-> c.name, arity |-> c.arity, path |-> path, at |-> i, ev |-> ev] :
                                  f \in JvmBinding(src, c.object)})
          [] c.in # 0 /\ c.object \in {"", "this"} /\ named = {} -> NoFacts
          [] c.in # 0 /\ c.object \in {"", "this"} /\ Cardinality(fits) = 1 ->
               Facts(<<>>, {EdgeFact(from, "CALLS", JavaMethod(path, src.funcs[k]), "Confirmed", ev) : k \in fits \ {c.in}}, {})
          [] OTHER -> OverloadGap(path, i, from, ev)

(* extract_source of the Java extractor.  A constructor maps no route.     *)
JavaFileFacts(path, src, commit) ==
    LET ev == {[path |-> path, commit |-> commit]}
        syms == [i \in DOMAIN src.funcs |-> JavaMethod(path, src.funcs[i])]
        index == [i \in DOMAIN src.funcs |->
                    [owner |-> UNION {{p \o src.funcs[i].owner} : p \in src.pkg}, name |-> src.funcs[i].name,
                     variadic |-> src.funcs[i].variadic, params |-> src.funcs[i].params, sym |-> syms[i]]]
    IN  FoldLeft(MergeFacts, [DeclaredFacts(path, src, syms, ev) EXCEPT !.funcs = index],
                 [i \in DOMAIN src.funcs |->
                    IF src.funcs[i].ctor THEN NoFacts ELSE SpringFacts(path, src, src.funcs[i].owner, src.funcs[i].anns, syms[i], ev)]
                 \o [i \in DOMAIN src.calls |-> JavaCallFacts(path, src, i, ev)])

(* A call without a receiver, or on this: a function of the enclosing      *)
(* type, else one at the top of the file; without a receiver an imported   *)
(* function may be meant, with a name as receiver an imported type.        *)
KotlinCallFacts(path, src, i, ev) ==
    LET c == src.calls[i]
        from == KotlinFunction(path, src.funcs[c.in])
        declared == {src.funcs[k].owner \o src.funcs[k].recv \o <<src.funcs[k].name>> : k \in DOMAIN src.funcs}
        nearest == src.funcs[c.in].owner \o <<c.name>>
        local == IF nearest \in declared THEN {nearest} ELSE declared \cap {<<c.name>>}
        pending(local_name, members) ==
            Facts(<<>>, {}, {[src |-> from, fqn |-> f, member |-> members, path |-> path, at |-> i, ev |-> ev] :
                               f \in JvmBinding(src, local_name)})
    IN  CASE c.in = 0 -> NoFacts
          [] c.in # 0 /\ c.object \in {"", "this"} /\ local # {} ->
               Facts(<<>>, {EdgeFact(from, "CALLS", d, "Confirmed", ev) : d \in {JvmSym(path, q) : q \in local} \ {from}}, {})
          [] c.in # 0 /\ c.object = "" /\ local = {} -> pending(c.name, <<>>)
          [] c.in # 0 /\ c.object \notin {"", "this"} -> pending(c.object, <<c.name>>)
          [] OTHER -> NoFacts

(* extract_source of the Kotlin extractor: a top-level function without a  *)
(* receiver is declared under the package.                                 *)
KotlinFileFacts(path, src, commit) ==
    LET ev == {[path |-> path, commit |-> commit]}
        syms == [i \in DOMAIN src.funcs |-> KotlinFunction(path, src.funcs[i])]
        top == SelectSeq(src.funcs, LAMBDA f : f.owner = <<>> /\ f.recv = <<>> /\ src.pkg # {})
        index == [i \in DOMAIN top |-> [fqn |-> (CHOOSE p \in src.pkg : TRUE) \o <<top[i].name>>, path |-> path, chain |-> <<top[i].name>>]]
    IN  FoldLeft(MergeFacts, [DeclaredFacts(path, src, syms, ev) EXCEPT !.funcs = index],
                 [i \in DOMAIN src.funcs |-> SpringFacts(path, src, src.funcs[i].owner, src.funcs[i].anns, syms[i], ev)]
                 \o [i \in DOMAIN src.calls |-> KotlinCallFacts(path, src, i, ev)])

-----------------------------------------------------------------------------
JvmFiles(tree, lang) == SelectSeq(tree.files, LAMBDA f : f.lang = lang)

(* package_header over the lexemes of a file's head: comments and          *)
(* annotations are skipped; anything that cannot be read is unknown.       *)
PackageHeader(file) ==
    LET i == SelectInSeq(file.header, LAMBDA x : x \notin {"comment", "annotation"})
    IN  CASE i = 0 -> "default"
          [] i # 0 /\ file.header[i] = "package" /\ file.src.pkg # {} -> "package"
          [] i # 0 /\ file.header[i] = "word" -> "default"
          [] OTHER -> "unknown"

(* foreign_packages: those of the other JVM language's files, and whether  *)
(* all of its headers could be read.  Only the head of a file is read: a   *)
(* "cut" is where that ends, and no package before it proves nothing.      *)
ForeignPackages(tree, lang) ==
    LET others == {f \in ToSet(tree.files) : f.lang # lang}
    IN  [packages |-> UNION {f.src.pkg : f \in {f \in others : PackageHeader(f) = "package"}},
         complete |-> \A f \in others : PackageHeader(f) = "package" \/ (PackageHeader(f) = "default" /\ ~Contains(f.header, "cut"))]

InSystem(module, packages) == \E p \in packages : IsPrefix(p, module)

(* Faulty variant: unreadable headers are not counted against a proof.     *)
ClassifyJvmUnread(module, packages, complete) ==
    CASE module \in packages -> Internal
      [] module \notin packages /\ InSystem(module, packages) -> Unresolved
      [] OTHER -> External

(* classify_import of jvm.rs.                                              *)
ClassifyJvmImport(module, packages, complete) ==
    LET parent == Front(module)
        encloses == parent # <<>> /\ \E p \in packages : IsStrictPrefix(parent, p)
    IN  CASE module \in packages -> Internal
          [] module \notin packages /\ (InSystem(module, packages) \/ encloses \/ ~complete) -> Unresolved
          [] OTHER -> External

(* external_module_id: the package of a type or member.                    *)
ExternalModule(module) ==
    LET i == SelectInSeq(module, LAMBDA s : s \in Capitalised)
    IN  IF i <= 1 THEN module ELSE SubSeq(module, 1, i - 1)

(* Faulty variant: the last declaration of a name counts.                  *)
LastDeclared(declared, fqn) == LastOf(declared, LAMBDA d : d.fqn = fqn)

(* A name resolves only if it is declared exactly once.                    *)
UniquelyDeclared(declared, fqn) ==
    LET found == SelectSeq(declared, LAMBDA d : d.fqn = fqn)
    IN  IF Len(found) = 1 THEN {found[1]} ELSE {}

(* resolve_repo_imports: a type, a Kotlin function, or a member of a type. *)
RepoTarget(module, facts, known) ==
    OrElse(IF \E i \in DOMAIN facts.types : facts.types[i].fqn = module THEN UniquelyDeclared(facts.types, module)
           ELSE {d \in ToSet(facts.funcs) : "fqn" \in DOMAIN d /\ UniquelyDeclared(facts.funcs, module) = {d}},
           {d \in UniquelyDeclared(facts.types, Front(module)) :
              \E k \in known : k[2] = d.path /\ k[3] = Append(d.chain, Last(module))})

ToDeclaringFile(e, target) == IF target = {} THEN e ELSE [e EXCEPT !.dst = <<"file", (CHOOSE d \in target : TRUE).path>>]

ResolveRepoImport(e, facts, known) ==
    IF e.label = "IMPORTS" /\ e.dst[1] = "mod" THEN ToDeclaringFile(e, RepoTarget(e.dst[2], facts, known)) ELSE e

JvmClassify(id, packages, complete) ==
    IF id[1] = "mod" THEN ClassifyJvmImport(id[2], packages, complete) ELSE Unresolved

(* External imports are keyed by package.                                  *)
KeyedByPackage(e, packages, complete) ==
    IF e.dst[1] = "mod" /\ JvmClassify(e.dst, packages, complete) = External
    THEN [e EXCEPT !.dst = <<"mod", ExternalModule(@[2])>>] ELSE e

JvmMint(nodes, edges, packages, complete) ==
    [nodes |-> CloseOverEndpoints(nodes, [r \in MissingEndpoints(nodes, edges) |-> JvmClassify(r[1], packages, complete)]),
     edges |-> edges]

(* What follows the pending calls in both extractors: imports resolve to   *)
(* files, external ones are keyed by package, missing ends are minted.     *)
JvmClose(all, packages, complete) ==
    LET known == {n.id : n \in {n \in ToSet(all.nodes) : n.label = "Symbol"}}
    IN  JvmMint(all.nodes, {KeyedByPackage(ResolveRepoImport(e, all, known), packages, complete) : e \in all.edges}, packages, complete)

(* A pending call as an edge to what it resolved to, or to a gap.          *)
CallTo(p, dsts) == Facts(<<>>, {EdgeFact(p.src, "CALLS", d, "Confirmed", p.ev) : d \in dsts}, {})

CallGap(p) ==
    LET gap == <<"gap", "call", p.path, p.at>>
    IN  Facts(<<NodeFact(gap, "Gap", p.ev)>>, {EdgeFact(p.src, "CALLS", gap, "Gap", p.ev)}, {})

(* The Java completion: the one overload of a uniquely declared type that  *)
(* fits, an overload gap, or a gap for an undeclared type of this system.  *)
JavaSettle(p, declared, fits, packages) ==
    CASE declared # {} /\ Len(fits) = 1 -> CallTo(p, {fits[1].sym})
      [] declared # {} /\ Len(fits) # 1 -> OverloadGap(p.path, p.at, p.src, p.ev)
      [] declared = {} /\ InSystem(p.fqn, packages) -> CallGap(p)
      [] OTHER -> NoFacts

JavaComplete(facts, tree) ==
    LET foreign == ForeignPackages(tree, "java")
        packages == facts.pkgs \cup foreign.packages
        fits(p) == SelectSeq(facts.funcs, LAMBDA f : f.owner = {p.fqn} /\ f.name = p.name /\ ArityMatches(f, p.arity))
    IN  JvmClose(FoldLeft(MergeFacts, facts,
                          InSomeOrder({JavaSettle(p, UniquelyDeclared(facts.types, p.fqn), fits(p), packages) : p \in facts.pending})),
                 packages, foreign.complete)

(* The Kotlin completion.                                                  *)
KotlinSettle(p, target, packages) ==
    CASE target # {} -> CallTo(p, target)
      [] target = {} /\ InSystem(p.fqn, packages) -> CallGap(p)
      [] OTHER -> NoFacts

KotlinComplete(facts, tree) ==
    LET foreign == ForeignPackages(tree, "kotlin")
        packages == facts.pkgs \cup foreign.packages
        known == {n.id : n \in {n \in ToSet(facts.nodes) : n.label = "Symbol"}}
        target(p) == known \cap {JvmSym(d.path, d.chain \o p.member) :
                                   d \in UniquelyDeclared(IF p.member = <<>> THEN facts.funcs ELSE facts.types, p.fqn)}
    IN  JvmClose(FoldLeft(MergeFacts, facts, InSomeOrder({KotlinSettle(p, target(p), packages) : p \in facts.pending})),
                 packages, foreign.complete)
=============================================================================
