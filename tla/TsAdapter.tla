----------------------------- MODULE TsAdapter -----------------------------
(***************************************************************************)
(* The TypeScript extractor (crates/adapters-lang-ts/src/lib.rs, with      *)
(* callable.rs and rule_evidence.rs).  A source is its lexical scopes      *)
(* (scope 1 is the program; [parent, fn], fn = 0 for a block), its         *)
(* callables, its declarations, and the sites that the queries match, each *)
(* with the scope it is in.  In Facts, types holds the default exports,    *)
(* funcs the Pulumi bindings, pkgs the event, fetch and eval sites.        *)
(***************************************************************************)
EXTENDS TsResolution

CONSTANTS
    MaxRulesPerFile,   \* MAX_RULES_PER_FILE
    MaxConditions      \* MAX_CONDITIONS of one exit

RECURSIVE TsFileFacts(_, _, _)

TsSym(path, name) == <<"sym", path, name>>
TsFile(path) == <<"file", path>>
IsTsx(path) == Ext(path) # ".ts"

(* key: the innermost scope around s that declares the name, 0 for none.   *)
BindingScope(src, s, name) ==
    LET at[k \in 0..Len(src.scopes)] ==
            IF k = 0 \/ (\E d \in ToSet(src.decls) : d.scope = k /\ d.name = name) THEN k ELSE at[src.scopes[k].parent]
    IN  at[s]

(* Bindings: the declaration that a name denotes, unless its scope         *)
(* declares the name twice or it is assigned somewhere.                    *)
StableIn(src, k, name) ==
    LET decls == {i \in DOMAIN src.decls : src.decls[i].scope = k /\ src.decls[i].name = name}
        assigned == \E a \in src.assigns : a.name = name /\ BindingScope(src, a.scope, name) = k
    IN  IF k = 0 \/ Cardinality(decls) # 1 \/ assigned THEN {} ELSE {src.decls[i] : i \in decls}

StableDeclaration(src, s, name) == StableIn(src, BindingScope(src, s, name), name)

LocalTarget(path, src, s, name) ==
    {TsSym(path, src.funcs[d.fn].name) : d \in {d \in StableDeclaration(src, s, name) : d.kind = "callable"}}

ImportedAt(src, s, name) == \E d \in StableDeclaration(src, s, name) : d.kind = "import"

(* enclosing: the callable that executes a site.                           *)
Enclosing(path, src, s) ==
    LET at[k \in 0..Len(src.scopes)] ==
            IF k = 0 \/ src.scopes[k].fn # 0 THEN k ELSE at[src.scopes[k].parent]
    IN  IF at[s] = 0 THEN {} ELSE {TsSym(path, src.funcs[src.scopes[at[s]].fn].name)}

(* enclosing_component: the nearest callable with a capitalised name.      *)
EnclosingComponent(path, src, s) ==
    LET at[k \in 0..Len(src.scopes)] ==
            IF k = 0 \/ (src.scopes[k].fn # 0 /\ src.funcs[src.scopes[k].fn].upper) THEN k ELSE at[src.scopes[k].parent]
    IN  IF at[s] = 0 THEN Enclosing(path, src, s) ELSE {TsSym(path, src.funcs[src.scopes[at[s]].fn].name)}

-----------------------------------------------------------------------------
(* Imports: a named one from a relative file is a foreign symbol, every    *)
(* other binds its local name to a module.                                 *)
Locals(src) ==
    UNION {{[local |-> l.local, name |-> l.name, named |-> l.named, spec |-> src.imports[i].spec] :
               l \in ToSet(src.imports[i].locals)} : i \in DOMAIN src.imports}

ImportedSymbol(path, src, local) ==
    UNION {{TsSym(f, <<l.name>>) : f \in ResolveRelative(path, l.spec)} :
             l \in {l \in Locals(src) : l.local = local /\ l.named}}

ImportModule(src, local) ==
    {l.spec.segs : l \in {l \in Locals(src) : l.local = local /\ ~(l.named /\ Relative(l.spec))}}

ImportedName(src, local) == {l.name : l \in {l \in Locals(src) : l.local = local /\ l.named}}

TsImportEdges(path, src, ev) ==
    {EdgeFact(TsFile(path), "IMPORTS",
              IF Relative(i.spec) THEN TsFile(CHOOSE f \in ResolveRelative(path, i.spec) : TRUE) ELSE <<"mod", i.spec.segs>>,
              "Confirmed", ev) @@ ("spec" :> i.spec) : i \in ToSet(src.imports)}

(* A reference to a callable: of the file, else an imported one.           *)
Denoted(path, src, name, decls) ==
    OrElse({TsSym(path, src.funcs[d.fn].name) : d \in {d \in decls : d.kind = "callable"}},
           UNION {ImportedSymbol(path, src, name) : d \in {d \in decls : d.kind = "import"}})

Referenced(path, src, s, name) == Denoted(path, src, name, StableDeclaration(src, s, name))

CallableFacts(path, src, ev) ==
    LET node(f) == LET n == [NodeFact(TsSym(path, f.name), "Confirmed", ev) EXCEPT
                               !.label = IF IsTsx(path) /\ f.upper THEN "Component" ELSE @]
                   IN  IF f.dispatch THEN n @@ ("dispatch" :> TRUE) ELSE n
    IN  Facts([i \in DOMAIN src.funcs |-> node(src.funcs[i])],
              {EdgeFact(TsSym(path, f.name), "DEFINED_IN", TsFile(path), "Confirmed", ev) : f \in ToSet(src.funcs)}, {})

-----------------------------------------------------------------------------
(* Pulumi: a constructor of an imported provider module with a literal     *)
(* name.  A variable that holds one, or an imported symbol, may be its     *)
(* input, its option or an end of its capability.                          *)
Provider(src, r) == ImportModule(src, r.base) \ {<<"@pulumi", "pulumi">>} # {}
PulumiResources(src) == SelectSeq(src.resources, LAMBDA r : Provider(src, r) /\ r.type # "" /\ r.name # "")
ResId(r) == <<"res", <<r.type, r.name>>>>

PulumiEndpoint(path, src, var) ==
    OrElse({ResId(r) : r \in LastOf(PulumiResources(src), LAMBDA r : r.var = var)}, ImportedSymbol(path, src, var))

(* The capabilities of the resources, an end that is not named being the   *)
(* resource itself.                                                        *)
PulumiLinks(path, src, r, ev) ==
    LET end(var) == IF var = "" THEN {ResId(r)} ELSE PulumiEndpoint(path, src, var)
    IN  UNION {{[kind |-> "pulumi", src |-> s, label |-> l.label, dst |-> d, ev |-> ev] : s \in end(l.from), d \in end(l.to)} : l \in r.links}

(* push_pulumi_edge: between resources at once, else after all files.      *)
PulumiFactsOf(path, rs, links, ev) ==
    LET now == {l \in links : l.src[1] = "res" /\ l.dst[1] = "res"}
        bound == SelectSeq(rs, LAMBDA r : r.var # "")
    IN  [Facts([i \in DOMAIN rs |-> NodeFact(ResId(rs[i]), "Confirmed", ev)],
               {EdgeFact(ResId(r), "DEFINED_IN", TsFile(path), "Confirmed", ev) : r \in ToSet(rs)}
               \cup {EdgeFact(l.src, l.label, l.dst, "Confirmed", ev) : l \in now},
               links \ now)
         EXCEPT !.funcs = [i \in DOMAIN bound |-> [sym |-> TsSym(path, <<bound[i].var>>), node |-> ResId(bound[i])]]]

PulumiFacts(path, src, ev) ==
    PulumiFactsOf(path, PulumiResources(src), UNION {PulumiLinks(path, src, r, ev) : r \in ToSet(PulumiResources(src))}, ev)

-----------------------------------------------------------------------------
(* HTTP routes: a verb on a variable that an imported factory was assigned *)
(* to, or a decorated method of a Nest controller class.                   *)
HttpFactories == {<<<<"express">>, 1>>, <<<<"express">>, 2>>, <<<<"fastify">>, 1>>}
HttpVerbs == [get |-> "GET", post |-> "POST"]

Router(src, var) ==
    \E a \in ToSet(src.factories) : a.var = var /\ \E m \in ImportModule(src, a.callee[1]) : <<m, Len(a.callee)>> \in HttpFactories

EndpointFacts(routes, ev) ==
    Facts(InSomeOrder({NodeFact(r.ep, "Confirmed", ev) : r \in routes}),
          UNION {{EdgeFact(r.ep, "HANDLES", h, "Confirmed", ev) : h \in r.handlers} : r \in routes}, {})

RouteFacts(path, src, ev) ==
    LET handlers(r) == IF r.inline # 0 THEN {TsSym(path, src.funcs[r.inline].name)} ELSE Referenced(path, src, r.scope, r.handler)
    IN  EndpointFacts({[ep |-> <<"ep", <<HttpVerbs[r.verb], r.route>>>>, handlers |-> handlers(r)] :
                         r \in {r \in ToSet(src.routes) : Router(src, r.recv) /\ r.verb \in DOMAIN HttpVerbs}}, ev)

NestVerbs == [Get |-> "GET", Post |-> "POST"]
FromNest(src, d) == ImportModule(src, d) = {<<"@nestjs", "common">>} /\ ImportedAt(src, 1, d)

(* joined_route: no slash more than one between prefix and suffix.         *)
JoinedRoute(prefix, suffix) == IF prefix \o suffix = <<>> THEN <<"/">> ELSE prefix \o suffix

NestFacts(path, src, ev) ==
    LET named(d, names) == {n \in ImportedName(src, d) \cap names : FromNest(src, d)}
        route(c, m, n) == [ep |-> <<"ep", <<NestVerbs[n], JoinedRoute(c.prefix, m.suffix)>>>>, handlers |-> {TsSym(path, src.funcs[m.fn].name)}]
    IN  EndpointFacts(UNION {UNION {{route(c, m, n) : n \in named(m.decorator, DOMAIN NestVerbs)} : m \in ToSet(c.methods)} :
                               c \in {c \in ToSet(src.controllers) : named(c.decorator, {"Controller"}) # {}}}, ev)

-----------------------------------------------------------------------------
(* Events: an SDK constructor, a method of a constructed client, or of     *)
(* what a factory method of one returned; the identity of the channel is   *)
(* an argument.  Sdks has [shape, module, ctor, member, kind, role].       *)
Sdks == {[shape |-> "ctor", module |-> <<"sqs">>, name |-> "Send", member |-> "", chan |-> "queue", role |-> "PUBLISHES"],
         [shape |-> "method", module |-> <<"events">>, name |-> "Emitter", member |-> "on", chan |-> "inproc", role |-> "SUBSCRIBES"],
         [shape |-> "factory", module |-> <<"kafka">>, name |-> "producer", member |-> "send", chan |-> "topic", role |-> "PUBLISHES"]}

Constructed(src, var) == {n.ctor : n \in LastOf(src.news, LAMBDA n : n.var = var)}
Produced(src, var) ==
    UNION {UNION {{<<m, f.member>> : m \in ImportModule(src, c)} : c \in Constructed(src, f.object)} :
             f \in LastOf(src.produced, LAMBDA f : f.var = var)}

SdkMatches(src, e, k) ==
    CASE k.shape = "ctor" -> e.recv = "" /\ e.method = k.name /\ ImportModule(src, k.name) = {k.module}
      [] k.shape = "method" -> e.method = k.member /\ Constructed(src, e.recv) = {k.name} /\ ImportModule(src, k.name) = {k.module}
      [] OTHER -> e.method = k.member /\ Produced(src, e.recv) = {<<k.module, k.name>>}

(* classify_identity: a const is its literal, an environment reference is  *)
(* kept as one, everything else is computed.                               *)
Identity(src, x) ==
    IF x.kind = "name"
    THEN CHOOSE i \in OrElse({[kind |-> "literal", value |-> c.value] : c \in LastOf(src.consts, LAMBDA c : c.name = x.value)},
                             {[kind |-> "computed", value |-> ""]}) : TRUE
    ELSE x

EventSites(path, src) ==
    UNION {{[site |-> "event", at |-> e.at, path |-> path, src |-> Enclosing(path, src, e.scope), chan |-> k.chan,
             label |-> k.role, identity |-> Identity(src, e.arg)] : k \in {k \in Sdks : SdkMatches(src, e, k)}} :
           e \in ToSet(src.events)}

(* Fetches: fetch where nothing shadows it, or axios from its module; a    *)
(* method that is not a literal is "?".  Only .ts files have none.         *)
FetchSites(path, src) ==
    {[site |-> "fetch", at |-> f.at, path |-> path, src |-> EnclosingComponent(path, src, f.scope), label |-> f.verb,
      identity |-> Identity(src, f.url)] :
        f \in {f \in ToSet(src.fetches) : IsTsx(path)
                 /\ (f.client = "fetch" => BindingScope(src, f.scope, "fetch") = 0)
                 /\ (f.client = "axios" => ImportModule(src, "axios") = {<<"axios">>})}}

-----------------------------------------------------------------------------
(* JSX: an element renders the component it names; a Route of the router   *)
(* is a screen.  The default export is kept for the pages of Next.         *)
ScreenFacts(path, src, j, ev) ==
    Facts(<<NodeFact(<<"screen", j.route>>, "Confirmed", ev)>>,
          {EdgeFact(<<"screen", j.route>>, "RENDERS", d, "Confirmed", ev) : d \in Referenced(path, src, j.scope, j.element)}, {})

Renders(path, src, j, ev) ==
    Facts(<<>>, UNION {{EdgeFact(s, "RENDERS", d, "Confirmed", ev) : s \in Enclosing(path, src, j.scope) \ {d}} :
                         d \in Referenced(path, src, j.scope, j.tag)}, {})

RenderFacts(path, src, ev) ==
    LET router(j) == j.tag = "Route" /\ ImportModule(src, "Route") = {<<"react-router-dom">>}
        one(j) == CASE router(j) /\ j.route # <<>> -> ScreenFacts(path, src, j, ev)
                    [] router(j) /\ j.route = <<>> -> NoFacts
                    [] OTHER -> Renders(path, src, j, ev)
    IN  FoldLeft(MergeFacts, NoFacts, InSomeOrder({one(j) : j \in {j \in ToSet(src.jsx) : IsTsx(path) /\ j.upper}}))

DefaultExport(path, src) ==
    IF ~IsTsx(path) \/ src.default = "" THEN <<>>
    ELSE InSomeOrder({[path |-> path, target |-> t] : t \in Referenced(path, src, 1, src.default)})

-----------------------------------------------------------------------------
(* Calls of a name: a callable of the file, or a pending one of an import. *)
Pending(path, at, src, dst, method, ev) ==
    [kind |-> "call", src |-> src, dst |-> dst, method |-> method, gap |-> <<"gap", "call", path, <<at>>>>, ev |-> ev]

CallSiteFacts(path, sites, method, ev) ==
    Facts(<<>>,
          UNION {{EdgeFact(s, "CALLS", d, "Confirmed", ev) : s \in x.from \ x.local, d \in x.local} : x \in sites},
          UNION {{Pending(path, x.at, s, d, method, ev) : s \in x.from, d \in x.foreign} : x \in {x \in sites : x.local = {}}})

CallFacts(path, src, ev) ==
    CallSiteFacts(path,
                  {[at |-> c.at, from |-> Enclosing(path, src, c.scope), local |-> LocalTarget(path, src, c.scope, c.name),
                    foreign |-> IF ImportedAt(src, c.scope, c.name) THEN ImportedSymbol(path, src, c.name) ELSE {}] :
                      c \in {c \in ToSet(src.calls) : c.recv.kind = "none"}},
                  FALSE, ev)

(* The class that a receiver is proven to be: its stable declaration has a *)
(* type, or it is this, or a typed property of this.  type is [scope,      *)
(* name]; a class of the file or an imported type proves it.               *)
ReceiverProofs(path, src, t) ==
    {[local |-> {src.classes[d.fn] : d \in {d \in StableDeclaration(src, t.scope, t.name) : d.kind = "class"}},
      imported |-> IF ImportedAt(src, t.scope, t.name) THEN ImportedSymbol(path, src, t.name) ELSE {}]}

ReceiverType(path, src, c) ==
    CASE c.recv.kind = "this" -> {[local |-> {c.this} \ {""}, imported |-> {}]}
      [] c.recv.kind = "name" -> UNION {UNION {ReceiverProofs(path, src, t) : t \in d.type} : d \in StableDeclaration(src, c.scope, c.recv.name)}
      [] c.recv.kind = "field" -> UNION {UNION {ReceiverProofs(path, src, t) : t \in p.type} : p \in {p \in src.fields : p.class = c.this /\ p.name = c.recv.name}}
      [] OTHER -> {}

MethodOf(path, src, class, name) ==
    {TsSym(path, f.name) : f \in {f \in ToSet(src.funcs) : f.dispatch /\ f.name = <<class, name>>}}

MemberSite(path, src, c, proofs) ==
    [at |-> c.at, from |-> Enclosing(path, src, c.scope),
     local |-> UNION {UNION {MethodOf(path, src, k, c.name) : k \in p.local} : p \in proofs},
     foreign |-> UNION {{TsSym(i[2], i[3] \o <<c.name>>) : i \in p.imported} : p \in proofs}]

MemberCallFacts(path, src, ev) ==
    CallSiteFacts(path, {MemberSite(path, src, c, ReceiverType(path, src, c)) : c \in {c \in ToSet(src.calls) : c.recv.kind # "none"}}, TRUE, ev)

-----------------------------------------------------------------------------
(* eval and new Function: the code is literal, const-shaped or dynamic.    *)
(* Literal code is extracted as the body of a function of its own, whose   *)
(* symbols and gaps get names under the site; its pending calls are not    *)
(* carried over, its rules become one gap, and its claim is the worst one  *)
(* inside.                                                                 *)
Worst(claims) ==
    CASE "dynamic" \in claims -> "dynamic"
      [] "dynamic" \notin claims /\ "unproven" \in claims -> "unproven"
      [] OTHER -> "covered"

InEval(at, id) ==
    CASE id[1] = "sym" -> <<"sym", id[2], <<"eval", at>> \o Tail(id[3])>>
      [] id[1] = "gap" -> <<"gap", id[2], id[3], <<"eval", at>> \o id[4]>>
      [] OTHER -> id

EvalBody(path, src, e, ev, inner) ==
    LET entry == TsSym(path, <<"eval", e.at>>)
        rules == {n.id : n \in {n \in ToSet(inner.nodes) : n.id[1] = "rule" \/ (n.id[1] = "gap" /\ n.id[2] = "rule")}}
        gap == <<"gap", "eval-rules", path, <<e.at>>>>
        kept == SelectSeq(inner.nodes, LAMBDA n : n.id # TsFile(path) /\ n.id \notin rules)
    IN  [Facts([i \in DOMAIN kept |-> [kept[i] EXCEPT !.id = InEval(e.at, @)]]
               \o (IF rules = {} THEN <<>> ELSE <<NodeFact(gap, "Gap", ev)>>),
               {[x EXCEPT !.src = InEval(e.at, @), !.dst = InEval(e.at, @)] : x \in {x \in inner.edges : {x.src, x.dst} \cap rules = {}}}
               \cup {EdgeFact(entry, "DEPENDS_ON", gap, "Gap", ev) : x \in {x \in {TRUE} : rules # {}}}
               \cup {EdgeFact(s, "CALLS", entry, "Confirmed", ev) : s \in Enclosing(path, src, e.scope)}, {})
         EXCEPT !.pkgs = {[x EXCEPT !.src = {InEval(e.at, s) : s \in @}, !.at = <<e.at, @>>] : x \in {x \in inner.pkgs : x.site # "eval"}}
                         \cup {[site |-> "eval", at |-> e.at, path |-> path,
                                claim |-> Worst({x.claim : x \in {x \in inner.pkgs : x.site = "eval"}})]}]

EvalExtraction(path, src, e, ev, commit) == EvalBody(path, src, e, ev, TsFileFacts(path, e.code, commit))

EvalGap(path, src, e, ev) ==
    LET gap == <<"gap", "eval", path, <<e.at>>>>
    IN  Facts(<<NodeFact(gap, "Gap", ev)>>,
              {EdgeFact(o, "DEPENDS_ON", gap, "Gap", ev) : o \in OrElse(Enclosing(path, src, e.scope), {TsFile(path)})}, {})

EvalFacts(path, src, commit, ev) ==
    LET shadowed(name) == \/ \E l \in Locals(src) : l.local = name
                          \/ \E d \in ToSet(src.decls) : d.name = name
        claim(e, c) == [NoFacts EXCEPT !.pkgs = {[site |-> "eval", at |-> e.at, path |-> path, claim |-> c]}]
        one(e) == IF shadowed(e.callee) THEN NoFacts
                  ELSE CASE e.proof = "literal" -> EvalExtraction(path, src, e, ev, commit)
                         [] e.proof = "const" -> MergeFacts(EvalGap(path, src, e, ev), claim(e, "unproven"))
                         [] OTHER -> claim(e, "dynamic")
    IN  FoldLeft(MergeFacts, NoFacts, [i \in DOMAIN src.evals |-> one(src.evals[i])])

-----------------------------------------------------------------------------
(* rule_evidence: guarded exits in the order of their owners.  A rule has  *)
(* a gap for each reason it is not fully understood; broken syntax or a    *)
(* limit leaves one gap and ends the analysis of the file.                 *)
RuleReasons(x) == {"execution", "consumer"} \cup x.reasons \cup (IF x.first THEN {} ELSE {"preceding"})

Owner(path, src, x) == IF x.fn = 0 THEN TsFile(path) ELSE TsSym(path, src.funcs[x.fn].name)

GuardedExit(path, src, x, ev) ==
    LET rule == <<"rule", path, x.at>>
        gap(r) == <<"gap", "rule", path, <<x.at, r>>>>
    IN  Facts(<<NodeFact(rule, "Confirmed", ev)>> \o InSomeOrder({NodeFact(gap(r), "Gap", ev) : r \in RuleReasons(x)}),
              {EdgeFact(rule, "GOVERNS", Owner(path, src, x), "Confirmed", ev)}
              \cup {EdgeFact(rule, "DEPENDS_ON", gap(r), "Gap", ev) : r \in RuleReasons(x)}, {})

OmissionGap(path, src, x, ev) ==
    LET gap == <<"gap", "rule", path, <<x.at, "omitted">>>>
    IN  Facts(<<NodeFact(gap, "Gap", ev)>>, {EdgeFact(Owner(path, src, x), "DEPENDS_ON", gap, "Gap", ev)}, {})

RuleFacts(path, src, ev) ==
    LET exits == SelectSeq(src.exits, LAMBDA x : x.recovered \/ x.conditions > 0)
        ends(i) == exits[i].recovered \/ exits[i].conditions > MaxConditions \/ i > MaxRulesPerFile
        cut == {i \in DOMAIN exits : ends(i)}
        last == IF cut = {} THEN Len(exits) ELSE (CHOOSE i \in cut : \A j \in cut : i <= j) - 1
    IN  FoldLeft(MergeFacts, NoFacts,
                 [i \in 1..last |-> GuardedExit(path, src, exits[i], ev)]
                 \o (IF cut = {} THEN <<>> ELSE <<OmissionGap(path, src, exits[last + 1], ev)>>))

(* extract_source.                                                         *)
TsFileFacts(path, src, commit) ==
    LET ev == {[path |-> path, commit |-> commit]}
        own == [Facts(<<NodeFact(TsFile(path), "Confirmed", ev)>>, TsImportEdges(path, src, ev), {})
                EXCEPT !.types = DefaultExport(path, src), !.pkgs = EventSites(path, src) \cup FetchSites(path, src)]
    IN  FoldLeft(MergeFacts, own,
                 <<CallableFacts(path, src, ev), PulumiFacts(path, src, ev), RouteFacts(path, src, ev), NestFacts(path, src, ev),
                   EvalFacts(path, src, commit, ev), RenderFacts(path, src, ev), CallFacts(path, src, ev),
                   MemberCallFacts(path, src, ev), RuleFacts(path, src, ev)>>)

-----------------------------------------------------------------------------
TsFiles(tree) == SelectSeq(tree.files, LAMBDA f : Contains(SourceExtensions, Ext(f.path)))

(* next_pages_screens: a file under pages is a screen, unless its name is  *)
(* private or it is an api route; index stands for its directory.          *)
NextScreens(nodes, exports, commit) ==
    LET pages == {n.id[2] : n \in {n \in ToSet(nodes) : n.label = "File"}}
        page(p) == p[1] = "pages" /\ Ext(p) \in {".tsx", ".jsx", ".js"} /\ p[2] # "api" /\ p[2] # "_app"
        route(p) == LET r == Tail(Stem(p)) IN IF Last(r) = "index" THEN Front(r) ELSE r
        screen(id, p, ev) == Facts(<<NodeFact(id, "Confirmed", ev)>>,
                                   {EdgeFact(id, "RENDERS", x.target, "Confirmed", ev) : x \in LastOf(exports, LAMBDA x : x.path = p)}, {})
    IN  FoldLeft(MergeFacts, NoFacts,
                 InSomeOrder({screen(<<"screen", route(p)>>, p, {[path |-> p, commit |-> commit]}) : p \in {p \in pages : page(p)}}))

(* Faulty variant: an unresolved call leaves nothing.                      *)
CallOutcomeSilent(p, known, methods) ==
    Facts(<<>>, {EdgeFact(p.src, "CALLS", d, "Confirmed", p.ev) : d \in {Reconciled(p.dst, known)} \cap known}, {})

(* A pending call, once every file is there: the symbol it names (which    *)
(* must be an instance method if an instance calls it), or a gap.          *)
CallOutcome(p, known, methods) ==
    LET real == {Reconciled(p.dst, known)} \cap (IF p.method THEN known \cap methods ELSE known)
    IN  Facts(IF real = {} THEN <<NodeFact(p.gap, "Gap", p.ev)>> ELSE <<>>,
              OrElse({EdgeFact(p.src, "CALLS", d, "Confirmed", p.ev) : d \in real}, {EdgeFact(p.src, "CALLS", p.gap, "Gap", p.ev)}), {})

(* A pending Pulumi edge: both ends must turn out to be resources.         *)
PulumiOutcome(p, bindings) ==
    LET resolve(x) == IF x[1] = "res" THEN {x} ELSE {b.node : b \in LastOf(bindings, LAMBDA b : b.sym = x)}
    IN  {EdgeFact(s, p.label, d, "Confirmed", p.ev) : s \in resolve(p.src), d \in resolve(p.dst)}

(* complete_directory: the calls and Pulumi edges that waited, the screens *)
(* of Next, and edges whose ends are the files they stand for.             *)
TsResolved(facts, known, files, methods, tree, commit) ==
    FoldLeft(MergeFacts,
             [facts EXCEPT !.edges = {ResolveBareImport(ReconcileEdge(e, files, known), tree, files) : e \in @}],
             InSomeOrder({CallOutcome(p, known, methods) : p \in {p \in facts.pending : p.kind = "call"}})
             \o <<NextScreens(facts.nodes, facts.types, commit),
                  Facts(<<>>, UNION {PulumiOutcome(p, facts.funcs) : p \in {p \in facts.pending : p.kind = "pulumi"}}, {})>>)

(* What the end of an import that has no node is.                          *)
TsClassify(id, e, tree, files) ==
    LET asset == Ext(id[2]) \in AssetExtensions /\ ~EscapesRoot(e.src[2], e.spec) /\ id[2] \in tree.assets
    IN  CASE e.label # "IMPORTS" -> Unresolved
          [] e.label = "IMPORTS" /\ id[1] = "file" -> IF asset THEN Internal ELSE Unresolved
          [] e.label = "IMPORTS" /\ id[1] = "mod" -> ClassifyBareImport(id[2], e.src[2], tree, files)

TsClosed(all, tree, files) ==
    [nodes |-> CloseOverEndpoints(all.nodes, [r \in MissingEndpoints(all.nodes, all.edges) |-> TsClassify(r[1], r[2], tree, files)]),
     edges |-> all.edges, sites |-> all.pkgs]

TsComplete(facts, tree, commit) ==
    LET files == {n.id : n \in {n \in ToSet(facts.nodes) : n.label = "File"}}
    IN  TsClosed(TsResolved(facts, {n.id : n \in ToSet(facts.nodes)}, files,
                            {n.id : n \in {n \in ToSet(facts.nodes) : "dispatch" \in DOMAIN n}}, tree, commit),
                 tree, files)
=============================================================================
