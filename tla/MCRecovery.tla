----------------------------- MODULE MCRecovery -----------------------------
(***************************************************************************)
(* The built-in extractors, the plugins of a recovery, the traces of what  *)
(* was recovered, the scheduler of the extraction and the findings that    *)
(* recoveries and scans write share no state: a behaviour exercises one of *)
(* them, and no fair step of the others is enabled.                        *)
(***************************************************************************)
EXTENDS MCAdapters, PluginGate, FlowPreview, OrderedMap

CONSTANTS w1, w2, MaxLinks

-----------------------------------------------------------------------------
(* Recoveries with plugins. *)
Site(role, src, kind, as, of, path, order) == [role |-> role, src |-> src, kind |-> kind, name |-> [as |-> as, of |-> of], path |-> path, at |-> order]
Fetch(src, method, as, of, order) == [src |-> src, method |-> method, name |-> [as |-> as, of |-> of], path |-> <<"a">>, at |-> order]
Span(id, kind, destination, file) == [id |-> id, kind |-> kind, destination |-> destination, file |-> file, method |-> "GET", route |-> <<"", "u", ":id">>]

Here == {[path |-> <<"a">>, commit |-> Commit]}
FileA == NodeFact(<<"file", <<"a">>>>, "Confirmed", Here)
Sym(n) == <<"sym", <<"a">>, n>>
Ep(verb, route) == NodeFact(<<"ep", verb, route>>, "Confirmed", Here)
Queue == <<"res", <<"tf", "queue", "q">>>>
Bucket == <<"res", <<"pulumi", "bucket", "b">>>>
Lib == <<"mod", <<"lib">>>>
Uses(src, dst) == EdgeFact(src, "REFERENCES", dst, "Confirmed", Here)
NoPart == [nodes |-> <<>>, edges |-> {}]
Part(nodes, edges) == [nodes |-> nodes, edges |-> edges]

\* TypeScript sees a module as external that Go holds open or internal, and
\* refers to a queue that only a state may know.
TsPart(twice) ==
    Part(<<FileA, NodeFact(Sym("f"), "Confirmed", Here), NodeFact(Sym("g"), "Confirmed", Here), Ep("GET", <<"", "u", Param>>),
           NodeFact(Bucket, "Confirmed", Here), Mint(Lib, External, Here)>>
         \o (IF twice THEN <<Ep("GET", <<"", "u", Param>>), Ep("GET", <<"", "u", "me">>)>> ELSE <<>>),
         {Uses(Sym("f"), Lib), EdgeFact(Bucket, "DEFINED_IN", FileA.id, "Confirmed", Here), Uses(Sym("f"), <<"mod", <<"x">>>>)})
GoPart(boundary) == Part(<<Mint(Lib, boundary, Here)>>, {})
TfPart == Part(<<Mint(Queue, Unresolved, Here)>>, {EdgeFact(Bucket, "DEPENDS_ON", Queue, "Confirmed", Here)})
ToolPart == Part(<<FileA, NodeFact(<<"file", <<"cfg">>>>, "Confirmed", Here)>>, {Uses(<<"file", <<"cfg">>>>, FileA.id)})

SitesOf == <<Site("produces", Sym("f"), "sqs", "literal", "orders", <<"a">>, 1), Site("consumes", Sym("g"), "sqs", "env", "Q", <<"a">>, 2),
             Site("produces", Sym("g"), "kafka", "env", "K", <<"b">>, 3)>>
Rival == Site("produces", Sym("h"), "kafka", "computed", "", <<"c">>, 4)
FetchesOf == <<Fetch(Sym("f"), "GET", "literal", [segs |-> <<"", "u", "me">>], 5), Fetch(Sym("g"), "?", "env", "U", 6)>>
EnvOf == <<[path |-> <<".env">>, lines |-> <<[key |-> "Q", value |-> "jobs"], [key |-> "", value |-> "x"]>>],
           [path |-> <<"b", ".env">>, lines |-> <<[key |-> "Q", value |-> "late"]>>]>>
StateOf == <<[address |-> "root", resources |-> <<[address |-> Queue[2], type |-> "queue",
                 values |-> {[key |-> "url", value |-> "u", scalar |-> TRUE, sensitive |-> FALSE], [key |-> "key", value |-> "k", scalar |-> TRUE, sensitive |-> TRUE]}]>>]>>
PulumiOf == <<[urn |-> "1", kind |-> "resource", delete |-> FALSE, type |-> "bucket", name |-> "b", values |-> {[key |-> <<"p">>, wrapper |-> <<"p">>, value |-> "s"]}],
              [urn |-> "2", kind |-> "stack", delete |-> FALSE, type |-> "stack", name |-> "s", values |-> {}]>>
TraceOf(file) == <<Span("1", "kafka", "topic", file), Span("", "kafka", "other", file)>>

Input(twice, boundary, rival, manifest, state, traces, broken) ==
    [ts |-> TsPart(twice), webext |-> NoPart, idb |-> NoPart, python |-> NoPart, go |-> GoPart(boundary), java |-> NoPart, kotlin |-> NoPart,
     tf |-> TfPart, adr |-> NoPart, tools |-> ToolPart, sites |-> IF rival THEN Append(SitesOf, Rival) ELSE SitesOf, chrome |-> <<>>,
     fetches |-> FetchesOf, env |-> EnvOf, manifest |-> manifest, state |-> state, pulumi |-> {PulumiOf}, traces |-> traces, broken |-> broken]
\* A repository in which nothing was found.
MCEmpty ==
    [part \in {"ts", "webext", "idb", "python", "go", "java", "kotlin", "tf", "adr", "tools"} |-> NoPart]
    @@ [part \in {"sites", "chrome", "fetches", "env", "traces"} |-> <<>>]
    @@ [manifest |-> << >>, state |-> {}, pulumi |-> {}, broken |-> "none"]
MCInputs ==
    {MCEmpty} \cup
    {Input(twice, b, rival, m, state, traces, broken) :
        twice \in BOOLEAN, b \in {External, Internal, Unresolved}, rival \in BOOLEAN, m \in {<< >>, [K |-> "fixed"]},
        state \in {{}, {StateOf}}, traces \in {<<>>, <<TraceOf(<<>>)>>, <<TraceOf(<<"x", "c">>), TraceOf(<<"b">>)>>}, broken \in {"none", "state"}}
MCLayerSets == {{}, {"infra"}, {"client"}, {"server", "infra"}}

\* Of one file b1 answers a node whose props are an object, one whose props are
\* null and an edge with an empty provenance of its own; of another, nothing.
GuestNode(file, n, props) == NodeFact(<<"sym", <<file>>, n>>, "none", {}) @@ [props |-> props]
GuestCall(file, m, n) == EdgeFact(<<"sym", <<file>>, m>>, "CALLS", <<"sym", <<file>>, n>>, "Confirmed", {}) @@ [props |-> "prov"]
MCAnswer(file) == Part(<<GuestNode(file, "p", "object"), GuestNode(file, "o", "other")>>, {GuestCall(file, "p", "o")})
PlainAnswer(file) == Part(<<GuestNode(file, "q", "object")>>, {})

MCBuilds == [b1 |-> [compiles |-> TRUE, answers |-> [t |-> {MCAnswer("t")}, e |-> {NoPart}, f |-> {MCAnswer("f")}]],
             b2 |-> [compiles |-> TRUE, answers |-> [t |-> {PlainAnswer("t")}, e |-> {PlainAnswer("e")}, f |-> {}]]]
MCCorpora == [c1 |-> [exts |-> {"rb"}, cases |-> {[path |-> "t", facts |-> MCAnswer("t")]}],
              c2 |-> [exts |-> {"rb"}, cases |-> {[path |-> "t", facts |-> PlainAnswer("t")]}]]
MCArtifacts == {Nothing, [build |-> "b1", corpus |-> "c1"], [build |-> "b2", corpus |-> "c1"], [build |-> "b2", corpus |-> "c2"]}
MCSources == <<[path |-> "e", ext |-> "rb"], [path |-> "f", ext |-> "rb"], [path |-> "h", ext |-> "md"]>>
MCRoots == <<"r1">>

\* Where artifacts and settings change, the user has a plugin installed already.
MCPluginInit ==
    /\ PluginInit
    /\ changes = MaxChanges <=> found = MCEmpty
    /\ disk = [p \in Places |-> [id \in PluginIds |->
                  IF p = User /\ changes > 0 THEN [build |-> "b2", corpus |-> "c2"] ELSE Nothing]]
MCPluginSpec == MCPluginInit /\ [][PluginNext]_pluginVars

-----------------------------------------------------------------------------
(* Small slices: every choice of at most MaxLinks links between the nodes. *)
Nd(label, sub) == [label |-> label, rule |-> FALSE, sub |-> sub, cited |-> TRUE]

(* A screen, two symbols, an endpoint, a channel, a gap and the resource   *)
(* of a queue.  Nodes 8 and 9 are in the graph and not in the slice; the   *)
(* id of 8 begins with gap:.                                               *)
Cast == <<Nd("Screen", ""), Nd("Symbol", ""), Nd("Symbol", ""), Nd("Endpoint", ""), Nd("Channel", "q"), Nd("Gap", "q"),
          Nd("Resource", "q")>>

L(src, label, dst, conf) == [src |-> src, dst |-> dst, label |-> label, conf |-> conf, rule |-> FALSE, guess |-> FALSE]

Links ==
    {L(1, "RENDERS", 2, "Confirmed"), L(1, "FETCHES", 4, "InferredStrong"),
     L(4, "HANDLES", 2, "Confirmed"), L(2, "CALLS", 3, "Confirmed"), L(3, "CALLS", 2, "invalid"),
     L(3, "CALLS", 9, "Confirmed"), L(3, "FETCHES", 4, "Confirmed"), L(3, "PUBLISHES", 5, "Confirmed"), L(2, "SUBSCRIBES", 5, "Confirmed")}
IntoGap ==
    {L(3, "PUBLISHES", 6, "Gap"), L(2, "CALLS", 6, "Gap"),
     [L(3, "DEPENDS_ON", 6, "Gap") EXCEPT !.rule = TRUE], L(3, "SUBSCRIBES", 6, "Gap"),
     L(3, "DEPENDS_ON", 8, "Confirmed")}
OutOfGap == {L(6, "HANDLES", 2, "Gap")}

MCFlowGraphs ==
    {[node |-> Cast, edges |-> s \cup t] :
        s \in UNION {kSubset(k, Links) : k \in 0..MaxLinks}, t \in {{}, OutOfGap} \cup {{e} : e \in IntoGap}}

MCMaterialised == [n \in 1..9 |-> n + 10]
Pair(score, match) == [score |-> score, match |-> match]
MCSimilarities == {[p \in {<<6, n>> : n \in 1..20} |-> IF p[2] = 3 THEN 9 ELSE 7],
                   [p \in {<<6, n>> : n \in 1..20} |-> IF p[2] = 17 THEN 8 ELSE 5]}
MCEvalSets == {<<Pair(8, TRUE), Pair(6, TRUE), Pair(7, FALSE), Pair(3, FALSE)>>}

-----------------------------------------------------------------------------
\* At most two closure calls fail, of the first two items: one
\* that arrives early and one that decides.
TwoFailuresInit ==
    /\ Init
    /\ \A i \in 3..N : work[i] = "ok" /\ merge[i] = "ok"
    /\ Cardinality({i \in Item : work[i] # "ok"}) + Cardinality({i \in Item : merge[i] # "ok"}) <= 2

VARIABLES
    epoch, run, reconciled, persisted, flag, stamp, repo, pc, repos, writes, register, reported,
    stopped, sawDone

\* Two scans, and a recovery of one repository.
Register == INSTANCE PreflightRuns WITH
    Run <- {"r1", "r2"}, Recovery <- {"x1"}, Repo <- {"a"},
    Targets <- [x \in {"x1"} |-> {"a"}], current <- run, todo <- repos, answer <- reported

registerVars == <<epoch, run, reconciled, persisted, flag, stamp, repo, pc, repos, writes,
                  register, reported, stopped, sawDone>>

\* Every scan and every reconciliation ends: AllEnd of PreflightRuns, for the
\* instance of this module.
AllEnd == Register!AllEnd

\* The scans were never begun and the recovery was cancelled.
NoScan ==
    /\ epoch = 0 /\ run = None /\ writes = None
    /\ reconciled = [x \in {"a"} |-> 0] /\ persisted = reconciled /\ register = reconciled
    /\ flag = [r \in {"r1", "r2"} |-> "idle"] /\ stopped = {} /\ sawDone = [r \in {"r1", "r2"} |-> {}]
    /\ pc = [z \in {"r1", "r2", "x1"} |-> IF z = "x1" THEN "failed" ELSE "idle"]
    /\ stamp = [z \in {"r1", "r2", "x1"} |-> 0] /\ reported = stamp
    /\ repo = [z \in {"r1", "r2", "x1"} |-> None] /\ repos = [x \in {"x1"} |-> {}]

NoLanguage == tree = <<>> /\ cache = << >> /\ out = {}
NoPlugin == PluginInit /\ found = MCEmpty /\ changes = 0 /\ disk = [p \in Places |-> [id \in PluginIds |-> Nothing]]
NoFlows == PreviewInit /\ slice.edges = {}
\* The call has returned: none of its threads has a step left.
NoCall ==
    /\ work = [i \in Item |-> "ok"] /\ merge = work
    /\ next = 0 /\ merged = 0 /\ stop = FALSE /\ ready = {} /\ done = 0 /\ result = None
    /\ at = [w \in Worker |-> "gone"] /\ item = [w \in Worker |-> 0] /\ caller = "returned"

RecoveryInit ==
    \/ AdaptersInit /\ NoPlugin /\ NoFlows /\ NoCall /\ NoScan
    \/ lang = "plugins" /\ NoLanguage /\ MCPluginInit /\ NoFlows /\ NoCall /\ NoScan
    \/ lang = "flows" /\ NoLanguage /\ NoPlugin /\ PreviewInit /\ NoCall /\ NoScan
    \/ lang = "schedule" /\ NoLanguage /\ NoPlugin /\ NoFlows /\ TwoFailuresInit /\ NoScan
    \/ lang = "register" /\ NoLanguage /\ NoPlugin /\ NoFlows /\ NoCall /\ Register!Init

RecoveryNext ==
    \/ lang \in DOMAIN Trees /\ AdaptersNext /\ UNCHANGED <<pluginVars, previewVars, vars, registerVars>>
    \/ lang = "plugins" /\ PluginNext /\ UNCHANGED <<adapterVars, previewVars, vars, registerVars>>
    \/ lang = "flows" /\ PreviewNext /\ UNCHANGED <<adapterVars, pluginVars, vars, registerVars>>
    \/ lang = "schedule" /\ Next /\ UNCHANGED <<adapterVars, pluginVars, previewVars, registerVars>>
    \/ lang = "register" /\ Register!Next /\ UNCHANGED <<adapterVars, pluginVars, previewVars, vars>>

RecoverySpec ==
    /\ RecoveryInit /\ [][RecoveryNext]_<<adapterVars, pluginVars, previewVars, vars, registerVars>>
    /\ Fairness /\ Register!Fairness
=============================================================================
