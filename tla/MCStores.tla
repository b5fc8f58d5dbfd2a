------------------------------ MODULE MCStores ------------------------------
(***************************************************************************)
(* Small instances of GraphIngest, RetainedSource and FrozenContext.  A     *)
(* behaviour exercises the recoveries of the graph, the captures of the    *)
(* retained source or the calls of one investigation on a frozen graph.    *)
(***************************************************************************)
EXTENDS GraphIngest, RetainedSource, FrozenContext, TLC

\* Two repositories.  a declares a symbol, imports a shared module and was seen
\* to publish to a channel; b imports the same module, publishes to the channel
\* in code, declares the resource that backs it, and its decision record names
\* a's symbol.  Each has a second tree without most of that.
Sym(r) == Id(r, "sym")
ModX == Id(Shared, "modx")
ChanQ == Id(Shared, "q")
Res == Id("b", "res")

F(r, v) == [k \in {NodeKey(Sym(r))} |-> Row("Symbol", {r}, FALSE, v)]
Imports(r) == Over([k \in {NodeKey(ModX)} |-> Row("Module", {r}, TRUE, "x")],
                   [k \in {<<Sym(r), ModX, "IMPORTS">>} |-> Row("", {r}, FALSE, "")])
Publishes(r) == Over([k \in {NodeKey(ChanQ)} |-> Row("Channel", {r}, FALSE, "q")],
                     [k \in {<<Sym(r), ChanQ, "PUBLISHES">>} |-> Row("", {r}, FALSE, "")])
\* A trace told that r publishes to q: such a fact cites no repository.
Traced(r) == Over([k \in {NodeKey(ChanQ)} |-> Row("Channel", {}, FALSE, "t")],
                  [k \in {<<Sym(r), ChanQ, "PUBLISHES">>} |-> Row("", {}, FALSE, "t")])
Resource(q) == [k \in {NodeKey(Res)} |-> Row("Resource", {"b"}, FALSE, q)]

T(facts, adrs) == [facts |-> facts, adrs |-> adrs]

MCTrees == [r \in {"a", "b"} |->
    IF r = "a" THEN {T(Over(F("a", 1), Over(Imports("a"), Traced("a"))), {}),
                     T(EmptyFunction, {ModX})}
    ELSE {T(Over(F("b", 1), Over(Imports("b"), Over(Publishes("b"), Resource("q")))), {Sym("a")}),
          T(Over(F("b", 2), Resource("none")), {ModX, Sym("a")})}]

CONSTANTS a, b, x, y

MCTree == [s \in {a} |-> {{x}, {y}}]

\* An earlier recovery of b may have left a capture, with a content that one of
\* a's two trees holds too; its facts were cleared since.
OfB == [src |-> b, files |-> {x}]
MCRetainedInit ==
    /\ captures \in {{}, {OfB}} /\ objects = UNION {c.files : c \in captures}
    /\ receipts = captures /\ forgotten = {}
    /\ bound = EmptyGraph
    /\ investigated = {}
    /\ op = [o \in Op |-> Resting]

MCSymmetry == Permutations(Recovery)

\* Two nodes joined by an edge, a third one, and an edge to a node that the
\* graph does not hold.  The graph may lose one binding for another, or change.
CF(k, ends, label, bytes, spans) ==
    [key |-> k, ends |-> ends, label |-> label, content |-> 1, bytes |-> bytes, spans |-> spans]
CFacts == {CF(1, {}, "A", 1, <<2>>), CF(2, {}, "B", 2, <<1, 3>>), CF(3, {}, "A", 1, <<>>),
           CF(4, {1, 2}, "E", 1, <<1>>), CF(5, {1, 9}, "E", 1, <<>>)}
BoundOnly(k) == [key \in 1..5 |-> IF key = k THEN 7 ELSE Unbound]
MCLiveGraphs == {[facts |-> CFacts, bound |-> BoundOnly(2)],
                 [facts |-> CFacts, bound |-> BoundOnly(1)],
                 [facts |-> {[f EXCEPT !.content = 2] : f \in CFacts}, bound |-> BoundOnly(2)]}

Near(n, h) == [anchor |-> n, hops |-> h]
MCTaskScopes == {All, Near(1, 1), Near(8, 1)}
Sel(s, k, l) == [scope |-> s, kind |-> k, labels |-> l]
MCSelections == {Sel(All, "any", {}), Sel(Near(2, 1), "node", {}), Sel(All, "any", {"A"})}

VARIABLE store

NoRecoveries == graph = EmptyGraph /\ rec = [r \in Repo |-> [Idle EXCEPT !.at = "off"]]
NoTask == /\ live = [facts |-> {}, bound |-> <<>>] /\ frozen = NoContext
          /\ saved = [ledger |-> NoLedger, usage |-> NoUsage]
          /\ call = [NoCall EXCEPT !.at = "off"] /\ answer = NoAnswer

StoresInit ==
    \/ store = "graph" /\ GraphInit /\ Init /\ NoTask
    \/ store = "retained" /\ NoRecoveries /\ MCRetainedInit /\ NoTask
    \/ store = "context" /\ NoRecoveries /\ Init /\ ContextInit

StoresNext ==
    \/ store = "graph" /\ GraphNext /\ UNCHANGED <<vars, contextVars, store>>
    \/ store = "retained" /\ Next /\ UNCHANGED <<graphVars, contextVars, store>>
    \/ store = "context" /\ ContextNext /\ UNCHANGED <<graphVars, vars, store>>

StoresSpec == StoresInit /\ [][StoresNext]_<<graphVars, vars, contextVars, store>>
=============================================================================
