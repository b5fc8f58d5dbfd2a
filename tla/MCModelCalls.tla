---------------------------- MODULE MCModelCalls ----------------------------
(***************************************************************************)
(* The two ways to a model, the escalation of a gap and the bounded call   *)
(* of an investigation: a behaviour exercises one of them.  Small          *)
(* instances of Escalation and BoundedCall.                                *)
(***************************************************************************)
EXTENDS Escalation, BoundedCall, TLC

(* Escalation.  The gap x and the candidate c1 cite the same span; c2 is   *)
(* bound to retained source; of four candidates the plan holds three and a *)
(* task two.                                                               *)
Ref(span) == [repo |-> "app", span |-> span]
Foreign == [repo |-> "gone", span |-> "f"]

Node(id, refs) ==
    [id |-> id, gap |-> FALSE, tier |-> "confirmed", refs |-> refs, digest |-> 1,
     source |-> {}, label |-> {}]
GapNode == [Node("x", <<Ref("call")>>) EXCEPT !.gap = TRUE, !.tier = "gap"]
Link(src, dst) == [src |-> src, label |-> "CALLS", dst |-> dst, digest |-> 1]

Candidates ==
    <<Node("c1", <<Ref("call")>>), Node("c2", <<Ref("kept")>>),
      Node("c3", <<Ref("far")>>), Node("c4", <<Ref("far")>>)>>
Links == <<Link("s", "x")>> \o [i \in 1..4 |-> Link("s", Candidates[i].id)]

Wide == [nodes |-> <<Node("s", <<Ref("decl")>>), GapNode>> \o Candidates, edges |-> Links]

(* c2 was written again, c4 is gone, and s has lost its citation.          *)
Rewritten ==
    [nodes |-> <<Node("s", <<>>), GapNode, Candidates[1],
                 [Candidates[2] EXCEPT !.digest = 2], Node("c5", <<Foreign>>)>>,
     edges |-> Links \o <<Link("s", "c5")>>]

(* A gap with no edge, whose properties name its source.                   *)
Loose ==
    [nodes |-> <<Node("s", <<Ref("decl")>>), [GapNode EXCEPT !.source = {"s"}]>>, edges |-> <<>>]

Binding(receipt, digest) == [repo |-> "app", receipt |-> receipt, digest |-> digest]
Bound == NodeFact("c2") :> Binding("r1", 1)

MCGraphs ==
    {[graph |-> Wide, bindings |-> Bound], [graph |-> Wide, bindings |-> <<>>],
     [graph |-> Rewritten, bindings |-> <<>>], [graph |-> Loose, bindings |-> <<>>]}

Text(v, secret) == [v |-> v, secret |-> secret, bytes |-> 1]

Tree(v, secret, readable) ==
    [r \in {Ref(s) : s \in {"decl", "call", "kept", "far"}} \cup {Foreign} |->
        IF r \in readable THEN {Text(v, secret)} ELSE {}]
Everything == {Ref(s) : s \in {"decl", "call", "kept", "far"}}

MCTrees ==
    {Tree(1, "k1", Everything), Tree(1, "k2", Everything), Tree(2, "k1", Everything),
     Tree(1, "k1", {Ref("decl"), Ref("kept"), Ref("far")})}

MCReceipts ==
    "r1" :> [repo |-> "app", fact |-> NodeFact("c2"), digest |-> 1,
             ranges |-> {Ref("kept")}, span |-> 1, file |-> 2, text |-> Text(0, "k0")]

Answer(target, citations, bytes, replays) ==
    [target |-> target, citations |-> citations, bytes |-> bytes, replays |-> replays]

MCAnswers ==
    {Answer("c1", <<1, 3>>, 3, FALSE), Answer("c1", <<3, 2>>, 4, FALSE),
     Answer("c2", <<1, 4>>, 3, TRUE), Answer("c2", <<2, 3>>, 3, FALSE),
     Answer("c1", <<3>>, 3, FALSE), Answer("s", <<1, 3>>, 3, FALSE), Answer("c1", <<1, 1>>, 3, FALSE)}

NoEvents == [k \in Kinds |-> 0]

(* Escalating while everything else changes.                               *)
Escalating ==
    [NoEvents EXCEPT !["command"] = 2, !["load"] = 1, !["edit"] = 1, !["forget"] = 1,
                     !["settings"] = 1, !["cancel"] = 1]
(* Reviewing while answers arrive.                                         *)
Reviewing ==
    [NoEvents EXCEPT !["command"] = 2, !["page"] = 4, !["review"] = 3]

MCBudgets == {Escalating, Reviewing}

(* Where the changes start from: the wide graph bound to retained source   *)
(* and all of it readable, with the cloud closed or open; reviews need     *)
(* only answers, so they start from the graph without a binding.           *)
Start ==
    /\ world.graph = Wide /\ world.tree = Tree(1, "k1", Everything)
    /\ world.bindings = (IF left = Reviewing THEN <<>> ELSE Bound)
    /\ \/ settings = [enabled |-> TRUE, provider |-> "cloud", consented |-> FALSE]
       \/ left = Escalating /\ settings = [enabled |-> TRUE, provider |-> "cloud", consented |-> TRUE]
MCInit == Init /\ Start
MCSpec == MCInit /\ [][Next]_vars

Symmetric == Permutations(Proc) \cup Permutations(Reviewer)

-----------------------------------------------------------------------------
(* BoundedCall.                                                            *)

Host(locality, scheme, loopback) == [locality |-> locality, scheme |-> scheme, loopback |-> loopback, plain |-> TRUE]
MCProfiles ==
    {Host("local", "http", TRUE), Host("local", "http", FALSE), Host("cloud", "https", FALSE), Host("cloud", "http", FALSE)}

Span(id, redacted) == [id |-> id, redacted |-> redacted, nonempty |-> TRUE]
Act(id, spans, wire_, body) == [id |-> id, spans |-> spans, raw |-> wire_, wire |-> wire_, body |-> body]
(* Two that can be sent, one whose identifiers meet when they are          *)
(* redacted, one with an empty span, one too large before and one after    *)
(* it is encoded.                                                          *)
MCActions ==
    {Act("1", <<Span("a", "a"), Span("k1", "*")>>, 1, 2), Act("2", <<Span("a", "a")>>, 1, 2),
     Act("1", <<Span("k1", "*"), Span("k2", "*")>>, 1, 2), Act("1", <<[Span("a", "a") EXCEPT !.nonempty = FALSE]>>, 1, 2),
     Act("1", <<Span("a", "a")>>, 3, 2), Act("1", <<Span("a", "a")>>, 1, 4)}

Part(size) == [kind |-> "text", size |-> size]
Whole ==
    [status |-> TRUE, identity |-> TRUE, length |-> {}, bytes |-> <<"open", "quote", "escape", "quote", "quote", "close">>,
     json |-> TRUE, stop |-> "end", typed |-> TRUE, parts |-> <<[kind |-> "thinking", size |-> 5], Part(1), Part(1)>>,
     meta |-> TRUE, tokens |-> 1]
MCResponses ==
    {Whole, [Whole EXCEPT !.status = FALSE], [Whole EXCEPT !.identity = FALSE], [Whole EXCEPT !.length = {8}],
     [Whole EXCEPT !.length = {1}, !.bytes = @ \o <<"other", "other">>], [Whole EXCEPT !.bytes = <<"open", "open", "open", "close">>],
     [Whole EXCEPT !.bytes = <<"close">>], [Whole EXCEPT !.json = FALSE], [Whole EXCEPT !.stop = "cut"],
     [Whole EXCEPT !.stop = "refusal"], [Whole EXCEPT !.typed = FALSE], [Whole EXCEPT !.parts = <<Part(2), Part(2)>>],
     [Whole EXCEPT !.parts = <<>>], [Whole EXCEPT !.parts = <<[kind |-> "tool", size |-> 1]>>], [Whole EXCEPT !.tokens = 3]}

MCLimits == [input |-> 2, request |-> 3, response |-> 6, output |-> 3, tokens |-> 2]

VARIABLE way

ModelCallsInit ==
    \/ way = "escalation" /\ MCInit /\ CallInit
       /\ policy /\ call.key /\ call.profile = Host("local", "http", TRUE)
    \/ way = "call" /\ Init /\ Start /\ left = Reviewing /\ CallInit

ModelCallsNext ==
    \/ way = "escalation" /\ Next /\ UNCHANGED <<callVars, way>>
    \/ way = "call" /\ CallNext /\ UNCHANGED <<vars, way>>

ModelCallsSpec == ModelCallsInit /\ [][ModelCallsNext]_<<vars, callVars, way>>
=============================================================================
