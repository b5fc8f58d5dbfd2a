--------------------------- MODULE FrozenContext ---------------------------
(***************************************************************************)
(* What one investigation may look at: the FrozenContext of                *)
(* src-tauri/src/investigations (context.rs, evidence.rs) over the pages   *)
(* of crates/context-hub and the admission of crates/agents/investigation. *)
(*                                                                         *)
(* The worker freezes the graph once, in the scope that the user allowed.  *)
(* Each tool call of the model selects facts of the frozen snapshot, or    *)
(* reads one span that a selected fact names.  The live graph moves on     *)
(* meanwhile (recoveries, new bindings), so a call reads it twice, before  *)
(* and under its guards, and stops the task when it changed.  A call that  *)
(* succeeds builds the next input ledger, which the job store admits only  *)
(* as an extension of the saved one; every error ends the task.            *)
(*                                                                         *)
(* A fact is [key, ends, label, content, bytes, spans]: ends is {} for a   *)
(* node and its two nodes for an edge; keys are in the order of the sorted *)
(* snapshot; spans are the lengths of the source ranges it names.  The     *)
(* identity of a snapshot or of a selection is its content.  The history   *)
(* of a follow-up, the prose rules and redaction are left out.             *)
(***************************************************************************)
EXTENDS Integers, FiniteSets, SequencesExt

CONSTANTS
    LiveGraphs,       \* the graphs the store may hold: [facts, bound]
    TaskScopes,       \* scopes the user may ask for
    Selections,       \* scope, kind and labels the model may ask for
    PageFacts,        \* max_facts of its queries
    PageBytes,        \* max_bytes of its queries
    MaxTools,         \* MAX_TOOL_ACTIONS
    MaxSelected,      \* MAX_SELECTED_FACTS
    MaxTotalBytes,    \* query responses of a task, 96 KiB
    MaxEvidence,      \* source spans of a task, 12
    MaxEvidenceBytes, \* 48 KiB
    MaxSpan,          \* 8192 bytes
    MaxValidations    \* validation of captured files, 128 MiB, in files

VARIABLES
    live,       \* the graph store: facts, and the receipt each is bound to
    frozen,     \* FrozenContext: facts of the graph and of the scope, ledger,
                \* query pages and evidence
    saved,      \* the job store: the admitted ledger and the usage
    call,       \* the tool call in progress
    answer      \* the admitted result

contextVars == <<live, frozen, saved, call, answer>>

All == [anchor |-> 0, hops |-> 0]
Unbound == 0
NoSelection == [scope |-> All, kind |-> "none", labels |-> {}]
NoCursor == [snapshot |-> {}, selection |-> NoSelection, offset |-> 0]
NoQuery == [sel |-> NoSelection, max_facts |-> 0, max_bytes |-> 0, cursor |-> NoCursor]
NoAnswer == [graph |-> {}, ledger |-> 0, cites |-> {}]
EnvelopeBytes == 1
CursorBytes == 1
MaxHops == 3

NodesOf(facts) == {f \in facts : f.ends = {}}
InOrder(facts) == [i \in 1..Cardinality(facts) |->
                      CHOOSE f \in facts : Cardinality({g \in facts : g.key <= f.key}) = i]
FactAt(facts, key) == CHOOSE f \in facts : f.key = key
Total(s) == LET sum[n \in 0..Len(s)] == IF n = 0 THEN 0 ELSE sum[n - 1] + s[n] IN sum[Len(s)]

-----------------------------------------------------------------------------
(* The context service: pages of an immutable snapshot.                    *)

\* An edge to a node outside the snapshot makes no neighbour.
Neighborhood(facts, anchor, hops) ==
    LET ids == {f.key : f \in NodesOf(facts)}
        inner == {e.ends : e \in {f \in facts \ NodesOf(facts) : f.ends \subseteq ids}}
        near[h \in 0..hops] ==
            IF h = 0 THEN {anchor}
            ELSE near[h - 1] \cup UNION {e \in inner : e \cap near[h - 1] # {}}
    IN  near[hops]

ScopeFacts(facts, scope) ==
    IF scope = All THEN facts
    ELSE LET ids == Neighborhood(facts, scope.anchor, scope.hops)
         IN  {f \in facts : IF f.ends = {} THEN f.key \in ids ELSE f.ends \subseteq ids}

AnchorKnown(facts, scope) == scope = All \/ \E f \in NodesOf(facts) : f.key = scope.anchor

SelectedFacts(facts, sel) ==
    InOrder({f \in ScopeFacts(facts, sel.scope) :
                /\ sel.kind = "any" \/ (sel.kind = "node") = (f.ends = {})
                /\ sel.labels = {} \/ f.label \in sel.labels})

\* In what follows all is the selection of the query.
CursorAt(facts, all, sel, n) ==
    IF n < Len(all) THEN [snapshot |-> facts, selection |-> sel, offset |-> n] ELSE NoCursor

Page(facts, all, q, n) ==
    [facts |-> SubSeq(all, q.cursor.offset + 1, q.cursor.offset + n),
     next |-> CursorAt(facts, all, q.sel, q.cursor.offset + n)]

PageSize(page) == EnvelopeBytes + Total([i \in DOMAIN page.facts |-> page.facts[i].bytes])
                  + (IF page.next = NoCursor THEN 0 ELSE CursorBytes)

ValidLimits(q) ==
    /\ q.max_facts >= 1 /\ q.max_bytes >= 1
    /\ q.sel.scope = All \/ q.sel.scope.hops \in 1..MaxHops

QueryAccepted(facts, q) ==
    /\ ValidLimits(q)
    /\ AnchorKnown(facts, q.sel.scope)
    /\ q.cursor # NoCursor => /\ q.cursor.snapshot = facts
                              /\ q.cursor.selection = q.sel
                              /\ q.cursor.offset <= Len(SelectedFacts(facts, q.sel))

\* The numbers of facts that fit: one after the other, none is skipped.
FittingCounts(facts, all, q, most) ==
    LET rest == Len(all) - q.cursor.offset
    IN  {n \in 0..rest : /\ n <= most
                         /\ n = 0 => rest = 0
                         /\ \A m \in 0..n : m > 0 \/ rest = 0 =>
                                PageSize(Page(facts, all, q, m)) <= q.max_bytes}

\* The page, if the first of its facts fits.
LongestPage(facts, all, q, fits) ==
    {Page(facts, all, q, n) : n \in {n \in fits : \A m \in fits : m <= n}}

PageOf(facts, all, q, most) == LongestPage(facts, all, q, FittingCounts(facts, all, q, most))

ContextQuery(facts, q, most) == PageOf(facts, SelectedFacts(facts, q.sel), q, most)

-----------------------------------------------------------------------------
(* The ledger: what was supplied to the model, and what it may cite.       *)

GraphCites(l) == {i \in DOMAIN l.cites : l.cites[i].origin = "graph"}
SourceCites(l) == DOMAIN l.cites \ GraphCites(l)
SourceBytes(l) == Total([i \in DOMAIN l.cites |-> l.cites[i].span])
Validated(l) == {i \in DOMAIN l.cites : l.cites[i].origin = "captured"}

ValidCitation(l, c) ==
    \E s \in l.selected :
        /\ s.fact.key = c.key /\ s.fact = c.digest
        /\ c.origin = "tree" => s.receipt = Unbound
        /\ c.origin = "captured" => s.receipt = c.receipt /\ c.receipt \in l.receipts
        /\ c.origin # "graph" => c.span \in 1..MaxSpan

ValidLedger(l) ==
    /\ Cardinality(l.selected) <= MaxSelected
    /\ Cardinality({s.fact.key : s \in l.selected}) = Cardinality(l.selected)
    /\ l.receipts = {s.receipt : s \in l.selected} \ {Unbound}
    /\ \A i \in DOMAIN l.cites : ValidCitation(l, l.cites[i])
    /\ \A i, j \in DOMAIN l.cites : l.cites[i].id = l.cites[j].id => i = j
    /\ \A i, j \in GraphCites(l) : l.cites[i].key = l.cites[j].key => i = j
    /\ Cardinality(GraphCites(l)) = Cardinality(l.selected)
    /\ Cardinality(SourceCites(l)) <= MaxEvidence
    /\ SourceBytes(l) <= MaxEvidenceBytes
    /\ Cardinality(Validated(l)) <= MaxValidations
    /\ Len(l.queries) <= MaxTools
    /\ \A i \in DOMAIN l.queries :
          LET m == l.queries[i]
          IN  /\ ValidLimits(m.query)
              /\ m.bytes \in 1..m.query.max_bytes
              /\ m.returned <= m.query.max_facts /\ m.returned <= m.total
              /\ m.query.cursor # NoCursor => m.query.cursor.snapshot = l.scope
    /\ Total([i \in DOMAIN l.queries |-> l.queries[i].bytes]) <= MaxTotalBytes
    /\ Total([i \in DOMAIN l.queries |-> l.queries[i].returned]) >= Cardinality(l.selected)

NoLedger == [graph |-> {}, scope |-> {}, revision |-> 0, selected |-> {}, receipts |-> {},
             cites |-> <<>>, queries |-> <<>>]
NoUsage == [tools |-> 0, selected |-> 0, items |-> 0, bytes |-> 0, charged |-> 0]

\* The job store's own comparison of the new ledger with the saved one.
AdmitsInput(l, usage) ==
    LET prior == saved.ledger
    IN  /\ usage.tools = saved.usage.tools /\ usage.charged = saved.usage.charged
        /\ usage.selected = Cardinality(l.selected)
        /\ usage.selected >= saved.usage.selected
        /\ usage.items = Cardinality(SourceCites(l)) /\ usage.items >= saved.usage.items
        /\ usage.bytes = SourceBytes(l) /\ usage.bytes >= saved.usage.bytes
        /\ Cardinality(Validated(l)) <= usage.charged
        /\ l.revision > prior.revision
        /\ l.graph = prior.graph /\ l.scope = prior.scope
        /\ prior.selected \subseteq l.selected
        /\ prior.receipts \subseteq l.receipts
        /\ Range(prior.cites) \subseteq Range(l.cites)
        /\ IsPrefix(prior.queries, l.queries)

\* The input of a model step: the bytes in memory are those of the ledger.
InputPrepares ==
    LET l == frozen.ledger
    IN  /\ ValidLedger(l)
        /\ Len(frozen.pages) = Len(l.queries)
        /\ \A i \in DOMAIN frozen.pages : frozen.pages[i].bytes = l.queries[i].bytes
        /\ {<<e.id, e.span>> : e \in Range(frozen.evidence)} =
           {<<l.cites[i].id, l.cites[i].span>> : i \in SourceCites(l)}

-----------------------------------------------------------------------------
(* The calls.                                                              *)

NoCall == [at |-> "start", why |-> "", query |-> NoQuery, key |-> 0, index |-> 0, early |-> {}]

NoContext == [graph |-> {}, facts |-> {}, ledger |-> NoLedger, pages |-> <<>>,
              evidence |-> <<>>]

\* The context is the worker's own and goes with it.
Ends(why) == /\ call' = [NoCall EXCEPT !.at = "ended", !.why = why]
             /\ frozen' = NoContext
             /\ UNCHANGED <<saved, answer>>

ContextInit ==
    /\ live \in LiveGraphs
    /\ frozen = NoContext
    /\ saved = [ledger |-> NoLedger, usage |-> NoUsage]
    /\ call = NoCall
    /\ answer = NoAnswer

\* The facts of the scope, frozen; the first ledger names both snapshots.
FreezeContext(scope, expected) ==
    /\ call.at = "start"
    /\ LET facts == ScopeFacts(live.facts, scope)
           ledger == [NoLedger EXCEPT !.graph = live.facts, !.scope = facts]
       IN  \/ expected # live.facts /\ Ends("changed")
           \/ expected = live.facts /\ ~AnchorKnown(live.facts, scope) /\ Ends("invalid")
           \/ /\ expected = live.facts /\ AnchorKnown(live.facts, scope)
              /\ frozen' = [frozen EXCEPT !.graph = live.facts, !.facts = facts,
                                          !.ledger = ledger]
              /\ saved' = [saved EXCEPT !.ledger = ledger]
              /\ call' = [NoCall EXCEPT !.at = "ready"]
              /\ UNCHANGED answer
    /\ UNCHANGED live

\* The live selection of some facts, when the graph is the frozen one and what
\* was selected before is unchanged.
LiveSelection(keys) == {[fact |-> f, receipt |-> live.bound[f.key]] :
                           f \in {g \in live.facts : g.key \in keys}}

SelectFactsOK(keys) == /\ live.facts = frozen.graph
                       /\ frozen.ledger.selected \subseteq LiveSelection(keys)

PriorKeys == {s.fact.key : s \in frozen.ledger.selected}
KeysOf(facts) == {facts[i].key : i \in DOMAIN facts}

Usage(tools) == [saved.usage EXCEPT !.tools = @ + tools]

\* The preliminary selection of what the first page names.
Begins(q, keys) ==
    \/ Cardinality(keys) > MaxSelected /\ Ends("limit")
    \/ /\ Cardinality(keys) <= MaxSelected
       /\ ~SelectFactsOK(keys) /\ Ends("changed")
    \/ /\ Cardinality(keys) <= MaxSelected
       /\ SelectFactsOK(keys)
       /\ call' = [NoCall EXCEPT !.at = "query", !.query = q, !.early = LiveSelection(keys)]
       /\ saved' = [saved EXCEPT !.usage = Usage(1)]
       /\ UNCHANGED <<frozen, answer>>

\* The action is admitted and its tool begins: one tool action is charged.
StartQuery(q) ==
    /\ call.at = "ready" /\ saved.usage.tools < MaxTools
    /\ \/ ~QueryAccepted(frozen.facts, q) /\ Ends("invalid")
       \/ QueryAccepted(frozen.facts, q) /\
            \/ ContextQuery(frozen.facts, q, q.max_facts) = {} /\ Ends("limit")
            \/ \E page \in ContextQuery(frozen.facts, q, q.max_facts) :
                   Begins(q, PriorKeys \cup KeysOf(page.facts))
    /\ UNCHANGED live

\* The response adds the evidence that each fact offers to the page.
ResponseSize(page) ==
    PageSize(page) + Total([i \in DOMAIN page.facts |-> Len(page.facts[i].spans)])

\* A fault: the first page, cut.
CutPage(q, first) ==
    LET fits == {n \in 0..Len(first.facts) :
                    ResponseSize([first EXCEPT !.facts = SubSeq(@, 1, n)]) <= q.max_bytes}
    IN  {[first EXCEPT !.facts = SubSeq(@, 1, n)] : n \in {n \in fits : \A m \in fits : m <= n}}

\* The longest page, not longer than the first one, whose response fits.  The
\* service makes it anew, so that its cursor continues after what it holds.
Shrunk(q, first) ==
    LET pages == {first} \cup UNION {ContextQuery(frozen.facts, q, n) : n \in 1..(Len(first.facts) - 1)}
        fits == {p \in pages : ResponseSize(p) <= q.max_bytes}
    IN  {p \in fits : \A o \in fits : Len(o.facts) <= Len(p.facts)}

Response(q) == UNION {Shrunk(q, first) : first \in ContextQuery(frozen.facts, q, q.max_facts)}

\* Every fact returned for the first time gets a citation of its own.
CitesWith(cites, selected, facts) ==
    LET graph == {i \in DOMAIN cites : cites[i].origin = "graph"}
        cited == {cites[i].key : i \in graph}
        new == InOrder({f \in Range(facts) : f.key \notin cited})
    IN  cites \o [i \in DOMAIN new |->
                      [id |-> <<"fact", Cardinality(graph) + i>>, key |-> new[i].key,
                       digest |-> (CHOOSE s \in selected : s.fact.key = new[i].key).fact,
                       span |-> 0, origin |-> "graph", receipt |-> Unbound]]

\* A fault: only the facts of this page stay selected.
LedgerOfPage(q, page) ==
    LET selected == {s \in call.early : s.fact.key \in KeysOf(page.facts)}
    IN  [frozen.ledger EXCEPT
            !.revision = @ + 1,
            !.selected = selected,
            !.receipts = {s.receipt : s \in selected} \ {Unbound},
            !.cites = CitesWith(@, selected, page.facts),
            !.queries = Append(@, [query |-> q, bytes |-> ResponseSize(page),
                                   returned |-> Len(page.facts),
                                   total |-> Len(SelectedFacts(frozen.facts, q.sel))])]

LedgerAfterQuery(q, page) ==
    LET l == frozen.ledger
        returned == PriorKeys \cup KeysOf(page.facts)
        selected == {s \in call.early : s.fact.key \in returned}
    IN  [l EXCEPT !.revision = @ + 1,
                  !.selected = selected,
                  !.receipts = {s.receipt : s \in selected} \ {Unbound},
                  !.cites = CitesWith(@, selected, page.facts),
                  !.queries = Append(@, [query |-> q, bytes |-> ResponseSize(page),
                                         returned |-> Len(page.facts),
                                         total |-> Len(SelectedFacts(frozen.facts, q.sel))])]

\* History: what a model that followed the cursors was shown so far, if it did.
SeenBefore(cursor) ==
    IF cursor = NoCursor THEN [known |-> TRUE, facts |-> <<>>]
    ELSE LET from == {i \in DOMAIN frozen.pages : frozen.pages[i].next = cursor}
         IN  IF from = {} THEN [known |-> FALSE, facts |-> <<>>]
             ELSE frozen.pages[CHOOSE i \in from : TRUE].seen

PageRecord(q, page) ==
    [sel |-> q.sel, facts |-> page.facts, next |-> page.next, bytes |-> ResponseSize(page),
     seen |-> [SeenBefore(q.cursor) EXCEPT !.facts = @ \o page.facts]]

\* The ledger is validated, admitted by the job store and only then kept.
PublishInput(ledger, usage, context) ==
    \/ ~(ValidLedger(ledger) /\ AdmitsInput(ledger, usage)) /\ Ends("refused")
    \/ /\ ValidLedger(ledger) /\ AdmitsInput(ledger, usage)
       /\ saved' = [ledger |-> ledger, usage |-> usage]
       /\ frozen' = context
       /\ call' = [NoCall EXCEPT !.at = "ready"]
       /\ UNCHANGED answer

QueryBytes(l) == Total([i \in DOMAIN l.queries |-> l.queries[i].bytes])

SupplyPage(q, page, ledger) ==
    \/ QueryBytes(ledger) > MaxTotalBytes /\ Ends("limit")
    \/ /\ QueryBytes(ledger) <= MaxTotalBytes
       /\ PublishInput(ledger,
              [saved.usage EXCEPT !.selected = Cardinality(ledger.selected)],
              [frozen EXCEPT !.ledger = ledger, !.pages = Append(@, PageRecord(q, page))])

\* The authoritative selection is the preliminary one, else the call fails.
SelectedAsBefore(keys) == SelectFactsOK(keys) /\ LiveSelection(keys) = call.early

FinishQuery ==
    /\ call.at = "query"
    /\ LET unchanged == SelectedAsBefore({s.fact.key : s \in call.early})
       IN  \/ ~unchanged /\ Ends("changed")
           \/ unchanged /\ Response(call.query) = {} /\ Ends("limit")
           \/ unchanged /\ \E page \in Response(call.query) :
                                 SupplyPage(call.query, page, LedgerAfterQuery(call.query, page))
    /\ UNCHANGED live

\* The span that the fact names, by its index; only a fact without a binding
\* is read from the working tree.
StartEvidence(key, index) ==
    /\ call.at = "ready" /\ saved.usage.tools < MaxTools
    /\ \/ key \notin PriorKeys /\ Ends("invalid")
       \/ key \in PriorKeys /\ Len(frozen.evidence) >= MaxEvidence /\ Ends("limit")
       \/ /\ key \in PriorKeys /\ Len(frozen.evidence) < MaxEvidence
          /\ ~SelectFactsOK(PriorKeys) /\ Ends("changed")
       \/ /\ key \in PriorKeys /\ Len(frozen.evidence) < MaxEvidence
          /\ SelectFactsOK(PriorKeys)
          /\ index \notin DOMAIN FactAt(frozen.graph, key).spans /\ Ends("unavailable")
       \/ /\ key \in PriorKeys /\ Len(frozen.evidence) < MaxEvidence
          /\ SelectFactsOK(PriorKeys)
          /\ index \in DOMAIN FactAt(frozen.graph, key).spans
          /\ call' = [NoCall EXCEPT !.at = "evidence", !.key = key, !.index = index,
                                    !.early = LiveSelection(PriorKeys)]
          /\ saved' = [saved EXCEPT !.usage = Usage(1)]
          /\ UNCHANGED <<frozen, answer>>
    /\ UNCHANGED live

SelectedAt(key) == CHOOSE s \in frozen.ledger.selected : s.fact.key = key
SpanOf(key, index) == FactAt(frozen.graph, key).spans[index]

EvidenceFits == /\ SpanOf(call.key, call.index) \in 1..MaxSpan
                /\ saved.usage.bytes + SpanOf(call.key, call.index) <= MaxEvidenceBytes

IsCaptured(key) == SelectedAt(key).receipt # Unbound

\* Under the guards nothing changed.  The validation of a captured file is
\* charged, durably, before the file is read.
ReserveValidation ==
    /\ call.at = "evidence"
    /\ LET unchanged == SelectedAsBefore(PriorKeys)
           charged == saved.usage.charged + (IF IsCaptured(call.key) THEN 1 ELSE 0)
           fits == EvidenceFits /\ charged <= MaxValidations
       IN  \/ ~unchanged /\ Ends("changed")
           \/ unchanged /\ ~fits /\ Ends("limit")
           \/ /\ unchanged /\ fits
              /\ saved' = [saved EXCEPT !.usage.charged = charged]
              /\ call' = [call EXCEPT !.at = "reading"]
              /\ UNCHANGED <<frozen, answer>>
    /\ UNCHANGED live

LedgerAfterEvidence(id) ==
    LET s == SelectedAt(call.key)
    IN  [frozen.ledger EXCEPT
            !.revision = @ + 1,
            !.cites = Append(@, [id |-> id, key |-> call.key, digest |-> s.fact,
                                 span |-> SpanOf(call.key, call.index),
                                 origin |-> IF IsCaptured(call.key) THEN "captured" ELSE "tree",
                                 receipt |-> s.receipt])]

\* The text is there or is not.
FinishEvidence ==
    /\ call.at = "reading"
    /\ LET span == SpanOf(call.key, call.index)
           id == <<"evidence", Len(frozen.evidence) + 1>>
           ledger == LedgerAfterEvidence(id)
       IN  \/ Ends("unavailable")
           \/ PublishInput(ledger,
                  [saved.usage EXCEPT !.items = @ + 1, !.bytes = @ + span],
                  [frozen EXCEPT !.ledger = ledger,
                                 !.evidence = Append(@, [id |-> id, key |-> call.key,
                                                         span |-> span])])
    /\ UNCHANGED live

\* The final answer cites what the last ledger lists; it keeps that ledger's
\* identity.  Anything else is an invalid response.
AdmitResult(cites) ==
    /\ call.at = "ready"
    /\ \/ /\ ~(cites \subseteq {c.id : c \in Range(frozen.ledger.cites)})
          /\ Ends("invalid response")
       \/ /\ cites \subseteq {c.id : c \in Range(frozen.ledger.cites)}
          /\ answer' = [graph |-> frozen.ledger.graph, ledger |-> frozen.ledger.revision,
                        cites |-> cites]
          /\ call' = [NoCall EXCEPT !.at = "answered"]
          /\ UNCHANGED <<frozen, saved>>
    /\ UNCHANGED live

\* A recovery publishes other facts or other bindings, between any two reads.
GraphMoves ==
    /\ call.at \in {"start", "ready", "query", "evidence", "reading"}
    /\ live' \in LiveGraphs \ {live}
    /\ UNCHANGED <<frozen, saved, call, answer>>

\* A model sends back a cursor it was given, or one it made up.
Cursors == {NoCursor} \cup {p.next : p \in Range(frozen.pages)}
           \cup {[snapshot |-> frozen.graph, selection |-> s, offset |-> 1] : s \in Selections}

Queries == [sel : Selections, max_facts : PageFacts, max_bytes : PageBytes, cursor : Cursors]

ContextNext ==
    \/ \E scope \in TaskScopes, g \in LiveGraphs : FreezeContext(scope, g.facts)
    \/ \E q \in Queries : StartQuery(q)
    \/ FinishQuery
    \/ \E f \in frozen.graph, i \in 1..2 : StartEvidence(f.key, i)
    \/ ReserveValidation
    \/ FinishEvidence
    \/ \E cites \in {{}} \cup {{c.id} : c \in Range(frozen.ledger.cites)}
                    \cup {{<<"evidence", MaxEvidence>>}} : AdmitResult(cites)
    \/ GraphMoves

ContextSpec == ContextInit /\ [][ContextNext]_contextVars

-----------------------------------------------------------------------------
\* Following the cursors shows the selection, in order and without a hole, to
\* its end, also when the host shortened a page to fit the evidence it offers.
NothingSkipped ==
    \A i \in DOMAIN frozen.pages :
        LET p == frozen.pages[i]
            all == SelectedFacts(frozen.facts, p.sel)
        IN  p.seen.known => /\ p.seen.facts = SubSeq(all, 1, Len(p.seen.facts))
                            /\ p.next = NoCursor => p.seen.facts = all

\* No fact outside the scope the user allowed, and none that is not a fact of
\* the graph as it was frozen, is ever supplied.
ScopeKept ==
    /\ \A i \in DOMAIN frozen.pages : Range(frozen.pages[i].facts) \subseteq frozen.facts
    /\ \A s \in frozen.ledger.selected : s.fact \in frozen.facts
    /\ frozen.facts \subseteq frozen.graph

\* What a call builds is never refused afterwards, as a ledger, as an extension
\* of the saved one or as the next input; a call fails for a limit, for changed
\* input or for unavailable source only.
BuiltIsAdmitted ==
    /\ call.why # "refused"
    /\ call.at = "ready" => InputPrepares /\ frozen.ledger = saved.ledger

\* An answer cites facts that a page showed and spans that were supplied.
AnswerIsBacked ==
    \A id \in answer.cites : \E c \in Range(saved.ledger.cites) :
        /\ c.id = id /\ answer.graph = saved.ledger.graph
        /\ \/ c.origin = "graph" /\ \E p \in Range(frozen.pages) : c.digest \in Range(p.facts)
           \/ \E e \in Range(frozen.evidence) : e.id = id /\ e.key = c.key

\* The model is shown the allowed scope of one frozen graph without holes, what
\* it is shown is what the saved ledger says, and its answer rests on that
\* (context.rs and evidence.rs over the pages of the context service).
ContextIsWhole == NothingSkipped /\ ScopeKept /\ BuiltIsAdmitted /\ AnswerIsBacked

-----------------------------------------------------------------------------
\* The inductive invariant.  The keys of a graph are unique.
KeysFit(facts) ==
    /\ IsFiniteSet(facts)
    /\ \A f \in facts : f.key \in Int /\ f.bytes \in Nat /\ f.spans \in Seq(Nat)
    /\ \A f, g \in facts : f.key = g.key => f = g

ASSUME ContextAssumption ==
    /\ {MaxTools, MaxSelected, MaxTotalBytes, MaxEvidence, MaxEvidenceBytes, MaxSpan, MaxValidations} \subseteq Nat
    /\ PageFacts \cup PageBytes \subseteq Nat
    /\ \A g \in LiveGraphs : KeysFit(g.facts)

IsSeq(s) == s \in Seq(Range(s))
EarlyKeys == {s.fact.key : s \in call.early}

\* What was frozen, and the selection from it.
SnapshotFits ==
    LET l == frozen.ledger
    IN  /\ KeysFit(frozen.graph) /\ frozen.facts \subseteq frozen.graph
        /\ l.graph = frozen.graph /\ l.scope = frozen.facts /\ l.revision \in Nat
        /\ l.selected \subseteq [fact : frozen.facts, receipt : {s.receipt : s \in l.selected}]

\* Pages that continue one another hold a prefix of the selection, and the
\* cursor of the last one stands behind it.
PagesFit ==
    /\ IsSeq(frozen.pages) /\ IsSeq(frozen.ledger.queries)
    /\ \A i \in DOMAIN frozen.pages :
          LET p == frozen.pages[i]
          IN  /\ p.facts \in Seq(frozen.facts) /\ p.bytes \in Nat
              /\ p.seen \in [known : BOOLEAN, facts : Seq(frozen.facts)]
              /\ p.next.offset \in Nat
              /\ p.next # NoCursor => p.next = [snapshot |-> frozen.facts, selection |-> p.sel, offset |-> p.next.offset]
              /\ p.next # NoCursor /\ p.seen.known => p.next.offset = Len(p.seen.facts)
    /\ \A i \in DOMAIN frozen.ledger.queries : {frozen.ledger.queries[i].bytes, frozen.ledger.queries[i].returned} \subseteq Nat
    /\ NothingSkipped

\* Facts and spans are numbered as they are supplied, and both are still there.
CitesFit ==
    LET l == frozen.ledger
    IN  /\ IsSeq(l.cites) /\ IsSeq(frozen.evidence)
        /\ \A i \in DOMAIN l.cites : l.cites[i].span \in Nat
        /\ {l.cites[i].key : i \in GraphCites(l)} = {s.fact.key : s \in l.selected}
        /\ Len(frozen.evidence) = Cardinality(SourceCites(l))
        /\ \A i \in GraphCites(l) :
              /\ \E n \in 1..Cardinality(GraphCites(l)) : l.cites[i].id = <<"fact", n>>
              /\ \E p \in Range(frozen.pages) : l.cites[i].digest \in Range(p.facts)
        /\ \A i \in SourceCites(l) :
              /\ \E n \in 1..Len(frozen.evidence) : l.cites[i].id = <<"evidence", n>>
              /\ \E e \in Range(frozen.evidence) : e.id = l.cites[i].id /\ e.key = l.cites[i].key

\* The usage is that of the ledger; tools and validations are charged first.
UsageFits ==
    LET l == frozen.ledger
        u == saved.usage
    IN  /\ u \in [tools : Nat, selected : Nat, items : Nat, bytes : Nat, charged : Nat]
        /\ u.selected = Cardinality(l.selected) /\ u.items = Cardinality(SourceCites(l)) /\ u.bytes = SourceBytes(l)
        /\ Len(l.queries) <= u.tools /\ u.tools <= MaxTools
        /\ Cardinality(Validated(l)) <= u.charged /\ u.charged <= MaxValidations

\* What was selected early covers the page that will be supplied.
QueryFits ==
    /\ call.query \in Queries /\ QueryAccepted(frozen.facts, call.query)
    /\ Len(frozen.ledger.queries) < saved.usage.tools
    /\ IsFiniteSet(call.early) /\ Cardinality(EarlyKeys) <= MaxSelected
    /\ PriorKeys \subseteq EarlyKeys
    /\ \A page \in ContextQuery(frozen.facts, call.query, call.query.max_facts) : KeysOf(page.facts) \subseteq EarlyKeys

EvidenceCallFits ==
    /\ call.key \in PriorKeys /\ Len(frozen.evidence) < MaxEvidence
    /\ call.at = "reading" =>
          /\ EvidenceFits
          /\ Cardinality(Validated(frozen.ledger)) + (IF IsCaptured(call.key) THEN 1 ELSE 0) <= saved.usage.charged

ShapesFit ==
    /\ frozen = [graph |-> frozen.graph, facts |-> frozen.facts, ledger |-> frozen.ledger, pages |-> frozen.pages,
                 evidence |-> frozen.evidence]
    /\ LET l == frozen.ledger
       IN  l = [graph |-> l.graph, scope |-> l.scope, revision |-> l.revision, selected |-> l.selected,
                receipts |-> l.receipts, cites |-> l.cites, queries |-> l.queries]
    /\ saved = [ledger |-> saved.ledger, usage |-> saved.usage]
    /\ call = [at |-> call.at, why |-> call.why, query |-> call.query, key |-> call.key, index |-> call.index,
               early |-> call.early]

ContextInv ==
    /\ live \in LiveGraphs /\ ShapesFit
    /\ call.at \in {"start", "ready", "query", "evidence", "reading", "answered", "ended"} /\ call.why # "refused"
    /\ call.at \in {"start", "ended"} => frozen = NoContext
    /\ call.at = "start" => saved = [ledger |-> NoLedger, usage |-> NoUsage]
    /\ call.at # "answered" => answer = NoAnswer
    /\ call.at \notin {"start", "ended"} =>
          /\ frozen.ledger = saved.ledger /\ InputPrepares
          /\ SnapshotFits /\ PagesFit /\ CitesFit /\ UsageFits
    /\ call.at = "query" => QueryFits
    /\ call.at \in {"evidence", "reading"} => EvidenceCallFits
    /\ call.at = "answered" => AnswerIsBacked
=============================================================================
