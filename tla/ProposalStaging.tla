-------------------------- MODULE ProposalStaging --------------------------
(***************************************************************************)
(* The broker's contract on a model's answer (agents/lib.rs) and the store *)
(* that keeps the answers for review (agents/staging.rs).                  *)
(*                                                                         *)
(* An answer is [target, citations, bytes, replays]: the node it proposes, *)
(* the evidence ids it cites in order, the size of its annotation and      *)
(* whether that repeats supplied text.  A proposal carries the citations   *)
(* as references into the sources, no longer as ids.  A stored row is      *)
(* [content, rev, decision, note]; its position is its sequence number.    *)
(***************************************************************************)
EXTENDS TaskEvidence

CONSTANTS
    AllowedLabels,     \* edge labels the broker may propose
    MaxRecord,         \* bytes of one staged record
    PageItems          \* rows of one page of history

ASSUME StagingAssumption == MaxRecord \in Nat /\ PageItems \in Nat \ {0}

-----------------------------------------------------------------------------
(* AgentBroker                                                             *)

Ids(t) == {e.id : e \in Range(t.evidence)}

(* validate_task: ids are unique by construction, evidence counts and      *)
(* candidates within bounds, every membership names supplied evidence.     *)
ValidTask(t) ==
    /\ t.label \in AllowedLabels
    /\ t.evidence # <<>> /\ t.candidates # <<>> /\ t.sources # <<>>
    /\ WithinBytes(t)
    /\ Cardinality({c.node : c \in Range(t.candidates)}) = Len(t.candidates)
    /\ Range(t.sources) \subseteq Ids(t)
    /\ \A c \in Range(t.candidates) : c.ids # {} /\ c.ids \subseteq Ids(t)

(* PreparedAgentTask::new                                                  *)
Preparable(t) == ValidTask(t) /\ BasisAccounts(t)

Candidate(t, target) == Take(t.candidates, LAMBDA c : c.node = target)

(* validate_response_with_basis: a supplied target, distinct supplied      *)
(* citations, one of the source side and one of the target.                *)
ValidAnswer(t, raw) ==
    /\ Has(t.candidates, LAMBDA c : c.node = raw.target)
    /\ IsInjective(raw.citations) /\ Range(raw.citations) \subseteq Ids(t)
    /\ Range(raw.citations) \cap Range(t.sources) # {}
    /\ Range(raw.citations) \cap Candidate(t, raw.target).ids # {}

RefOf(t, id) == Take(t.evidence, LAMBDA e : e.id = id).ref

(* The proposal, whose basis is the task and its source basis without the  *)
(* action id (prepared_basis_hash).                                        *)
ProposalOf(t, raw) ==
    [target |-> raw.target, refs |-> [i \in DOMAIN raw.citations |-> RefOf(t, raw.citations[i])],
     bytes |-> raw.bytes, replays |-> raw.replays, basis |-> t]

-----------------------------------------------------------------------------
(* Finding the cited evidence again from the references alone.             *)

Matches(t, refs) ==
    {f \in [DOMAIN refs -> Ids(t)] : IsInjective(f) /\ \A i \in DOMAIN refs : RefOf(t, f[i]) = refs[i]}

(* Faulty variant: each reference takes the first unused evidence.         *)
CitationAssignmentsGreedy(t, target, refs) ==
    {f \in Matches(t, refs) :
        /\ \A i \in DOMAIN refs, e \in Ids(t) :
              RefOf(t, e) = refs[i] /\ (\A j \in 1..i - 1 : f[j] # e) => f[i] <= e
        /\ Range(f) \cap Range(t.sources) # {} /\ Range(f) \cap Candidate(t, target).ids # {}}

(* citation_assignment: the assignments of distinct evidence to the        *)
(* references that reach both sides; the search tries them all.            *)
CitationAssignments(t, target, refs) ==
    {f \in Matches(t, refs) :
        /\ Range(f) \cap Range(t.sources) # {}
        /\ Range(f) \cap Candidate(t, target).ids # {}}

(* match_citations and the second validate_response: the proposal is one   *)
(* the broker makes of this task.                                          *)
Reconstructed(t, p) ==
    \E f \in CitationAssignments(t, p.target, p.refs) :
        LET raw == [target |-> p.target, citations |-> f, bytes |-> p.bytes, replays |-> p.replays]
        IN  ValidAnswer(t, raw) /\ ProposalOf(t, raw) = p

-----------------------------------------------------------------------------
(* ProposalStore                                                           *)

(* The size of a record: its content and what the review adds to it, a     *)
(* revision that grows in digits (two stand for the longest), a decision   *)
(* with its time and a note.                                               *)
LongestRevision == 2
RevisionBytes(rev) == IF rev < LongestRevision THEN 1 ELSE 2
RecordBytes(row) ==
    row.content.bytes + RevisionBytes(row.rev) + (IF row.rev = 0 THEN 0 ELSE 1) + row.note

NewRow(content) == [content |-> content, rev |-> 0, decision |-> "none", note |-> 0]
Rejected(row, rev) == [row EXCEPT !.rev = rev, !.decision = "rejected", !.note = 0]

(* Faulty variant: room is asked for the next review only.                 *)
NextReviewFits(row) == RecordBytes(Rejected(row, row.rev + 1)) <= MaxRecord

(* check_review_headroom: a rejection without a note at the longest        *)
(* revision.                                                               *)
ReviewHeadroom(row) == RecordBytes(Rejected(row, LongestRevision)) <= MaxRecord

(* StageContent::validate: the stored manifest alone, without the texts,   *)
(* still satisfies the broker's bounds and explains the citations.         *)
ManifestValid(t, p) ==
    /\ ValidTask(t)
    /\ Has(t.candidates, LAMBDA c : c.node = p.target)
    /\ CitationAssignments(t, p.target, p.refs) # {}

(* StageContentV2::build and validate                                      *)
Buildable(t, p) ==
    /\ ~p.replays /\ p.bytes <= MaxRecord
    /\ Preparable(t) /\ Reconstructed(t, p) /\ ManifestValid(t, p)

Content(t, p, job) ==
    [job |-> job, snapshot |-> t.snapshot, target |-> p.target, refs |-> p.refs, bytes |-> p.bytes,
     gap |-> t.gap]

(* persist: an equal content is stored once, under the identity it hashes  *)
(* to; a record that leaves no room for a review is not stored.            *)
Fits(content) ==
    RecordBytes(NewRow(content)) <= MaxRecord /\ ReviewHeadroom(NewRow(content))
Persisted(rows, content) ==
    IF Has(rows, LAMBDA r : r.content = content) THEN rows ELSE Append(rows, NewRow(content))

(* Faulty variant: the revision that was seen is not asked.                *)
AnyRevision(row, expected) == TRUE

(* review: compare and set on the revision.                                *)
CurrentRevision(row, expected) == row.rev = expected

Reviewed(row, decision, note) ==
    [row EXCEPT !.rev = @ + 1, !.decision = decision, !.note = note]

(* Faulty variant: the cursor is the row that did not fit the page.        *)
NextCursorSkips(page, ceiling, older) ==
    IF older = {} THEN {}
    ELSE {[ceiling |-> ceiling, before |-> CHOOSE s \in older : \A o \in older : o <= s]}

(* list: a page of the rows up to the ceiling fixed by the first page,     *)
(* newest first, and the cursor of the next one when a row remains.        *)
NextCursor(page, ceiling, older) ==
    IF older = {} THEN {} ELSE {[ceiling |-> ceiling, before |-> Last(page)]}

PageSequences(ceiling, before) ==
    LET upto == IF before - 1 < ceiling THEN before - 1 ELSE ceiling
        size == IF upto < PageItems THEN upto ELSE PageItems
    IN  [i \in 1..size |-> upto - i + 1]

Page(rows, cursor) ==
    LET ceiling == IF cursor = {} THEN Len(rows) ELSE (CHOOSE c \in cursor : TRUE).ceiling
        before == IF cursor = {} THEN Len(rows) + 1 ELSE (CHOOSE c \in cursor : TRUE).before
        page == PageSequences(ceiling, before)
        shown == Range(page)
    IN  [ceiling |-> ceiling, sequences |-> page,
         next |-> NextCursor(page, ceiling, {s \in 1..ceiling : s < before /\ s \notin shown})]
=============================================================================
