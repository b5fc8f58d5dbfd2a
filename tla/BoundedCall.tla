----------------------------- MODULE BoundedCall -----------------------------
(***************************************************************************)
(* A bounded model call of an investigation (crates/llm/src/bounded.rs):   *)
(* prepared to a redacted preview, authorised, encoded, sent once, read    *)
(* within its caps and decoded.  Every failure carries an outcome that     *)
(* says whether the provider saw the request; the worker retries nothing   *)
(* and derives its stop reason from that outcome.                          *)
(*                                                                         *)
(* Meanwhile the user approves previews, changes the policy, cancels, and  *)
(* the deadline passes; the provider receives or not, answers or not.  A   *)
(* byte of a response is a token; other texts are their sizes.             *)
(***************************************************************************)
EXTENDS Integers, Sequences, FiniteSets, SequencesExt

CONSTANTS
    Profiles,      \* [locality, scheme, loopback, plain]
    Actions,       \* [id, spans, raw, wire, body]: a payload and its sizes
    Responses,     \* [status, identity, length, bytes, stop, typed, parts, meta, tokens]
    Limits,        \* CompletionLimits: [input, request, response, output, tokens]
    Ceiling,       \* the largest limits
    ChunkBytes,    \* the read buffer
    MaxSpans, MaxNesting, MaxContainers, MaxParts

VARIABLES
    policy,        \* the cloud is allowed
    grants,        \* previews that the user approved
    directive,     \* what the host says: "continue", "cancelled" or "lost"
    expired,       \* the deadline has passed
    call,          \* the call
    wire           \* requests under way, received, and the answer

callVars == <<policy, grants, directive, expired, call, wire>>

LimitsValid(l) == \A k \in DOMAIN Ceiling : l[k] \in 1..Ceiling[k]
ASSUME CallLimitsAssumption == LimitsValid(Limits)
ASSUME CeilingAssumption == Ceiling \in [{"input", "request", "response", "output", "tokens"} -> Nat]
ASSUME ChunkAssumption == ChunkBytes \in Nat \ {0}

(* The spans of an action are a sequence of texts, the bytes of a response *)
(* one of tokens; sizes are counts.                                        *)
ASSUME ActionsAssumption ==
    \A a \in Actions :
        /\ a = [id |-> a.id, spans |-> a.spans, raw |-> a.raw, wire |-> a.wire, body |-> a.body]
        /\ a.spans \in Seq(ToSet(a.spans)) /\ a.body \in Nat
        /\ \A s \in ToSet(a.spans) : s = [id |-> s.id, redacted |-> s.redacted, nonempty |-> s.nonempty]
ASSUME ResponsesAssumption == \A r \in Responses : r.bytes \in Seq(ToSet(r.bytes))

ValidProfile(p) ==
    /\ p.plain /\ p.scheme \in {"http", "https"}
    /\ p.locality = "local" => p.scheme = "http" /\ p.loopback
    /\ p.locality = "cloud" /\ p.scheme = "http" => p.loopback

PolicyAllows(p) == p.locality = "cloud" => policy

(* Every failure before the request is executed is of this kind.           *)
NotSent(c, code) == [c EXCEPT !.pc = "failed", !.code = code, !.outcome = "not_dispatched"]
RejectedAs(c, code) == [c EXCEPT !.pc = "failed", !.code = code, !.outcome = "response_received"]
Unknown(c, code) == [c EXCEPT !.pc = "failed", !.code = code, !.outcome = "unknown"]

(* Checks in the code's order: the first that is bad fails the call.       *)
Bad(is, code) == [is |-> is, code |-> code]
FirstBad(checks) == SelectInSeq(checks, LAMBDA k : k.is)
Checked(c, checks, Failing(_, _), passed) ==
    IF FirstBad(checks) = 0 THEN passed ELSE Failing(c, checks[FirstBad(checks)].code)

(* Secrets go, in the spans' identifiers too.                              *)
RedactedPayload(a) == [a EXCEPT !.spans = [i \in DOMAIN a.spans |-> [a.spans[i] EXCEPT !.id = a.spans[i].redacted]]]

DistinctIds(spans) == \A i, j \in DOMAIN spans : spans[i].id = spans[j].id => i = j

SpansValid(a) == Len(a.spans) <= MaxSpans /\ DistinctIds(a.spans) /\ \A s \in ToSet(a.spans) : s.nonempty

(* Raw text, its encoding before and after redaction, and the hash input.  *)
InputFits(a) == a.raw <= Limits.input /\ a.wire <= Limits.input

Preview(p, a) == [profile |-> p, limits |-> Limits, payload |-> RedactedPayload(a)]

-----------------------------------------------------------------------------
CallInit ==
    /\ policy \in BOOLEAN /\ grants = {} /\ directive = "continue" /\ expired = FALSE
    /\ \E p \in Profiles, key \in BOOLEAN :
          call = [pc |-> "idle", profile |-> p, key |-> key, action |-> <<>>, preview |-> <<>>, body |-> <<>>,
                  code |-> "none", outcome |-> "none", text |-> 0]
    /\ wire = [underway |-> <<>>, received |-> <<>>, response |-> {}]

Step(pc, c) == call.pc = pc /\ call' = c /\ UNCHANGED <<policy, grants, directive, expired, wire>>

Prepare ==
    \E a \in Actions :
        Step("idle", Checked(call,
            <<Bad(~ValidProfile(call.profile), "invalid_profile"), Bad(~PolicyAllows(call.profile), "egress_denied"),
              Bad(~SpansValid(a), "invalid_input"), Bad(~InputFits(a), "input_too_large"),
              Bad(~DistinctIds(RedactedPayload(a).spans), "invalid_input")>>,
            NotSent, [call EXCEPT !.pc = "prepared", !.action = a, !.preview = Preview(call.profile, a)]))

(* Faulty variant: any grant opens the cloud.                              *)
ConsentedAtAll(c, consent) == call.profile.locality = "cloud" => consent # {}

(* A grant matches the preview of which it holds the hash.                 *)
ConsentMatches(c, consent) == call.profile.locality = "cloud" => consent = {c.preview}

(* authorize_bounded: the policy is read again after the human waiting.    *)
Authorise ==
    \E consent \in {{}} \cup {{g} : g \in grants} :
        Step("prepared", Checked(call,
            <<Bad(~PolicyAllows(call.profile), "egress_denied"),
              Bad(call.profile.locality = "cloud" /\ consent = {}, "consent_required"),
              Bad(~ConsentMatches(call, consent), "consent_mismatch")>>,
            NotSent, [call EXCEPT !.pc = "authorised"]))

(* check_control                                                           *)
Stopped == directive # "continue" \/ expired
StopCode == IF directive # "continue" THEN directive ELSE "deadline_exceeded"

(* complete_ollama and complete_anthropic up to acquire.                   *)
EncodeChecks(c) ==
    <<Bad(Stopped, StopCode), Bad(c.profile.locality = "cloud" /\ ~c.key, "invalid_profile"),
      Bad(c.action.body > Limits.request, "request_too_large")>>

Encode == Step("authorised", Checked(call, EncodeChecks(call), NotSent, [call EXCEPT !.pc = "encoded"]))

(* acquire checks before it builds the request and again before it sends.  *)
Build == Step("encoded", IF Stopped THEN NotSent(call, StopCode) ELSE [call EXCEPT !.pc = "built"])
Execute ==
    /\ call.pc = "built"
    /\ call' = IF Stopped THEN NotSent(call, StopCode) ELSE [call EXCEPT !.pc = "sending"]
    /\ wire' = [wire EXCEPT !.underway = IF Stopped THEN <<>> ELSE <<call.preview>>]
    /\ UNCHANGED <<policy, grants, directive, expired>>

(* Faulty variant: an error of the transport is taken for not sent.        *)
TransportNotSent(c) == NotSent(c, "transport")

(* An error of the connection, while sending or reading.                   *)
TransportError(c) == Unknown(c, IF expired THEN "deadline_exceeded" ELSE "transport")

TransportFails == \E pc \in {"sending", "reading"} : Step(pc, TransportError(call))

Received(c, r) ==
    Checked(c, <<Bad(~r.status, "http_status"), Bad(~r.identity, "unsupported_encoding"),
                 Bad(\E n \in r.length : n > Limits.response, "response_too_large")>>,
            RejectedAs, [c EXCEPT !.pc = "reading"])

ReadHead == \E r \in wire.response : Step("sending", Received(call, r))

(* Always one byte beyond the cap; the declared length is not authority.   *)
ReadLimit(c) == IF ChunkBytes < Limits.response - Len(c.body) + 1 THEN ChunkBytes ELSE Limits.response - Len(c.body) + 1

ReadChunk ==
    \E r \in wire.response :
        LET left == Len(r.bytes) - Len(call.body)
            most == IF ReadLimit(call) < left THEN ReadLimit(call) ELSE left
        IN  \E count \in (IF left = 0 THEN {0} ELSE 1..most) :
               Step("reading",
                    CASE count = 0 -> [call EXCEPT !.pc = "received"]
                      [] count > Limits.response - Len(call.body) -> RejectedAs(call, "response_too_large")
                      [] OTHER -> [call EXCEPT !.body = SubSeq(r.bytes, 1, Len(@) + count)])

(* preflight_response: strings, escapes, nesting and containers.           *)
Scan(s, b) ==
    CASE s.quoted /\ s.escaped -> [s EXCEPT !.escaped = FALSE]
      [] s.quoted /\ ~s.escaped -> [s EXCEPT !.escaped = b = "escape", !.quoted = b # "quote"]
      [] ~s.quoted /\ b = "quote" -> [s EXCEPT !.quoted = TRUE]
      [] ~s.quoted /\ b = "open" ->
            [s EXCEPT !.depth = @ + 1, !.containers = @ + 1,
                      !.ok = @ /\ s.depth < MaxNesting /\ s.containers < MaxContainers]
      [] ~s.quoted /\ b = "close" -> [s EXCEPT !.depth = @ - 1, !.ok = @ /\ s.depth > 0]
      [] OTHER -> s

Preflight(bytes) ==
    LET end == FoldLeft(Scan, [quoted |-> FALSE, escaped |-> FALSE, depth |-> 0, containers |-> 0, ok |-> TRUE], bytes)
    IN  end.ok /\ ~end.quoted /\ end.depth = 0

(* The texts of the parts; thinking parts are skipped.                     *)
TextParts(r) == SelectSeq(r.parts, LAMBDA q : q.kind = "text")
TextSize(parts) == FoldLeft(LAMBDA n, q : n + q.size, 0, parts)

OutputFits(text) == text <= Limits.output

(* Part by part: its kind, then the text up to it against the cap.         *)
PartChecks(r) ==
    FlattenSeq([i \in DOMAIN r.parts |->
        <<Bad(r.parts[i].kind \notin {"text", "thinking"}, "invalid_response"),
          Bad(~OutputFits(TextSize(TextParts([r EXCEPT !.parts = SubSeq(@, 1, i)]))), "output_too_large")>>])

(* finish: the text, then the model, the request id and the usage.         *)
FinishChecks(r, text) ==
    <<Bad(~OutputFits(text), "output_too_large"), Bad(text = 0, "empty_completion"),
      Bad(~r.meta \/ r.tokens > Limits.tokens, "invalid_response")>>

(* The typed decoder of each provider, then finish.                        *)
DecodeChecks(c, r) ==
    LET refused == r.stop = "refusal" /\ c.profile.locality = "cloud"
    IN  <<Bad(~Preflight(c.body), "invalid_response"), Bad(~r.json, "invalid_response"),
          Bad(refused, "refused"), Bad(r.stop # "end", "incomplete_response"),
          Bad(~r.typed \/ Len(r.parts) > MaxParts, "invalid_response")>>

Finished(c, r, text) ==
    Checked(c, FinishChecks(r, text), RejectedAs,
            [c EXCEPT !.pc = "done", !.outcome = "response_received", !.text = text])

Decoded(c, r) ==
    Checked(c, DecodeChecks(c, r), RejectedAs,
            Checked(c, PartChecks(r), RejectedAs, Finished(c, r, TextSize(TextParts(r)))))

Decode == \E r \in wire.response : Step("received", Decoded(call, r))

-----------------------------------------------------------------------------
(* The user, the host and the provider                                     *)

Approve ==
    /\ call.pc = "prepared" /\ call.profile.locality = "cloud"
    /\ grants' = grants \cup {call.preview}
    /\ UNCHANGED <<policy, directive, expired, call, wire>>

SetPolicy == policy' = ~policy /\ UNCHANGED <<grants, directive, expired, call, wire>>

Interrupt ==
    /\ directive = "continue" /\ directive' \in {"cancelled", "ownership_lost"}
    /\ UNCHANGED <<policy, grants, expired, call, wire>>

Expire == ~expired /\ expired' = TRUE /\ UNCHANGED <<policy, grants, directive, call, wire>>

(* A request may arrive after the client has given up on it.               *)
Arrive ==
    /\ wire.underway # <<>>
    /\ wire' = [wire EXCEPT !.underway = <<>>, !.received = wire.underway]
    /\ UNCHANGED <<policy, grants, directive, expired, call>>

Respond ==
    /\ wire.received # <<>> /\ wire.response = {}
    /\ \E r \in Responses : wire' = [wire EXCEPT !.response = {r}]
    /\ UNCHANGED <<policy, grants, directive, expired, call>>

(* The worker's next step: a call of its own, under the same directive and *)
(* deadline, with the grants of earlier steps still in memory.             *)
NextStep ==
    /\ call.pc = "done"
    /\ call' = [call EXCEPT !.pc = "idle", !.action = <<>>, !.preview = <<>>, !.body = <<>>, !.code = "none",
                            !.outcome = "none", !.text = 0]
    /\ wire' = [underway |-> <<>>, received |-> <<>>, response |-> {}]
    /\ UNCHANGED <<policy, grants, directive, expired>>

CallNext ==
    \/ Prepare \/ Authorise \/ Encode \/ Build \/ Execute \/ ReadHead \/ ReadChunk \/ TransportFails \/ Decode
    \/ Approve \/ SetPolicy \/ Interrupt \/ Expire \/ Arrive \/ Respond \/ NextStep

CallSpec == CallInit /\ [][CallNext]_callVars

(* provider_failure: the reason that the investigation stops with.         *)
WorkerStops(c) ==
    CASE c.outcome = "unknown" -> "outcome_unknown"
      [] c.outcome # "unknown" /\ c.code = "cancelled" -> "cancelled"
      [] c.outcome # "unknown" /\ c.code = "ownership_lost" -> "operational"
      [] c.outcome # "unknown" /\ c.code \in {"deadline_exceeded", "input_too_large", "request_too_large",
                                              "response_too_large", "output_too_large"} -> "limit_exceeded"
      [] OTHER -> "provider_failure"

-----------------------------------------------------------------------------
(* A failed call never understates what left the machine: when it is said  *)
(* not to have been dispatched the provider has nothing, when a response   *)
(* is said to have been received it did answer, and a call whose request   *)
(* the provider has and whose answer is not in stops as unknown.           *)
OutcomeIsTrue ==
    /\ call.outcome = "not_dispatched" => wire.underway = <<>> /\ wire.received = <<>>
    /\ call.outcome = "response_received" => wire.response # {}
    /\ call.pc = "failed" /\ wire.received # <<>> /\ call.outcome # "response_received" =>
          WorkerStops(call) = "outcome_unknown"

(* What a provider receives is the redacted preview of a valid profile     *)
(* within its limits; beyond this machine only a cloud profile is reached, *)
(* and only with a preview that the user approved; and what is kept of the *)
(* answer is within the caps, whatever length it declared.                 *)
Approved(v) ==
    /\ v.payload = RedactedPayload(v.payload) /\ DistinctIds(v.payload.spans)
    /\ v.payload.body <= Limits.request
    /\ v.profile.locality = "cloud" => v \in grants
    /\ v.profile.locality = "local" => v.profile.loopback

ReceivedIsPreviewed ==
    /\ \A v \in ToSet(wire.received) : Approved(v)
    /\ Len(call.body) <= Limits.response /\ call.text <= Limits.output

(* A bounded call is accounted for: what left and what came back.          *)
CallIsTrue == OutcomeIsTrue /\ ReceivedIsPreviewed

-----------------------------------------------------------------------------
(* The inductive invariant of ModelCallProofs.                             *)

NothingSent == [underway |-> <<>>, received |-> <<>>, response |-> {}]

CallShaped ==
    /\ call = [pc |-> call.pc, profile |-> call.profile, key |-> call.key, action |-> call.action,
               preview |-> call.preview, body |-> call.body, code |-> call.code,
               outcome |-> call.outcome, text |-> call.text]
    /\ wire = [underway |-> wire.underway, received |-> wire.received, response |-> wire.response]

(* Before the request is executed, nothing is on the wire.                 *)
Unsent == {"idle", "prepared", "authorised", "encoded", "built"}
Open == Unsent \cup {"sending", "reading", "received"}

ProgressFits ==
    /\ call.pc \in Open => call.outcome = "none"
    /\ call.pc = "failed" => call.outcome \in {"not_dispatched", "unknown", "response_received"}
    /\ call.pc \in Unsent \/ call.outcome = "not_dispatched" => wire = NothingSent
    /\ call.pc \in {"reading", "received"} \/ call.outcome = "response_received" => wire.response # {}
    /\ wire.response \subseteq Responses

(* What was checked on the way to the wire.                                *)
PreviewFits ==
    /\ call.pc \in Unsent \ {"idle"} =>
          /\ ValidProfile(call.profile) /\ call.action \in Actions
          /\ call.preview = Preview(call.profile, call.action)
          /\ DistinctIds(RedactedPayload(call.action).spans)
    /\ call.pc \in {"authorised", "encoded", "built"} /\ call.profile.locality = "cloud" =>
          call.preview \in grants
    /\ call.pc \in {"encoded", "built"} => call.action.body <= Limits.request

WireFits == \A v \in ToSet(wire.underway) \cup ToSet(wire.received) : Approved(v)

AnswerFits == Len(call.body) \in 0..Limits.response /\ OutputFits(call.text)

(* Progress, preview, wire and answer together: inductive.                 *)
CallInv == CallShaped /\ ProgressFits /\ PreviewFits /\ WireFits /\ AnswerFits
=============================================================================
