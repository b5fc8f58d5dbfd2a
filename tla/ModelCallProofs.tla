-------------------------- MODULE ModelCallProofs --------------------------
(***************************************************************************)
(* Proofs about the two ways to a model.  The bounded call: its checks     *)
(* have passed before anything is on the wire, the wire holds only what    *)
(* was approved, and the outcome follows the wire.  The escalation: a      *)
(* command approves only what was shown and its grant is what it approved, *)
(* an answer is one the broker accepts, a window shows of every row the    *)
(* row itself or an earlier revision, and the report of a preparation      *)
(* accounts for everything it has read.                                    *)
(***************************************************************************)
EXTENDS Escalation, BoundedCall, SequenceTheorems, FiniteSetTheorems, WellFoundedInduction, TLAPS

-----------------------------------------------------------------------------
(* BoundedCall: checks, limits and texts.                                  *)

\* The first bad check exists if any check is bad.
LEMMA NoneBad ==
    ASSUME NEW checks, Len(checks) \in Nat, FirstBad(checks) = 0
    PROVE  \A i \in 1 .. Len(checks) : ~checks[i].is
<1> DEFINE bad == {i \in 1 .. Len(checks) : checks[i].is}
<1>1. FirstBad(checks) = IF bad # {} THEN Min(bad) ELSE 0
    BY DEF FirstBad, SelectInSeq
<1>2. ASSUME bad # {} PROVE Min(bad) \in bad
    <2>1. bad \subseteq Nat
        OBVIOUS
    <2>2. PICK i \in bad : \A j \in bad : ~(<<j, i>> \in OpToRel(<, Nat))
        BY <1>2, <2>1, WFMin, NatLessThanWellFounded
    <2> HIDE DEF bad
    <2>3. \A j \in bad : ~(j < i)
        BY <2>1, <2>2 DEF OpToRel
    <2>4. \A j \in bad : i <= j
        BY <2>1, <2>3
    <2>5. QED  BY <2>4 DEF Min
<1>3. bad = {}
    BY <1>1, <1>2
<1>4. QED  BY <1>3

\* The limits are numbers.
LEMMA LimitsAreNat == Limits.request \in Nat /\ Limits.response \in Nat /\ Limits.output \in Nat
BY CallLimitsAssumption, CeilingAssumption DEF LimitsValid

\* A payload is redacted once and for all, and keeps its size.
LEMMA RedactedTwice ==
    ASSUME NEW a \in Actions
    PROVE  /\ RedactedPayload(a) = RedactedPayload(RedactedPayload(a))
           /\ RedactedPayload(a).body = a.body /\ a.body \in Nat
<1> DEFINE Hidden(s) == [s EXCEPT !.id = s.redacted]
           spans == [i \in DOMAIN a.spans |-> Hidden(a.spans[i])]
           b == RedactedPayload(a)
<1>1. a = [id |-> a.id, spans |-> a.spans, raw |-> a.raw, wire |-> a.wire, body |-> a.body] /\ a.body \in Nat
    BY ActionsAssumption
<1>2. ASSUME NEW i \in DOMAIN a.spans PROVE Hidden(Hidden(a.spans[i])) = Hidden(a.spans[i])
    <2>1. a.spans[i] \in ToSet(a.spans)
        BY DEF ToSet
    <2>2. PICK s : s = a.spans[i] /\ s = [id |-> s.id, redacted |-> s.redacted, nonempty |-> s.nonempty]
        BY <2>1, ActionsAssumption
    <2>3. Hidden(s) = [id |-> s.redacted, redacted |-> s.redacted, nonempty |-> s.nonempty]
        BY <2>2
    <2>4. Hidden(Hidden(s)) = Hidden(s)
        BY <2>3
    <2>5. QED  BY <2>2, <2>4
<1>3. b = [id |-> a.id, spans |-> spans, raw |-> a.raw, wire |-> a.wire, body |-> a.body]
    BY <1>1 DEF RedactedPayload
<1>4. b.spans = spans /\ DOMAIN b.spans = DOMAIN a.spans
    BY <1>3
<1>5. [i \in DOMAIN b.spans |-> Hidden(b.spans[i])] = spans
    BY <1>2, <1>4
<1>6. RedactedPayload(b) = [b EXCEPT !.spans = [i \in DOMAIN b.spans |-> Hidden(b.spans[i])]]
    BY DEF RedactedPayload
<1> HIDE DEF b, spans
<1>7. RedactedPayload(b) = b
    BY <1>3, <1>5, <1>6
<1> USE DEF b
<1>8. QED  BY <1>1, <1>3, <1>7

\* A checked preview that was approved, if it goes to the cloud, may be on the wire.
LEMMA EncodedIsApproved ==
    ASSUME PreviewFits, call.pc = "built"
    PROVE  Approved(call.preview)
<1>1. call.action \in Actions /\ call.preview = Preview(call.profile, call.action)
      /\ DistinctIds(RedactedPayload(call.action).spans) /\ ValidProfile(call.profile)
      /\ call.action.body <= Limits.request /\ (call.profile.locality = "cloud" => call.preview \in grants)
    BY DEF PreviewFits, Unsent
<1>2. call.preview.payload = RedactedPayload(call.action) /\ call.preview.profile = call.profile
    BY <1>1 DEF Preview
<1>3. QED  BY <1>1, <1>2, RedactedTwice DEF Approved, ValidProfile

\* Everything but the call and the wire stays.
hostVars == <<policy, grants, directive, expired>>

\* While grants and wire stay, what is on the wire stays approved.
LEMMA WireStays == ASSUME WireFits, UNCHANGED <<grants, wire>> PROVE WireFits'
BY DEF WireFits, Approved

\* A call that fails before its request is sent leaves the wire empty.
LEMMA NotSentFits ==
    ASSUME CallInv, call.pc \in Unsent, \E code : call' = NotSent(call, code), UNCHANGED <<hostVars, wire>>
    PROVE  CallInv'
<1>1. PICK code : call' = NotSent(call, code)
    OBVIOUS
<1>2. call' = [pc |-> "failed", profile |-> call.profile, key |-> call.key, action |-> call.action,
               preview |-> call.preview, body |-> call.body, code |-> code,
               outcome |-> "not_dispatched", text |-> call.text]
    BY <1>1 DEF NotSent, CallInv, CallShaped
<1>3. CallShaped'
    BY <1>2 DEF CallInv, CallShaped
<1>4. ProgressFits'
    BY <1>2 DEF CallInv, ProgressFits, Unsent, Open
<1>5. PreviewFits'
    BY <1>2 DEF PreviewFits, Unsent
<1>6. AnswerFits'
    BY <1>2 DEF CallInv, AnswerFits
<1>7. QED  BY <1>3, <1>4, <1>5, <1>6, WireStays DEF CallInv, hostVars

\* A response that is refused was received.
LEMMA RejectedFits ==
    ASSUME CallInv, wire.response # {}, \E code : call' = RejectedAs(call, code), UNCHANGED <<hostVars, wire>>
    PROVE  CallInv'
<1>1. PICK code : call' = RejectedAs(call, code)
    OBVIOUS
<1>2. call' = [pc |-> "failed", profile |-> call.profile, key |-> call.key, action |-> call.action,
               preview |-> call.preview, body |-> call.body, code |-> code,
               outcome |-> "response_received", text |-> call.text]
    BY <1>1 DEF RejectedAs, CallInv, CallShaped
<1>3. CallShaped'
    BY <1>2 DEF CallInv, CallShaped
<1>4. ProgressFits'
    BY <1>2 DEF CallInv, ProgressFits, Unsent, Open
<1>5. PreviewFits'
    BY <1>2 DEF PreviewFits, Unsent
<1>6. AnswerFits'
    BY <1>2 DEF CallInv, AnswerFits
<1>7. QED  BY <1>3, <1>4, <1>5, <1>6, WireStays DEF CallInv, hostVars

\* An error of the connection leaves the outcome unknown.
LEMMA TransportFailsFits == ASSUME CallInv, TransportFails PROVE CallInv'
<1>1. PICK code : call' = Unknown(call, code)
    BY DEF TransportFails, Step, TransportError
<1>2. call' = [pc |-> "failed", profile |-> call.profile, key |-> call.key, action |-> call.action,
               preview |-> call.preview, body |-> call.body, code |-> code,
               outcome |-> "unknown", text |-> call.text]
    BY <1>1 DEF Unknown, CallInv, CallShaped
<1>a. UNCHANGED <<hostVars, wire>>
    BY DEF TransportFails, Step, hostVars
<1>3. CallShaped'
    BY <1>2, <1>a DEF CallInv, CallShaped
<1>4. ProgressFits'
    BY <1>2, <1>a DEF CallInv, ProgressFits, Unsent, Open
<1>5. PreviewFits'
    BY <1>2 DEF PreviewFits, Unsent
<1>6. AnswerFits'
    BY <1>2 DEF CallInv, AnswerFits
<1>7. QED  BY <1>3, <1>4, <1>5, <1>6, <1>a, WireStays DEF CallInv, hostVars

\* A preview is prepared from a valid action, or nothing is sent.
LEMMA PrepareFits == ASSUME CallInv, Prepare PROVE CallInv'
<1> DEFINE checks(a) == <<Bad(~ValidProfile(call.profile), "invalid_profile"),
                          Bad(~PolicyAllows(call.profile), "egress_denied"),
                          Bad(~SpansValid(a), "invalid_input"), Bad(~InputFits(a), "input_too_large"),
                          Bad(~DistinctIds(RedactedPayload(a).spans), "invalid_input")>>
<1>1. PICK a \in Actions :
          Step("idle", Checked(call, checks(a), NotSent,
                               [call EXCEPT !.pc = "prepared", !.action = a, !.preview = Preview(call.profile, a)]))
    BY DEF Prepare
<1>2. call.pc = "idle" /\ UNCHANGED <<hostVars, wire>>
    BY <1>1 DEF Step, hostVars
<1>3. CASE FirstBad(checks(a)) # 0
    <2>1. \E code : call' = NotSent(call, code)
        BY <1>1, <1>3 DEF Step, Checked
    <2>2. QED  BY <1>2, <2>1, NotSentFits DEF Unsent
<1>4. CASE FirstBad(checks(a)) = 0
    <2>1. call' = [call EXCEPT !.pc = "prepared", !.action = a, !.preview = Preview(call.profile, a)]
        BY <1>1, <1>4 DEF Step, Checked
    <2>2. call' = [pc |-> "prepared", profile |-> call.profile, key |-> call.key, action |-> a,
                   preview |-> Preview(call.profile, a), body |-> call.body, code |-> call.code,
                   outcome |-> call.outcome, text |-> call.text]
        BY <2>1 DEF CallInv, CallShaped
    <2>3. Len(checks(a)) = 5
        OBVIOUS
    <2>4. ~checks(a)[1].is /\ ~checks(a)[5].is
        BY <1>4, <2>3, NoneBad
    <2>5. ValidProfile(call.profile) /\ DistinctIds(RedactedPayload(a).spans)
        BY <2>4 DEF Bad
    <2> HIDE DEF checks
    <2>6. CallShaped'
        BY <1>2, <2>2 DEF CallInv, CallShaped
    <2>7. ProgressFits'
        BY <1>2, <2>2 DEF CallInv, ProgressFits, Unsent, Open
    <2>8. PreviewFits'
        BY <2>2, <2>5 DEF PreviewFits, Unsent
    <2>9. AnswerFits'
        BY <2>2 DEF CallInv, AnswerFits
    <2>10. QED  BY <1>2, <2>6, <2>7, <2>8, <2>9, WireStays DEF CallInv, hostVars
<1>5. QED  BY <1>3, <1>4

\* A step that only moves the call on.
LEMMA MovesOn ==
    ASSUME CallInv, NEW pc, call' = [call EXCEPT !.pc = pc], UNCHANGED <<hostVars>>
    PROVE  call' = [pc |-> pc, profile |-> call.profile, key |-> call.key, action |-> call.action,
                    preview |-> call.preview, body |-> call.body, code |-> call.code,
                    outcome |-> call.outcome, text |-> call.text]
           /\ AnswerFits'
<1>1. call' = [pc |-> pc, profile |-> call.profile, key |-> call.key, action |-> call.action,
               preview |-> call.preview, body |-> call.body, code |-> call.code,
               outcome |-> call.outcome, text |-> call.text]
    BY DEF CallInv, CallShaped
<1>2. QED  BY <1>1 DEF CallInv, AnswerFits

\* The cloud is reached with a preview that was granted.
LEMMA AuthoriseFits == ASSUME CallInv, Authorise PROVE CallInv'
<1> DEFINE checks(consent) == <<Bad(~PolicyAllows(call.profile), "egress_denied"),
              Bad(call.profile.locality = "cloud" /\ consent = {}, "consent_required"),
              Bad(~ConsentMatches(call, consent), "consent_mismatch")>>
<1>1. PICK consent \in {{}} \cup {{g} : g \in grants} :
          Step("prepared", Checked(call, checks(consent), NotSent, [call EXCEPT !.pc = "authorised"]))
    BY DEF Authorise
<1>2. call.pc = "prepared" /\ UNCHANGED <<hostVars, wire>>
    BY <1>1 DEF Step, hostVars
<1>3. CASE FirstBad(checks(consent)) # 0
    <2>1. \E code : call' = NotSent(call, code)
        BY <1>1, <1>3 DEF Step, Checked
    <2>2. QED  BY <1>2, <2>1, NotSentFits DEF Unsent
<1>4. CASE FirstBad(checks(consent)) = 0
    <2>1. call' = [call EXCEPT !.pc = "authorised"]
        BY <1>1, <1>4 DEF Step, Checked
    <2>a. Len(checks(consent)) = 3
        OBVIOUS
    <2>b. PICK cs : cs = checks(consent)
        OBVIOUS
    <2>c. Len(cs) = 3 /\ FirstBad(cs) = 0
        BY <1>4, <2>a, <2>b
    <2>d. ~cs[3].is
        <3>1. \A i \in 1 .. Len(cs) : ~cs[i].is
            BY <2>c, NoneBad
        <3>2. QED  BY <2>c, <3>1
    <2>2. ~checks(consent)[3].is
        BY <2>b, <2>d
    <2>3. ConsentMatches(call, consent)
        BY <2>2 DEF Bad
    <2> HIDE DEF checks
    <2>4. call.profile.locality = "cloud" => call.preview \in grants
        BY <2>3 DEF ConsentMatches
    <2>5. /\ call' = [pc |-> "authorised", profile |-> call.profile, key |-> call.key, action |-> call.action,
                      preview |-> call.preview, body |-> call.body, code |-> call.code,
                      outcome |-> call.outcome, text |-> call.text]
          /\ AnswerFits'
        BY <1>2, <2>1, MovesOn
    <2>6. CallShaped'
        BY <1>2, <2>5 DEF CallInv, CallShaped
    <2>7. ProgressFits'
        BY <1>2, <2>5 DEF CallInv, ProgressFits, Unsent, Open
    <2>8. PreviewFits'
        BY <1>2, <2>4, <2>5 DEF CallInv, PreviewFits, Unsent, hostVars
    <2>9. QED  BY <1>2, <2>5, <2>6, <2>7, <2>8, WireStays DEF CallInv, hostVars
<1>5. QED  BY <1>3, <1>4

\* What is encoded is within the limit of a request.
LEMMA EncodeFits == ASSUME CallInv, Encode PROVE CallInv'
<1>1. call.pc = "authorised" /\ UNCHANGED <<hostVars, wire>>
      /\ call' = Checked(call, EncodeChecks(call), NotSent, [call EXCEPT !.pc = "encoded"])
    BY DEF Encode, Step, hostVars
<1>2. CASE FirstBad(EncodeChecks(call)) # 0
    <2>1. \E code : call' = NotSent(call, code)
        BY <1>1, <1>2 DEF Checked
    <2>2. QED  BY <1>1, <2>1, NotSentFits DEF Unsent
<1>3. CASE FirstBad(EncodeChecks(call)) = 0
    <2>1. call' = [call EXCEPT !.pc = "encoded"]
        BY <1>1, <1>3 DEF Checked
    <2>2. ~EncodeChecks(call)[3].is
        <3>1. PICK cs : cs = EncodeChecks(call)
            OBVIOUS
        <3>2. Len(cs) = 3 /\ FirstBad(cs) = 0
            BY <1>3, <3>1 DEF EncodeChecks
        <3>3. \A i \in 1 .. Len(cs) : ~cs[i].is
            BY <3>2, NoneBad
        <3>4. QED  BY <3>1, <3>2, <3>3
    <2>3. ~(call.action.body > Limits.request)
        BY <2>2 DEF EncodeChecks, Bad
    <2>4. call.action.body \in Nat
        BY <1>1, ActionsAssumption DEF CallInv, PreviewFits, Unsent
    <2>5. call.action.body <= Limits.request
        BY <2>3, <2>4, LimitsAreNat
    <2>6. /\ call' = [pc |-> "encoded", profile |-> call.profile, key |-> call.key, action |-> call.action,
                      preview |-> call.preview, body |-> call.body, code |-> call.code,
                      outcome |-> call.outcome, text |-> call.text]
          /\ AnswerFits'
        BY <1>1, <2>1, MovesOn
    <2>7. CallShaped'
        BY <1>1, <2>6 DEF CallInv, CallShaped
    <2>8. ProgressFits'
        BY <1>1, <2>6 DEF CallInv, ProgressFits, Unsent, Open
    <2>9. PreviewFits'
        BY <1>1, <2>5, <2>6 DEF CallInv, PreviewFits, Unsent, hostVars
    <2>10. QED  BY <1>1, <2>6, <2>7, <2>8, <2>9, WireStays DEF CallInv, hostVars
<1>4. QED  BY <1>2, <1>3

\* A request is built, or given up before anything is sent.
LEMMA BuildFits == ASSUME CallInv, Build PROVE CallInv'
<1>1. call.pc = "encoded" /\ UNCHANGED <<hostVars, wire>>
    BY DEF Build, Step, hostVars
<1>2. CASE Stopped
    BY <1>1, <1>2, NotSentFits DEF Build, Step, Unsent
<1>3. CASE ~Stopped
    <2>1. call' = [call EXCEPT !.pc = "built"]
        BY <1>3 DEF Build, Step
    <2>2. /\ call' = [pc |-> "built", profile |-> call.profile, key |-> call.key, action |-> call.action,
                      preview |-> call.preview, body |-> call.body, code |-> call.code,
                      outcome |-> call.outcome, text |-> call.text]
          /\ AnswerFits'
        BY <1>1, <2>1, MovesOn
    <2>3. CallShaped'
        BY <1>1, <2>2 DEF CallInv, CallShaped
    <2>4. ProgressFits'
        BY <1>1, <2>2 DEF CallInv, ProgressFits, Unsent, Open
    <2>5. PreviewFits'
        BY <1>1, <2>2 DEF CallInv, PreviewFits, Unsent, hostVars
    <2>6. QED  BY <1>1, <2>2, <2>3, <2>4, <2>5, WireStays DEF CallInv, hostVars
<1>4. QED  BY <1>2, <1>3

\* The request that goes out is the approved preview.
LEMMA ExecuteFits == ASSUME CallInv, Execute PROVE CallInv'
<1>1. call.pc = "built" /\ UNCHANGED hostVars
    BY DEF Execute, hostVars
<1>2. wire = NothingSent
    BY <1>1 DEF CallInv, ProgressFits, Unsent
<1>3. CASE Stopped
    <2>1. wire' = wire
        BY <1>2, <1>3 DEF Execute, NothingSent
    <2>2. \E code : call' = NotSent(call, code)
        BY <1>3 DEF Execute
    <2>3. QED  BY <1>1, <2>1, <2>2, NotSentFits DEF Unsent
<1>4. CASE ~Stopped
    <2>1. call' = [call EXCEPT !.pc = "sending"]
        BY <1>4 DEF Execute
    <2>2. /\ call' = [pc |-> "sending", profile |-> call.profile, key |-> call.key, action |-> call.action,
                      preview |-> call.preview, body |-> call.body, code |-> call.code,
                      outcome |-> call.outcome, text |-> call.text]
          /\ AnswerFits'
        BY <1>1, <2>1, MovesOn
    <2>3. wire' = [underway |-> <<call.preview>>, received |-> <<>>, response |-> {}]
        BY <1>2, <1>4 DEF Execute, NothingSent
    <2>4. CallShaped'
        BY <2>2, <2>3 DEF CallShaped
    <2>5. ProgressFits'
        BY <1>1, <2>2, <2>3 DEF CallInv, ProgressFits, Unsent, Open
    <2>6. PreviewFits'
        BY <2>2 DEF PreviewFits, Unsent
    <2>7. PICK v : v = call.preview
        OBVIOUS
    <2>8. Approved(v)
        BY <1>1, <2>7, EncodedIsApproved DEF CallInv
    <2>9. Approved(v)'
        BY <1>1, <2>8 DEF Approved, hostVars
    <2>10. ToSet(wire'.underway) \cup ToSet(wire'.received) = {v}
        BY <2>3, <2>7 DEF ToSet
    <2>11. WireFits'
        BY <2>9, <2>10 DEF WireFits
    <2>12. QED  BY <2>2, <2>4, <2>5, <2>6, <2>11 DEF CallInv
<1>5. QED  BY <1>3, <1>4

\* Reading starts when there is an answer, whose head is in order.
LEMMA ReadHeadFits == ASSUME CallInv, ReadHead PROVE CallInv'
<1>1. PICK r \in wire.response : Step("sending", Received(call, r))
    BY DEF ReadHead
<1>2. call.pc = "sending" /\ UNCHANGED <<hostVars, wire>> /\ wire.response # {}
    BY <1>1 DEF Step, hostVars
<1>3. CASE \E code : call' = RejectedAs(call, code)
    BY <1>2, <1>3, RejectedFits
<1>4. CASE call' = [call EXCEPT !.pc = "reading"]
    <2>1. /\ call' = [pc |-> "reading", profile |-> call.profile, key |-> call.key, action |-> call.action,
                      preview |-> call.preview, body |-> call.body, code |-> call.code,
                      outcome |-> call.outcome, text |-> call.text]
          /\ AnswerFits'
        BY <1>2, <1>4, MovesOn
    <2>2. CallShaped'
        BY <1>2, <2>1 DEF CallInv, CallShaped
    <2>3. ProgressFits'
        BY <1>2, <2>1 DEF CallInv, ProgressFits, Unsent, Open
    <2>4. PreviewFits'
        BY <2>1 DEF PreviewFits, Unsent
    <2>5. QED  BY <1>2, <2>1, <2>2, <2>3, <2>4, WireStays DEF CallInv, hostVars
<1>5. QED  BY <1>1, <1>3, <1>4 DEF Step, Received, Checked

\* A chunk is kept only while it is within the cap.
LEMMA ReadChunkFits == ASSUME CallInv, ReadChunk PROVE CallInv'
<1> DEFINE unread(r) == Len(r.bytes) - Len(call.body)
           most(r) == IF ReadLimit(call) < unread(r) THEN ReadLimit(call) ELSE unread(r)
<1>r. PICK r \in wire.response : \E count \in (IF unread(r) = 0 THEN {0} ELSE 1..most(r)) :
          Step("reading",
               CASE count = 0 -> [call EXCEPT !.pc = "received"]
                 [] count > Limits.response - Len(call.body) -> RejectedAs(call, "response_too_large")
                 [] OTHER -> [call EXCEPT !.body = SubSeq(r.bytes, 1, Len(@) + count)])
    BY DEF ReadChunk
<1>1. PICK count \in (IF unread(r) = 0 THEN {0} ELSE 1..most(r)) :
          Step("reading",
               CASE count = 0 -> [call EXCEPT !.pc = "received"]
                 [] count > Limits.response - Len(call.body) -> RejectedAs(call, "response_too_large")
                 [] OTHER -> [call EXCEPT !.body = SubSeq(r.bytes, 1, Len(@) + count)])
    BY <1>r
<1>2. call.pc = "reading" /\ UNCHANGED <<hostVars, wire>> /\ wire.response # {}
    BY <1>1 DEF Step, hostVars
<1>3. r.bytes \in Seq(ToSet(r.bytes)) /\ Len(call.body) \in 0..Limits.response
    BY <1>1, ResponsesAssumption DEF CallInv, ProgressFits, AnswerFits
<1>4. Len(r.bytes) \in Nat /\ unread(r) \in Int /\ ReadLimit(call) \in Int
    BY <1>3, LimitsAreNat, ChunkAssumption DEF ReadLimit
<1>5. CASE count = 0
    <2>1. call' = [call EXCEPT !.pc = "received"]
        <3>1. ~(count > Limits.response - Len(call.body))
            BY <1>3, <1>5, LimitsAreNat
        <3>2. QED  BY <1>1, <1>5, <3>1 DEF Step
    <2>2. /\ call' = [pc |-> "received", profile |-> call.profile, key |-> call.key, action |-> call.action,
                      preview |-> call.preview, body |-> call.body, code |-> call.code,
                      outcome |-> call.outcome, text |-> call.text]
          /\ AnswerFits'
        BY <1>2, <2>1, MovesOn
    <2>3. CallShaped'
        BY <1>2, <2>2 DEF CallInv, CallShaped
    <2>4. ProgressFits'
        BY <1>2, <2>2 DEF CallInv, ProgressFits, Unsent, Open
    <2>5. PreviewFits'
        BY <2>2 DEF PreviewFits, Unsent
    <2>6. QED  BY <1>2, <2>2, <2>3, <2>4, <2>5, WireStays DEF CallInv, hostVars
<1>6. CASE count # 0 /\ count > Limits.response - Len(call.body)
    <2>1. call' = RejectedAs(call, "response_too_large")
        BY <1>1, <1>6 DEF Step
    <2>2. QED  BY <1>2, <2>1, RejectedFits
<1>7. CASE count # 0 /\ ~(count > Limits.response - Len(call.body))
    <2>1. call' = [call EXCEPT !.body = SubSeq(r.bytes, 1, Len(@) + count)]
        BY <1>1, <1>7 DEF Step
    <2>2. PICK text : text = SubSeq(r.bytes, 1, Len(call.body) + count)
        OBVIOUS
    <2>3. call' = [pc |-> "reading", profile |-> call.profile, key |-> call.key, action |-> call.action,
                   preview |-> call.preview, body |-> text, code |-> call.code,
                   outcome |-> call.outcome, text |-> call.text]
        BY <1>2, <2>1, <2>2 DEF CallInv, CallShaped
    <2>4. count \in 1..most(r) /\ count \in Nat /\ count <= unread(r)
        <3>1. most(r) \in Int /\ most(r) <= unread(r)
            <4> HIDE DEF unread
            <4>1. QED  BY <1>4
        <3>2. count \in 1..most(r)
            BY <1>1, <1>7
        <3> HIDE DEF most, unread
        <3>3. QED  BY <1>4, <3>1, <3>2
    <2>5. Len(call.body) + count \in 0..Len(r.bytes) /\ Len(call.body) + count <= Limits.response
        BY <1>3, <1>4, <1>7, <2>4, LimitsAreNat
    <2>6. Len(text) = Len(call.body) + count
        BY <1>3, <2>2, <2>5
    <2>7. CallShaped'
        BY <1>2, <2>3 DEF CallInv, CallShaped
    <2>8. ProgressFits'
        BY <1>2, <2>3 DEF CallInv, ProgressFits, Unsent, Open
    <2>9. PreviewFits'
        BY <2>3 DEF PreviewFits, Unsent
    <2>10. Len(text) \in 0..Limits.response
        BY <2>5, <2>6, LimitsAreNat
    <2>11. AnswerFits'
        BY <2>3, <2>10 DEF CallInv, AnswerFits
    <2>12. QED  BY <1>2, <2>7, <2>8, <2>9, <2>11, WireStays DEF CallInv, hostVars
<1>8. QED  BY <1>5, <1>6, <1>7

\* The text of a finished call passed the checks of its answer.
LEMMA DecodeFits == ASSUME CallInv, Decode PROVE CallInv'
<1>1. PICK r \in wire.response : Step("received", Decoded(call, r))
    BY DEF Decode
<1>2. call.pc = "received" /\ UNCHANGED <<hostVars, wire>> /\ wire.response # {}
    BY <1>1 DEF Step, hostVars
<1>3. PICK text : text = TextSize(TextParts(r))
    OBVIOUS
<1>4. CASE \E code : call' = RejectedAs(call, code)
    BY <1>2, <1>4, RejectedFits
<1>5. CASE /\ call' = [call EXCEPT !.pc = "done", !.outcome = "response_received", !.text = text]
           /\ FirstBad(FinishChecks(r, text)) = 0
    <2>1. Len(FinishChecks(r, text)) = 3
        BY DEF FinishChecks
    <2>2. ~FinishChecks(r, text)[1].is
        BY <1>5, <2>1, NoneBad
    <2>3. OutputFits(text)
        BY <2>2 DEF FinishChecks, Bad
    <2>4. call' = [pc |-> "done", profile |-> call.profile, key |-> call.key, action |-> call.action,
                   preview |-> call.preview, body |-> call.body, code |-> call.code,
                   outcome |-> "response_received", text |-> text]
        BY <1>5 DEF CallInv, CallShaped
    <2>5. CallShaped'
        BY <1>2, <2>4 DEF CallInv, CallShaped
    <2>6. ProgressFits'
        BY <1>2, <2>4 DEF CallInv, ProgressFits, Unsent, Open
    <2>7. PreviewFits'
        BY <2>4 DEF PreviewFits, Unsent
    <2>8. AnswerFits'
        BY <2>3, <2>4 DEF CallInv, AnswerFits, OutputFits
    <2>9. QED  BY <1>2, <2>5, <2>6, <2>7, <2>8, WireStays DEF CallInv, hostVars
<1>6. call' = Decoded(call, r)
    BY <1>1 DEF Step
<1>7. \/ \E code : call' = RejectedAs(call, code)
      \/ call' = Finished(call, r, text)
    BY <1>3, <1>6 DEF Decoded, Checked
<1>8. QED  BY <1>4, <1>5, <1>7 DEF Finished, Checked

\* More grants, more that may go out.
LEMMA ApproveFits == ASSUME CallInv, Approve PROVE CallInv'
<1>1. UNCHANGED <<call, wire>> /\ grants \subseteq grants'
    BY DEF Approve
<1>2. ASSUME NEW v, Approved(v) PROVE Approved(v)'
    BY <1>1, <1>2 DEF Approved
<1>3. WireFits'
    BY <1>1, <1>2 DEF CallInv, WireFits
<1>4. PreviewFits'
    BY <1>1 DEF CallInv, PreviewFits
<1>5. CallShaped' /\ ProgressFits' /\ AnswerFits'
    BY <1>1 DEF CallInv, CallShaped, ProgressFits, AnswerFits
<1>6. QED  BY <1>3, <1>4, <1>5 DEF CallInv

\* The request moves from under way to received.
LEMMA ArriveFits == ASSUME CallInv, Arrive PROVE CallInv'
<1>1. UNCHANGED <<grants, call>>
    BY DEF Arrive
<1>2. wire' = [underway |-> <<>>, received |-> wire.underway, response |-> wire.response]
    BY DEF Arrive, CallInv, CallShaped
<1>3. CallShaped' /\ AnswerFits'
    BY <1>1, <1>2 DEF CallInv, CallShaped, AnswerFits
<1>4. wire # NothingSent
    BY DEF Arrive, NothingSent
<1>5. ProgressFits'
    BY <1>1, <1>2, <1>4 DEF CallInv, ProgressFits
<1>6. PreviewFits'
    BY <1>1 DEF CallInv, PreviewFits
<1>7. ToSet(wire'.underway) \cup ToSet(wire'.received) \subseteq ToSet(wire.underway) \cup ToSet(wire.received)
    BY <1>2 DEF ToSet
<1>8. \A v : Approved(v) => Approved(v)'
    BY <1>1 DEF Approved
<1>9. WireFits'
    BY <1>7, <1>8 DEF CallInv, WireFits
<1>10. QED  BY <1>3, <1>5, <1>6, <1>9 DEF CallInv

\* An answer comes to a request that was received.
LEMMA RespondFits == ASSUME CallInv, Respond PROVE CallInv'
<1>1. UNCHANGED <<grants, call>> /\ wire.received # <<>>
    BY DEF Respond
<1>2. PICK r \in Responses : wire' = [underway |-> wire.underway, received |-> wire.received, response |-> {r}]
    BY DEF Respond, CallInv, CallShaped
<1>3. CallShaped' /\ AnswerFits'
    BY <1>1, <1>2 DEF CallInv, CallShaped, AnswerFits
<1>4. wire # NothingSent
    BY <1>1 DEF NothingSent
<1>5. ProgressFits'
    BY <1>1, <1>2, <1>4 DEF CallInv, ProgressFits
<1>6. PreviewFits'
    BY <1>1 DEF CallInv, PreviewFits
<1>7. wire'.underway = wire.underway /\ wire'.received = wire.received
    BY <1>2
<1>8. \A v : Approved(v) => Approved(v)'
    BY <1>1 DEF Approved
<1>9. WireFits'
    BY <1>7, <1>8 DEF CallInv, WireFits
<1>10. QED  BY <1>3, <1>5, <1>6, <1>9 DEF CallInv

\* The next step's call starts from nothing.
LEMMA NextStepFits == ASSUME CallInv, NextStep PROVE CallInv'
<1>1. call' = [pc |-> "idle", profile |-> call.profile, key |-> call.key, action |-> <<>>,
               preview |-> <<>>, body |-> <<>>, code |-> "none", outcome |-> "none", text |-> 0]
    BY DEF NextStep, CallInv, CallShaped
<1>2. wire' = NothingSent
    BY DEF NextStep, NothingSent
<1>3. CallShaped'
    BY <1>1, <1>2 DEF CallShaped, NothingSent
<1>4. ProgressFits'
    BY <1>1, <1>2 DEF ProgressFits, Unsent, Open, NothingSent
<1>5. PreviewFits'
    BY <1>1 DEF PreviewFits, Unsent
<1>6. WireFits'
    BY <1>2 DEF WireFits, NothingSent, ToSet
<1>7. AnswerFits'
    BY <1>1, LimitsAreNat DEF AnswerFits, OutputFits
<1>8. QED  BY <1>3, <1>4, <1>5, <1>6, <1>7 DEF CallInv

\* The policy, the host's directive and the deadline are no part of it.
LEMMA HostFits == ASSUME CallInv, UNCHANGED <<grants, call, wire>> PROVE CallInv'
<1>1. CallShaped' /\ ProgressFits' /\ AnswerFits'
    BY DEF CallInv, CallShaped, ProgressFits, AnswerFits
<1>2. PreviewFits'
    BY DEF CallInv, PreviewFits
<1>3. QED  BY <1>1, <1>2, WireStays DEF CallInv

\* A call starts with nothing prepared and nothing sent.
LEMMA CallInitFits == CallInit => CallInv
<1> SUFFICES ASSUME CallInit PROVE CallInv
    OBVIOUS
<1>1. PICK p \in Profiles, key \in BOOLEAN :
          call = [pc |-> "idle", profile |-> p, key |-> key, action |-> <<>>, preview |-> <<>>, body |-> <<>>,
                  code |-> "none", outcome |-> "none", text |-> 0]
    BY DEF CallInit
<1>2. wire = NothingSent
    BY DEF CallInit, NothingSent
<1>3. CallShaped
    BY <1>1, <1>2 DEF CallShaped, NothingSent
<1>4. ProgressFits
    BY <1>1, <1>2 DEF ProgressFits, Unsent, Open, NothingSent
<1>5. PreviewFits
    BY <1>1 DEF PreviewFits, Unsent
<1>6. WireFits
    BY <1>2 DEF WireFits, NothingSent, ToSet
<1>7. AnswerFits
    BY <1>1, LimitsAreNat DEF AnswerFits, OutputFits
<1>8. QED  BY <1>3, <1>4, <1>5, <1>6, <1>7 DEF CallInv

\* What the inductive invariant says of a call that has ended.
LEMMA CallInvIsTrue == CallInv => CallIsTrue
<1> SUFFICES ASSUME CallInv PROVE CallIsTrue
    OBVIOUS
<1>1. call.outcome = "not_dispatched" => wire.underway = <<>> /\ wire.received = <<>>
    BY DEF CallInv, ProgressFits, NothingSent
<1>2. call.outcome = "response_received" => wire.response # {}
    BY DEF CallInv, ProgressFits
<1>3. ASSUME call.pc = "failed", wire.received # <<>>, call.outcome # "response_received"
      PROVE  WorkerStops(call) = "outcome_unknown"
    <2>1. call.outcome = "unknown"
        BY <1>1, <1>3 DEF CallInv, ProgressFits
    <2>2. QED  BY <2>1 DEF WorkerStops
<1>4. OutcomeIsTrue
    BY <1>1, <1>2, <1>3 DEF OutcomeIsTrue
<1>5. ReceivedIsPreviewed
    BY LimitsAreNat DEF CallInv, WireFits, AnswerFits, OutputFits, ReceivedIsPreviewed
<1>6. QED  BY <1>4, <1>5 DEF CallIsTrue

\* Whatever the user, the host and the provider do meanwhile, what a call
\* says of its own outcome is what happened on the wire, and what a provider
\* received was checked and approved before it left (bounded.rs).
THEOREM CallsAreTrue == CallSpec => []CallIsTrue
<1>1. ASSUME CallInv, CallNext PROVE CallInv'
    <2>1. CASE Prepare \/ Authorise \/ Encode \/ Build
        BY <1>1, <2>1, PrepareFits, AuthoriseFits, EncodeFits, BuildFits
    <2>2. CASE Execute \/ ReadHead \/ ReadChunk \/ TransportFails \/ Decode
        BY <1>1, <2>2, ExecuteFits, ReadHeadFits, ReadChunkFits, TransportFailsFits, DecodeFits
    <2>3. CASE Approve \/ Arrive \/ Respond \/ NextStep
        BY <1>1, <2>3, ApproveFits, ArriveFits, RespondFits, NextStepFits
    <2>4. CASE SetPolicy \/ Interrupt \/ Expire
        BY <1>1, <2>4, HostFits DEF SetPolicy, Interrupt, Expire
    <2>5. QED  BY <1>1, <2>1, <2>2, <2>3, <2>4 DEF CallNext
<1>2. CallInv /\ UNCHANGED callVars => CallInv'
    BY HostFits DEF callVars
<1>3. CallInv /\ [CallNext]_callVars => CallInv'
    BY <1>1, <1>2
<1>4. QED  BY <1>3, CallInitFits, CallInvIsTrue, PTL DEF CallSpec

-----------------------------------------------------------------------------
(* Escalation: commands and consent.                                       *)

\* The fields of a command.
LEMMA CommandFields ==
    /\ DOMAIN Idle = {"pc", "mode", "job", "gaps", "approved", "cloud", "prep", "task", "grant",
                      "proposal", "staged", "failed"}
    /\ CommandShaped(Idle)
BY DEF Idle, CommandShaped

\* The fields of a preparation.
LEMMA PrepFields ==
    /\ DOMAIN NoPreparation = {"graph", "plan", "preliminary", "authoritative", "report", "selected",
                               "evidence", "candidates", "sources"}
    /\ PrepShaped(NoPreparation)
BY DEF NoPreparation, PrepShaped, EvidenceShaped, Range

\* What the invariant says of the command of one process.
LEMMA CommandOf ==
    ASSUME RunsFit, NEW p \in Proc
    PROVE  CommandFits(run[p], shown)
BY DEF RunsFit

\* A process whose command fits goes on; what was shown stays shown.
LEMMA GotoFits ==
    ASSUME RunsFit, NEW p \in Proc, NEW r, Goto(p, r), shown \subseteq shown', CommandFits(r, shown')
    PROVE  RunsFit'
<1>1. run' = [run EXCEPT ![p] = r]
    BY DEF Goto
<1>2. run = [q \in Proc |-> run[q]]
    BY DEF RunsFit
<1>3. run' = [q \in Proc |-> IF q = p THEN r ELSE run[q]]
    BY <1>1, <1>2
<1>4. ASSUME NEW q \in Proc PROVE CommandFits(run'[q], shown')
    <2>1. CASE q = p
        BY <1>3, <2>1
    <2>2. CASE q # p
        <3>1. PICK c : c = run[q]
            OBVIOUS
        <3>2. CommandFits(c, shown)
            BY <3>1, CommandOf
        <3>3. CommandFits(c, shown')
            BY <3>2 DEF CommandFits
        <3>4. run'[q] = c
            BY <1>3, <2>2, <3>1
        <3>5. QED  BY <3>3, <3>4
    <2>3. QED  BY <2>1, <2>2
<1>5. run' = [q \in Proc |-> run'[q]]
    BY <1>3
<1>6. QED  BY <1>4, <1>5 DEF RunsFit

\* A command that has no preparation, task or answer yet.
LEMMA BareFits ==
    ASSUME NEW r, NEW s, CommandShaped(r), r.approved \subseteq s,
           r.pc \in {"idle", "context", "next", "plan", "staged"}
    PROVE  CommandFits(r, s)
BY DEF CommandFits

\* A failed command is over, or a class run goes on with its next gap.
LEMMA FailFits ==
    ASSUME RunsFit, NEW p \in Proc, Fail(p), shown \subseteq shown'
    PROVE  RunsFit'
<1>1. PICK r : r = run[p]
    OBVIOUS
<1>2. CommandFits(r, shown)
    BY <1>1, CommandOf
<1>3. CASE Goto(p, Idle)
    <2>1. CommandFits(Idle, shown')
        BY BareFits, CommandFields DEF Idle
    <2>2. QED  BY <1>3, <2>1, GotoFits
<1>4. CASE ~Goto(p, Idle)
    <2>1. PICK q : q = [r EXCEPT !.pc = "next", !.failed = @ + 1, !.gaps = Tail(@),
                                 !.prep = NoPreparation, !.task = <<>>, !.proposal = <<>>]
        OBVIOUS
    <2>2. Goto(p, q)
        BY <1>1, <1>4, <2>1 DEF Fail
    <2>3. CommandShaped(q) /\ q.approved = r.approved /\ q.pc = "next"
        BY <1>2, <2>1, CommandFields DEF CommandFits, CommandShaped
    <2>4. CommandFits(q, shown')
        BY <1>2, <2>3, BareFits DEF CommandFits
    <2>5. QED  BY <2>2, <2>4, GotoFits
<1>5. QED  BY <1>3, <1>4

\* A command that starts approves nothing but what was shown.
LEMMA StartFits ==
    ASSUME RunsFit, NEW p \in Proc,
           EscalationPreview(p) \/ RunEscalation(p) \/ RunClassEscalation(p)
    PROVE  RunsFit'
<1>1. shown' = shown
    BY DEF EscalationPreview, RunEscalation, RunClassEscalation
<1>2. ASSUME NEW r, Goto(p, r), CommandShaped(r), r.approved \subseteq shown, r.pc \in {"plan", "context", "next"}
      PROVE  RunsFit'
    BY <1>1, <1>2, BareFits, GotoFits
<1>3. CASE EscalationPreview(p)
    <2>1. PICK gap \in Gaps : Goto(p, [Idle EXCEPT !.pc = "plan", !.mode = "preview", !.gaps = <<gap>>])
        BY <1>3 DEF EscalationPreview
    <2>2. PICK r : r = [Idle EXCEPT !.pc = "plan", !.mode = "preview", !.gaps = <<gap>>]
        OBVIOUS
    <2>3. CommandShaped(r) /\ r.approved = Idle.approved /\ r.pc = "plan"
        BY <2>2, CommandFields DEF CommandShaped
    <2>4. QED  BY <1>2, <2>1, <2>2, <2>3 DEF Idle
<1>4. CASE RunEscalation(p)
    <2>1. PICK gap \in Gaps, mode \in {"local", "cloud"}, hash \in {{}} \cup {{s} : s \in shown} :
              Goto(p, [Idle EXCEPT !.pc = "context", !.mode = mode, !.gaps = <<gap>>,
                                   !.job = Len(jobs) + 1, !.approved = hash])
        BY <1>4 DEF RunEscalation
    <2>2. PICK r : r = [Idle EXCEPT !.pc = "context", !.mode = mode, !.gaps = <<gap>>,
                                    !.job = Len(jobs) + 1, !.approved = hash]
        OBVIOUS
    <2>3. CommandShaped(r) /\ r.approved = hash /\ r.pc = "context"
        BY <2>2, CommandFields DEF CommandShaped
    <2>4. hash \subseteq shown
        BY <2>1
    <2>5. QED  BY <1>2, <2>1, <2>2, <2>3, <2>4
<1>5. CASE RunClassEscalation(p)
    <2>1. PICK r : r = [Idle EXCEPT !.pc = "next", !.mode = "class", !.job = Len(jobs) + 1, !.gaps = SetToSeq(Gaps)]
        OBVIOUS
    <2>2. CommandShaped(r) /\ r.approved = Idle.approved /\ r.pc = "next"
        BY <2>1, CommandFields DEF CommandShaped
    <2>3. Goto(p, r)
        BY <1>5, <2>1 DEF RunClassEscalation
    <2>4. QED  BY <1>2, <2>2, <2>3 DEF Idle
<1>6. QED  BY <1>3, <1>4, <1>5

\* A process that is over.
LEMMA OverFits ==
    ASSUME RunsFit, NEW p \in Proc, Goto(p, Idle), shown \subseteq shown'
    PROVE  RunsFit'
<1>1. CommandFits(Idle, shown')
    BY BareFits, CommandFields DEF Idle
<1>2. QED  BY <1>1, GotoFits

\* Between its gaps and before its task, a run moves on or ends.
LEMMA LoopFits ==
    ASSUME RunsFit, NEW p \in Proc, NextInstance(p) \/ CheckContext(p) \/ FinishRun(p)
    PROVE  RunsFit'
<1>1. shown' = shown
    BY DEF NextInstance, CheckContext, FinishRun
<1>2. PICK r : r = run[p]
    OBVIOUS
<1>3. CommandFits(r, shown)
    BY <1>2, CommandOf
<1>4. CASE Goto(p, [r EXCEPT !.pc = "plan"])
    <2>1. PICK q : q = [r EXCEPT !.pc = "plan"]
        OBVIOUS
    <2>2. CommandShaped(q) /\ q.approved = r.approved /\ q.pc = "plan"
        BY <1>3, <2>1, CommandFields DEF CommandFits, CommandShaped
    <2>3. CommandFits(q, shown)
        BY <1>3, <2>2, BareFits DEF CommandFits
    <2>4. QED  BY <1>1, <1>4, <2>1, <2>3, GotoFits
<1>5. QED  BY <1>1, <1>2, <1>4, OverFits, FailFits DEF NextInstance, CheckContext, FinishRun

\* A preparation starts from the graph, with no evidence.
LEMMA PlannedFits == ASSUME NEW g, NEW gap PROVE PrepShaped(Planned(g, gap))
<1>1. PICK q : q = Planned(g, gap)
    OBVIOUS
<1>2. q = [f \in DOMAIN NoPreparation |-> q[f]] /\ q.evidence = NoPreparation.evidence
    BY <1>1, PrepFields DEF Planned, PrepShaped
<1>3. QED  BY <1>1, <1>2, PrepFields DEF PrepShaped

\* An omitted request leaves the evidence as it is.
LEMMA OmittedFits ==
    ASSUME NEW q, PrepShaped(q), NEW reason
    PROVE  PrepShaped(Omitted(q, reason))
<1>1. PICK a : a = Attempted(q)
    OBVIOUS
<1>2. a = [f \in DOMAIN NoPreparation |-> a[f]] /\ a.evidence = q.evidence
    BY <1>1, PrepFields DEF Attempted, PrepShaped
<1>3. PICK o : o = Omitted(q, reason)
    OBVIOUS
<1>4. o = [f \in DOMAIN NoPreparation |-> o[f]] /\ o.evidence = a.evidence
    BY <1>1, <1>2, <1>3, PrepFields DEF Omitted
<1>5. QED  BY <1>2, <1>3, <1>4 DEF PrepShaped

\* A supplied text is one more piece of evidence.
LEMMA SuppliedFits ==
    ASSUME NEW q, PrepShaped(q), NEW text, IsText(text), NEW origin
    PROVE  PrepShaped(Supplied(q, text, origin))
<1> DEFINE request == q.plan.requests[NextRequest(q)]
           id == Len(q.evidence) + 1
           e == [id |-> id, ref |-> request.refs[1], text |-> text, fact |-> request.fact, origin |-> origin]
           b == [Attempted(q) EXCEPT
                    !.evidence = Append(@, e),
                    !.candidates = IF request.candidate
                                   THEN Append(@, [node |-> request.fact[2], ids |-> {id}]) ELSE @,
                    !.sources = IF request.candidate THEN @ ELSE Append(@, id)]
<1>1. PICK a : a = Attempted(q)
    OBVIOUS
<1>2. a = [f \in DOMAIN NoPreparation |-> a[f]] /\ a.evidence = q.evidence
    BY <1>1, PrepFields DEF Attempted, PrepShaped
<1>3. Supplied(q, text, origin) = [b EXCEPT !.report.evidence = Len(b.evidence), !.report.candidates = Len(b.candidates)]
    BY DEF Supplied
<1>4. e = [id |-> e.id, ref |-> e.ref, text |-> e.text, fact |-> e.fact, origin |-> e.origin] /\ e.text = text
    OBVIOUS
<1> HIDE DEF e, id, request
<1>5. b = [f \in DOMAIN NoPreparation |-> b[f]] /\ b.evidence = Append(q.evidence, e)
    BY <1>1, <1>2, PrepFields
<1> HIDE DEF b
<1>6. PICK n : n = Supplied(q, text, origin)
    OBVIOUS
<1>7. n = [f \in DOMAIN NoPreparation |-> n[f]] /\ n.evidence = Append(q.evidence, e)
    BY <1>3, <1>5, <1>6, PrepFields
<1>8. PICK s : s = Append(q.evidence, e)
    OBVIOUS
<1>9. EvidenceShaped(s)
    <2>1. q.evidence \in Seq(Range(q.evidence))
        BY DEF PrepShaped, EvidenceShaped
    <2>2. s \in Seq(Range(q.evidence) \cup {e}) /\ Len(s) = Len(q.evidence) + 1
          /\ \A i \in 1..Len(q.evidence) : s[i] = q.evidence[i]
          /\ s[Len(s)] = e
        BY <1>8, <2>1
    <2>3. Range(s) \subseteq Range(q.evidence) \cup {e}
        BY <2>2 DEF Range
    <2>4. s \in Seq(Range(s))
        BY <2>2 DEF Range
    <2>5. QED  BY <1>4, <2>3, <2>4 DEF PrepShaped, EvidenceShaped
<1>10. QED  BY <1>6, <1>7, <1>8, <1>9 DEF PrepShaped

\* So is a captured one, whose file counts as validated.
LEMMA CapturedFits ==
    ASSUME NEW q, PrepShaped(q), NEW b, NEW receipt, IsText(receipt.text)
    PROVE  PrepShaped(SuppliedCaptured(q, b, receipt))
<1>1. PICK a : a = Supplied(q, receipt.text, [receipt |-> {b.receipt}, file |-> receipt.file]) /\ PrepShaped(a)
    BY SuppliedFits
<1>2. PICK n : n = SuppliedCaptured(q, b, receipt)
    OBVIOUS
<1>3. n = [f \in DOMAIN NoPreparation |-> n[f]] /\ n.evidence = a.evidence
    BY <1>1, <1>2, PrepFields DEF SuppliedCaptured, PrepShaped
<1>4. QED  BY <1>1, <1>2, <1>3 DEF PrepShaped

Reading == {"preliminary", "guards", "guarded", "reading"}

\* A command that reads its evidence.
LEMMA ReadingFits ==
    ASSUME RunsFit, NEW p \in Proc, UNCHANGED shown, NEW q, Goto(p, q),
           CommandShaped(q), q.approved = run[p].approved, q.pc \in Reading, PrepShaped(q.prep)
    PROVE  RunsFit'
<1>1. q.approved \subseteq shown
    BY CommandOf DEF CommandFits
<1>2. CommandFits(q, shown)
    BY <1>1 DEF CommandFits, Reading
<1>3. QED  BY <1>2, GotoFits

\* The preparation of a task, up to its evidence.
LEMMA PreparationFits ==
    ASSUME RunsFit, NEW p \in Proc,
           ReadGraph(p) \/ ReadPreliminary(p) \/ AcquireGuards(p) \/ ReadAuthoritative(p)
    PROVE  RunsFit'
<1>1. UNCHANGED shown
    BY DEF ReadGraph, ReadPreliminary, AcquireGuards, ReadAuthoritative, PreparationRest
<1>2. PICK r : r = run[p]
    OBVIOUS
<1>3. CommandShaped(r) /\ (r.pc \in Reading => PrepShaped(r.prep))
    BY <1>2, CommandOf DEF CommandFits, Reading
<1>4. CASE Fail(p)
    BY <1>1, <1>4, FailFits
<1>5. CASE ReadGraph(p) /\ ~Fail(p)
    <2>1. PICK prep : prep = Planned(world.graph, Head(r.gaps)) /\ PrepShaped(prep)
        BY PlannedFits
    <2>2. PICK q : q = [r EXCEPT !.pc = "preliminary", !.prep = prep]
        OBVIOUS
    <2>3. CommandShaped(q) /\ q.approved = r.approved /\ q.pc = "preliminary" /\ q.prep = prep
        BY <1>3, <2>2, CommandFields DEF CommandShaped
    <2>4. Goto(p, q)
        BY <1>2, <1>5, <2>1, <2>2 DEF ReadGraph
    <2>5. QED  BY <1>1, <1>2, <2>1, <2>3, <2>4, ReadingFits DEF Reading
<1>6. CASE ReadPreliminary(p) /\ ~Fail(p)
    <2>1. PICK prep, selections :
              prep = [r.prep EXCEPT !.preliminary = selections]
              /\ Goto(p, [r EXCEPT !.pc = "guards", !.prep.preliminary = selections])
        BY <1>2, <1>6 DEF ReadPreliminary
    <2>2. PICK q : q = [r EXCEPT !.pc = "guards", !.prep.preliminary = selections]
        OBVIOUS
    <2>3. CommandShaped(q) /\ q.approved = r.approved /\ q.pc = "guards" /\ q.prep = prep
        BY <1>3, <2>1, <2>2, CommandFields DEF CommandShaped
    <2>4. PrepShaped(r.prep)
        BY <1>2, <1>3, <1>6 DEF ReadPreliminary, Reading
    <2>5. prep = [f \in DOMAIN NoPreparation |-> prep[f]] /\ prep.evidence = r.prep.evidence
        BY <2>1, <2>4, PrepFields DEF PrepShaped
    <2>6. PrepShaped(prep)
        BY <2>4, <2>5 DEF PrepShaped
    <2>7. QED  BY <1>1, <1>2, <2>1, <2>2, <2>3, <2>6, ReadingFits DEF Reading
<1>7. CASE AcquireGuards(p) /\ ~Fail(p)
    <2>1. PICK q : q = [r EXCEPT !.pc = "guarded"]
        OBVIOUS
    <2>2. CommandShaped(q) /\ q.approved = r.approved /\ q.pc = "guarded" /\ q.prep = r.prep
        BY <1>3, <2>1, CommandFields DEF CommandShaped
    <2>3. Goto(p, q) /\ PrepShaped(r.prep)
        BY <1>2, <1>3, <1>7, <2>1 DEF AcquireGuards, Reading
    <2>4. QED  BY <1>1, <1>2, <2>2, <2>3, ReadingFits DEF Reading
<1>8. CASE ReadAuthoritative(p) /\ ~Fail(p)
    <2>1. PICK prep, selections :
              prep = [r.prep EXCEPT !.authoritative = selections]
              /\ Goto(p, [r EXCEPT !.pc = "reading", !.prep = prep])
        BY <1>2, <1>8 DEF ReadAuthoritative
    <2>2. PICK q : q = [r EXCEPT !.pc = "reading", !.prep = prep]
        OBVIOUS
    <2>3. CommandShaped(q) /\ q.approved = r.approved /\ q.pc = "reading" /\ q.prep = prep
        BY <1>3, <2>2, CommandFields DEF CommandShaped
    <2>4. PrepShaped(r.prep)
        BY <1>2, <1>3, <1>8 DEF ReadAuthoritative, Reading
    <2>5. prep = [f \in DOMAIN NoPreparation |-> prep[f]] /\ prep.evidence = r.prep.evidence
        BY <2>1, <2>4, PrepFields DEF PrepShaped
    <2>6. PrepShaped(prep)
        BY <2>4, <2>5 DEF PrepShaped
    <2>7. QED  BY <1>1, <1>2, <2>1, <2>2, <2>3, <2>6, ReadingFits DEF Reading
<1>9. QED  BY <1>4, <1>5, <1>6, <1>7, <1>8

\* One turn of the loop: a text of a receipt that is still retained or of
\* the working tree, or none.
LEMMA ReadRequestFits ==
    ASSUME RunsFit, WorldFits, NEW p \in Proc, ReadRequest(p)
    PROVE  RunsFit'
<1>1. UNCHANGED shown
    BY DEF ReadRequest, PreparationRest
<1>2. PICK r : r = run[p]
    OBVIOUS
<1>3. CommandShaped(r) /\ PrepShaped(r.prep) /\ r.pc = "reading"
    BY <1>2, CommandOf DEF CommandFits, ReadRequest
<1>4. CASE Fail(p)
    BY <1>1, <1>4, FailFits
<1>5. ASSUME NEW prep, PrepShaped(prep), Goto(p, [r EXCEPT !.prep = prep])
      PROVE  RunsFit'
    <2>1. PICK q : q = [r EXCEPT !.prep = prep]
        OBVIOUS
    <2>2. CommandShaped(q) /\ q.approved = r.approved /\ q.pc = "reading" /\ q.prep = prep
        BY <1>3, <2>1, CommandFields DEF CommandShaped
    <2>3. QED  BY <1>1, <1>2, <1>5, <2>1, <2>2, ReadingFits DEF Reading
<1>6. CASE \E reason : Goto(p, [r EXCEPT !.prep = Omitted(r.prep, reason)])
    BY <1>3, <1>5, <1>6, OmittedFits
<1>7. CASE \E b : CapturedReadable(r.prep, r.prep.plan.requests[NextRequest(r.prep)], b, world.retained, Receipts)
                 /\ Goto(p, [r EXCEPT !.prep = SuppliedCaptured(r.prep, b, Receipts[b.receipt])])
    <2>1. PICK b : CapturedReadable(r.prep, r.prep.plan.requests[NextRequest(r.prep)], b, world.retained, Receipts)
                   /\ Goto(p, [r EXCEPT !.prep = SuppliedCaptured(r.prep, b, Receipts[b.receipt])])
        BY <1>7
    <2>2. b.receipt \in DOMAIN Receipts
        BY <2>1 DEF CapturedReadable, WorldFits
    <2>3. IsText(Receipts[b.receipt].text)
        BY <2>2, TextsAssumption
    <2>4. PICK receipt : receipt = Receipts[b.receipt]
        OBVIOUS
    <2>5. PrepShaped(SuppliedCaptured(r.prep, b, receipt))
        BY <1>3, <2>3, <2>4, CapturedFits
    <2>6. QED  BY <1>5, <2>1, <2>4, <2>5
<1>8. CASE \E ref : \E t \in LegacyText(ref, world.tree) :
               Goto(p, [r EXCEPT !.prep = Supplied(r.prep, t, WorkingTreeUnverified)])
    <2>1. PICK ref : \E t \in LegacyText(ref, world.tree) :
               Goto(p, [r EXCEPT !.prep = Supplied(r.prep, t, WorkingTreeUnverified)])
        BY <1>8
    <2>2. PICK t \in LegacyText(ref, world.tree) :
               Goto(p, [r EXCEPT !.prep = Supplied(r.prep, t, WorkingTreeUnverified)])
        BY <2>1
    <2>3. IsText(t)
        BY <2>2, TextsAssumption DEF LegacyText, WorldFits
    <2>4. QED  BY <1>3, <1>5, <2>2, <2>3, SuppliedFits
<1>9. QED  BY <1>2, <1>4, <1>6, <1>7, <1>8 DEF ReadRequest

\* The task that comes out of the loop.
LEMMA TaskFits ==
    ASSUME NEW q, PrepShaped(q)
    PROVE  TaskShaped(TaskOf(q)) /\ TaskOf(q).evidence = q.evidence
<1>1. TaskOf(q).evidence = q.evidence
    BY DEF TaskOf
<1>2. QED  BY <1>1 DEF TaskOf, TaskShaped, PrepShaped

\* The loop leaves a task that holds its contract, or none.
LEMMA FinishReadingFits ==
    ASSUME RunsFit, NEW p \in Proc, FinishReading(p)
    PROVE  RunsFit'
<1>1. UNCHANGED shown
    BY DEF FinishReading, PreparationRest
<1>2. PICK r : r = run[p] /\ CommandFits(r, shown)
    BY CommandOf
<1>3. CommandShaped(r) /\ PrepShaped(r.prep)
    BY <1>2 DEF CommandFits, FinishReading
<1>4. CASE Fail(p)
    BY <1>1, <1>4, FailFits
<1>5. CASE ~Fail(p)
    <2>1. PICK t : t = TaskOf(r.prep) /\ TaskShaped(t)
        BY <1>3, TaskFits
    <2>2. PICK q : q = [r EXCEPT !.pc = "prepared", !.task = t, !.prep = NoPreparation]
        OBVIOUS
    <2>3. CommandShaped(q) /\ q.approved = r.approved /\ q.pc = "prepared" /\ q.task = t
        BY <1>3, <2>2, CommandFields DEF CommandShaped
    <2>4. Goto(p, q)
        BY <1>2, <1>5, <2>1, <2>2 DEF FinishReading
    <2>5. CommandFits(q, shown)
        BY <1>2, <2>1, <2>3 DEF CommandFits
    <2>6. QED  BY <1>1, <2>4, <2>5, GotoFits
<1>6. QED  BY <1>4, <1>5

\* A preview holds no secret of its task's evidence.
LEMMA PreviewRedacted ==
    ASSUME NEW t, TaskShaped(t)
    PROVE  RedactedPreview(PreviewOf(t))
<1> DEFINE hidden == [i \in DOMAIN t.evidence |-> [t.evidence[i] EXCEPT !.text = Redacted(t.evidence[i].text)]]
<1>1. PreviewOf(t).evidence = hidden
    BY DEF PreviewOf, TaskShaped
<1>2. ASSUME NEW i \in DOMAIN t.evidence PROVE hidden[i].text.secret = "redacted"
    <2>1. t.evidence[i] \in Range(t.evidence)
        BY DEF Range
    <2>2. PICK e : e = t.evidence[i] /\ IsText(e.text)
                   /\ e = [id |-> e.id, ref |-> e.ref, text |-> e.text, fact |-> e.fact, origin |-> e.origin]
        BY <2>1 DEF TaskShaped, EvidenceShaped
    <2>3. PICK x : x = e.text /\ x = [v |-> x.v, secret |-> x.secret, bytes |-> x.bytes]
        BY <2>2 DEF IsText
    <2>4. Redacted(x).secret = "redacted"
        BY <2>3 DEF Redacted
    <2>5. [e EXCEPT !.text = Redacted(x)].text = Redacted(x)
        BY <2>2
    <2>6. hidden[i] = [e EXCEPT !.text = Redacted(x)]
        BY <2>2, <2>3
    <2>7. hidden[i].text = Redacted(x)
        BY <2>5, <2>6
    <2>8. QED  BY <2>4, <2>7
<1>3. DOMAIN hidden = DOMAIN t.evidence
    OBVIOUS
<1> HIDE DEF hidden
<1>4. QED  BY <1>1, <1>2, <1>3 DEF RedactedPreview, Range

\* A preview that is shown is redacted.
LEMMA ShowPreviewFits ==
    ASSUME RunsFit, ConsentFits, NEW p \in Proc, ShowPreview(p)
    PROVE  RunsFit' /\ ConsentFits'
<1>1. PICK t : t = run[p].task
    OBVIOUS
<1>2. TaskShaped(t)
    BY <1>1, CommandOf DEF CommandFits, ShowPreview
<1>3. shown \subseteq shown' /\ shown' \subseteq shown \cup {PreviewOf(t)} /\ sent' = sent
    BY <1>1 DEF ShowPreview
<1>4. RunsFit'
    BY <1>3, OverFits DEF ShowPreview
<1>5. QED  BY <1>2, <1>3, <1>4, PreviewRedacted DEF ConsentFits

\* The grant of a cloud run is what it approved.
LEMMA AuthorizeFits ==
    ASSUME RunsFit, NEW p \in Proc, Authorize(p) \/ CheckBeforeCall(p)
    PROVE  RunsFit'
<1>1. UNCHANGED shown
    BY DEF Authorize, CheckBeforeCall
<1>2. PICK r : r = run[p] /\ CommandFits(r, shown)
    BY CommandOf
<1>3. CommandShaped(r) /\ TaskShaped(r.task)
    BY <1>2 DEF CommandFits, Authorize, CheckBeforeCall
<1>4. CASE Fail(p)
    BY <1>1, <1>4, FailFits
<1>5. CASE Authorize(p) /\ ~Fail(p)
    <2>1. PICK g, cloud : g = GrantFor(PreviewOf(r.task), r.approved) /\ cloud = CloudAllowed
        OBVIOUS
    <2>2. PICK grant : grant = (IF r.mode = "cloud" THEN g ELSE {})
        OBVIOUS
    <2>3. PICK q : q = [r EXCEPT !.pc = "authorized", !.cloud = cloud, !.grant = grant]
        OBVIOUS
    <2>4. Goto(p, q) /\ (r.mode = "cloud" => g # {})
        BY <1>2, <1>5, <2>1, <2>2, <2>3 DEF Authorize
    <2>5. CommandShaped(q) /\ q.approved = r.approved /\ q.pc = "authorized" /\ q.task = r.task
          /\ q.mode = r.mode /\ q.grant = grant
        BY <1>3, <2>3, CommandFields DEF CommandShaped
    <2>6. r.mode = "cloud" => grant = r.approved
        BY <2>1, <2>2, <2>4 DEF GrantFor
    <2>7. CommandFits(q, shown)
        BY <1>2, <1>3, <2>5, <2>6 DEF CommandFits
    <2>8. QED  BY <1>1, <2>4, <2>7, GotoFits
<1>6. CASE CheckBeforeCall(p) /\ ~Fail(p)
    <2>1. PICK q : q = [r EXCEPT !.pc = "calling"]
        OBVIOUS
    <2>2. CommandShaped(q) /\ q.approved = r.approved /\ q.pc = "calling" /\ q.task = r.task
          /\ q.mode = r.mode /\ q.grant = r.grant
        BY <1>3, <2>1, CommandFields DEF CommandShaped
    <2>3. Goto(p, q) /\ r.pc = "authorized"
        BY <1>2, <1>6, <2>1 DEF CheckBeforeCall
    <2>4. CommandFits(q, shown)
        BY <1>2, <1>3, <2>2, <2>3 DEF CommandFits
    <2>5. QED  BY <1>1, <2>3, <2>4, GotoFits
<1>7. QED  BY <1>4, <1>5, <1>6

\* The cloud receives the preview that its grant names; the broker's
\* proposal is of an answer that is valid for the task.
LEMMA CallModelFits ==
    ASSUME RunsFit, ConsentFits, NEW p \in Proc, CallModel(p)
    PROVE  RunsFit' /\ ConsentFits'
<1>1. UNCHANGED shown
    BY DEF CallModel
<1>2. PICK r : r = run[p] /\ CommandFits(r, shown)
    BY CommandOf
<1>3. CommandShaped(r) /\ r.pc = "calling"
    BY <1>2 DEF CommandFits, CallModel
<1>4. ConsentFits'
    <2>1. CASE sent' = sent
        BY <1>1, <2>1 DEF ConsentFits
    <2>2. CASE sent' # sent
        <3>1. PICK v : v = PreviewOf(r.task)
            OBVIOUS
        <3>2. r.mode = "cloud" /\ sent' = sent \cup {[preview |-> v, approved |-> r.approved]} /\ r.grant = {v}
            BY <1>2, <2>2, <3>1 DEF CallModel, Permitted
        <3>3. r.approved = {v} /\ r.approved \subseteq shown
            BY <1>2, <1>3, <3>2 DEF CommandFits
        <3>4. QED  BY <1>1, <3>2, <3>3 DEF ConsentFits
    <2>3. QED  BY <2>1, <2>2
<1>5. CASE Fail(p)
    BY <1>1, <1>4, <1>5, FailFits
<1>6. CASE ~Fail(p)
    <2>1. PICK raw \in Answers :
              /\ ValidAnswer(r.task, raw)
              /\ Goto(p, [r EXCEPT !.pc = "answered", !.proposal = ProposalOf(r.task, raw)])
        BY <1>2, <1>6 DEF CallModel
    <2>2. PICK proposal : proposal = ProposalOf(r.task, raw)
        OBVIOUS
    <2>3. PICK q : q = [r EXCEPT !.pc = "answered", !.proposal = proposal]
        OBVIOUS
    <2>4. CommandShaped(q) /\ q.approved = r.approved /\ q.pc = "answered" /\ q.task = r.task
          /\ q.proposal = proposal
        BY <1>3, <2>3, CommandFields DEF CommandShaped
    <2>5. CommandFits(q, shown)
        BY <1>2, <2>1, <2>2, <2>4 DEF CommandFits
    <2>6. QED  BY <1>1, <1>4, <2>1, <2>2, <2>3, <2>5, GotoFits
<1>7. QED  BY <1>5, <1>6

\* A staged answer ends its instance or its run.
LEMMA StageAnswerRun ==
    ASSUME RunsFit, NEW p \in Proc, StageAnswer(p)
    PROVE  RunsFit'
<1>1. UNCHANGED shown
    BY DEF StageAnswer
<1>2. PICK r : r = run[p] /\ CommandFits(r, shown)
    BY CommandOf
<1>3. CommandShaped(r) /\ r.approved \subseteq shown
    BY <1>2 DEF CommandFits
<1>4. CASE Fail(p)
    BY <1>1, <1>4, FailFits
<1>5. CASE ~Fail(p)
    <2>1. PICK a : a = [r EXCEPT !.pc = "next", !.staged = @ + 1, !.gaps = Tail(@), !.task = <<>>, !.proposal = <<>>]
        OBVIOUS
    <2>2. PICK b : b = [r EXCEPT !.pc = "staged", !.task = <<>>, !.proposal = <<>>]
        OBVIOUS
    <2>3. Goto(p, a) \/ Goto(p, b)
        BY <1>2, <1>5, <2>1, <2>2 DEF StageAnswer
    <2>4. CommandShaped(a) /\ a.approved = r.approved /\ a.pc = "next"
        BY <1>3, <2>1, CommandFields DEF CommandShaped
    <2>5. CommandShaped(b) /\ b.approved = r.approved /\ b.pc = "staged"
        BY <1>3, <2>2, CommandFields DEF CommandShaped
    <2>6. CommandFits(a, shown) /\ CommandFits(b, shown)
        BY <1>3, <2>4, <2>5, BareFits
    <2>7. QED  BY <1>1, <2>3, <2>6, GotoFits
<1>6. QED  BY <1>4, <1>5

-----------------------------------------------------------------------------
(* Escalation: answers and their history.                                  *)

\* The citations of a valid answer are an assignment of its references.
LEMMA ReconstructedAnswer ==
    ASSUME NEW t, NEW raw \in Answers, ValidAnswer(t, raw)
    PROVE  Reconstructed(t, ProposalOf(t, raw))
<1>1. PICK p : p = ProposalOf(t, raw)
    OBVIOUS
<1>2. /\ raw = [target |-> raw.target, citations |-> raw.citations, bytes |-> raw.bytes, replays |-> raw.replays]
      /\ raw.citations \in Seq(Range(raw.citations))
    BY AnswersAssumption
<1>3. PICK f : f = raw.citations
    OBVIOUS
<1>4. f = [i \in DOMAIN f |-> f[i]] /\ IsInjective(f) /\ Range(f) \subseteq Ids(t)
      /\ Range(f) \cap Range(t.sources) # {} /\ Range(f) \cap Candidate(t, raw.target).ids # {}
    BY <1>2, <1>3 DEF ValidAnswer
<1>5. p.target = raw.target /\ p.bytes = raw.bytes /\ p.replays = raw.replays
      /\ p.refs = [i \in DOMAIN f |-> RefOf(t, f[i])]
    BY <1>1, <1>3 DEF ProposalOf
<1>6. PICK refs : refs = p.refs /\ DOMAIN refs = DOMAIN f /\ \A i \in DOMAIN refs : RefOf(t, f[i]) = refs[i]
    BY <1>5
<1>7. f \in [DOMAIN refs -> Ids(t)]
    BY <1>4, <1>6 DEF Range
<1>8. f \in Matches(t, refs)
    BY <1>4, <1>6, <1>7 DEF Matches
<1>9. f \in CitationAssignments(t, p.target, p.refs)
    BY <1>4, <1>5, <1>6, <1>8 DEF CitationAssignments
<1>10. [target |-> p.target, citations |-> f, bytes |-> p.bytes, replays |-> p.replays] = raw
    BY <1>2, <1>3, <1>5
<1>11. QED  BY <1>1, <1>9, <1>10 DEF Reconstructed

\* A rejected row keeps its content.
LEMMA RejectedFields ==
    ASSUME NEW x, RowShaped(x), NEW rev
    PROVE  /\ Rejected(x, rev).content = x.content
           /\ Rejected(x, rev).rev = rev /\ Rejected(x, rev).note = 0
<1>1. DOMAIN x = {"content", "rev", "decision", "note"}
    BY DEF RowShaped
<1>2. QED  BY <1>1 DEF Rejected

\* A row's content decides whether it can always be rejected.
LEMMA HeadroomStays ==
    ASSUME NEW old, NEW row, RowShaped(old), RowShaped(row), old.content = row.content, ReviewHeadroom(old)
    PROVE  ReviewHeadroom(row)
<1>1. PICK a : a = Rejected(old, LongestRevision)
    OBVIOUS
<1>2. PICK b : b = Rejected(row, LongestRevision)
    OBVIOUS
<1>3. a.content = b.content /\ a.rev = b.rev /\ a.note = b.note
    BY <1>1, <1>2, RejectedFields
<1>4. RecordBytes(a) = RecordBytes(b)
    BY <1>3 DEF RecordBytes
<1>5. QED  BY <1>1, <1>2, <1>4 DEF ReviewHeadroom

\* The longest revision leaves less room than any other.
LEMMA RowReviewable ==
    ASSUME NEW row, RowFits(row)
    PROVE  RecordBytes(Rejected(row, row.rev + 1)) <= MaxRecord
<1>1. PICK a : a = Rejected(row, LongestRevision)
    OBVIOUS
<1>2. PICK b : b = Rejected(row, row.rev + 1)
    OBVIOUS
<1>3. a.content = row.content /\ a.rev = 2 /\ a.note = 0
    BY <1>1, RejectedFields DEF LongestRevision, RowFits
<1>4. b.content = row.content /\ b.rev = row.rev + 1 /\ b.note = 0
    BY <1>2, RejectedFields DEF RowFits
<1>5. row.content.bytes \in Nat /\ row.rev \in Nat /\ RecordBytes(a) <= MaxRecord
    BY <1>1 DEF RowFits, ReviewHeadroom
<1>6. RecordBytes(a) = row.content.bytes + 2 + 1 + 0
    BY <1>3, <1>5 DEF RecordBytes, RevisionBytes, LongestRevision
<1>7. RecordBytes(b) = row.content.bytes + RevisionBytes(row.rev + 1) + 1 + 0 /\ RevisionBytes(row.rev + 1) \in {1, 2}
    BY <1>4, <1>5 DEF RecordBytes, RevisionBytes
<1>8. QED  BY <1>2, <1>5, <1>6, <1>7, StagingAssumption

\* An answer is appended to the rows, or they stay.
LEMMA StageAnswerRows ==
    ASSUME RunsFit, RowsFit, NEW p \in Proc, StageAnswer(p)
    PROVE  /\ RowsFit' /\ Len(rows) <= Len(rows')
           /\ \A i \in 1..Len(rows) : rows'[i] = rows[i]
<1>0. rows \in Seq(Range(rows)) /\ Len(rows) \in Nat
    BY DEF RowsFit
<1>1. CASE rows' = rows
    BY <1>0, <1>1 DEF RowsFit
<1>2. CASE rows' # rows
    <2>1. PICK r : r = run[p] /\ CommandFits(r, shown) /\ r.pc = "answered"
        BY CommandOf DEF StageAnswer
    <2>2. PICK c : c = Content(r.task, r.proposal, r.job)
        OBVIOUS
    <2>3. Fits(c) /\ rows' = Persisted(rows, c)
        BY <1>2, <2>1, <2>2 DEF StageAnswer
    <2>4. PICK raw \in Answers : r.proposal = ProposalOf(r.task, raw)
        BY <2>1 DEF CommandFits
    <2>5. c.bytes = raw.bytes
        BY <2>2, <2>4 DEF Content, ProposalOf
    <2>6. PICK row : row = NewRow(c)
        OBVIOUS
    <2>7. row = [content |-> c, rev |-> 0, decision |-> "none", note |-> 0]
        BY <2>6 DEF NewRow
    <2>8. RowFits(row)
        BY <2>3, <2>4, <2>5, <2>6, <2>7, AnswersAssumption DEF RowFits, RowShaped, Fits
    <2>9. rows' = Append(rows, row)
        BY <1>2, <2>3, <2>6 DEF Persisted
    <2>10. rows' \in Seq(Range(rows) \cup {row}) /\ Len(rows') = Len(rows) + 1 /\ rows'[Len(rows')] = row
        BY <1>0, <2>9
    <2>11. \A i \in 1..Len(rows) : rows'[i] = rows[i]
        BY <1>0, <2>9
    <2>12. rows' \in Seq(Range(rows'))
        BY <2>10 DEF Range
    <2>13. ASSUME NEW i \in 1..Len(rows') PROVE RowFits(rows'[i])
        <3>1. CASE i = Len(rows')
            BY <2>8, <2>10, <3>1
        <3>2. CASE i # Len(rows')
            BY <1>0, <2>10, <2>11, <3>2 DEF RowsFit
        <3>3. QED  BY <3>1, <3>2
    <2>14. QED  BY <1>0, <2>10, <2>11, <2>12, <2>13 DEF RowsFit
<1>3. QED  BY <1>1, <1>2

\* A walk reads the newest of the rows below its ceiling.
LEMMA WalkReads ==
    ASSUME NEW w, NEW history, Len(history) \in Nat, WalkFits(w, history)
    PROVE  /\ w.ceiling \in 0..Len(history) /\ Len(w.read) \in 0..w.ceiling
           /\ DOMAIN w.read = 1..Len(w.read)
           /\ \A i \in 1..Len(w.read) : w.read[i] = w.ceiling - i + 1
           /\ Range(w.read) = {s \in 1..Len(history) : w.ceiling - Len(w.read) < s /\ s <= w.ceiling}
<1>1. PICK c, k, read : c = w.ceiling /\ k = Len(w.read) /\ read = w.read
    OBVIOUS
<1>2. c \in 0..Len(history) /\ k \in 0..c /\ read = [i \in 1..k |-> c - i + 1]
    BY <1>1 DEF WalkFits
<1>3. DOMAIN read = 1..k /\ \A i \in 1..k : read[i] = c - i + 1
    BY <1>2
<1>4. Range(read) = {s \in 1..Len(history) : c - k < s /\ s <= c}
    <2>1. ASSUME NEW s \in Range(read) PROVE s \in 1..Len(history) /\ c - k < s /\ s <= c
        <3>1. PICK i \in 1..k : s = c - i + 1
            BY <1>3 DEF Range
        <3>2. QED  BY <1>2, <3>1
    <2>2. ASSUME NEW s \in 1..Len(history), c - k < s, s <= c PROVE s \in Range(read)
        <3>1. c - s + 1 \in 1..k
            BY <1>2, <2>2
        <3>2. read[c - s + 1] = c - (c - s + 1) + 1
            BY <1>3, <3>1
        <3>3. c - (c - s + 1) + 1 = s
            BY <1>2
        <3>4. QED  BY <1>3, <3>1, <3>2, <3>3 DEF Range
    <2>3. QED  BY <2>1, <2>2
<1>5. QED  BY <1>1, <1>2, <1>3, <1>4

\* What a walk has read stays read while rows are added.
LEMMA WalkStays ==
    ASSUME NEW w, NEW old, NEW history, Len(old) \in Nat, Len(history) \in Nat, Len(old) <= Len(history),
           \A i \in 1..Len(old) : history[i] = old[i], WalkFits(w, old)
    PROVE  WalkFits(w, history)
<1>0. Range(w.read) \subseteq 1..Len(old)
    BY WalkReads
<1>1. \A s \in Range(w.read) : SeenFits(w.seen[s], history[s])
    BY <1>0 DEF WalkFits
<1>2. w.ceiling \in 0..Len(history)
    BY WalkReads
<1>3. QED  BY <1>1, <1>2 DEF WalkFits

\* The page after k of c rows, and the rows that it leaves.
NextPage(c, k) == PageSequences(c, c - k + 1)
Older(c, k) == {s \in 1..c : s < c - k + 1 /\ s \notin Range(NextPage(c, k))}

\* A page takes the newest rows below the cursor.
LEMMA PageReads ==
    ASSUME NEW c \in Nat, NEW k \in 0..c
    PROVE  \E n \in 0..(c - k) :
               /\ NextPage(c, k) = [i \in 1..n |-> c - k - i + 1] /\ Len(NextPage(c, k)) = n
               /\ c > k => n > 0
<1> DEFINE upto == IF (c - k + 1) - 1 < c THEN (c - k + 1) - 1 ELSE c
<1>1. PICK n : n = (IF c - k < PageItems THEN c - k ELSE PageItems)
    OBVIOUS
<1>2. upto = c - k
    OBVIOUS
<1>3. n \in 0..(c - k) /\ (c > k => n > 0)
    BY <1>1, StagingAssumption
<1>4. NextPage(c, k) = [i \in 1..(IF upto < PageItems THEN upto ELSE PageItems) |-> upto - i + 1]
    BY DEF NextPage, PageSequences
<1> HIDE DEF upto
<1>5. NextPage(c, k) = [i \in 1..n |-> c - k - i + 1]
    BY <1>1, <1>2, <1>4
<1>6. n \in Nat
    BY <1>3
<1>7. Len(NextPage(c, k)) = n
    BY <1>5, <1>6
<1>8. QED  BY <1>3, <1>5, <1>7

\* What is left after a page, and where the next one starts.
LEMMA PageLeaves ==
    ASSUME NEW c \in Nat, NEW k \in 0..c
    PROVE  \/ /\ Len(NextPage(c, k)) = c - k
              /\ NextCursor(NextPage(c, k), c, Older(c, k)) = {}
           \/ NextCursor(NextPage(c, k), c, Older(c, k)) =
                  {[ceiling |-> c, before |-> c - (k + Len(NextPage(c, k))) + 1]}
<1>1. PICK page, older : page = NextPage(c, k) /\ older = Older(c, k)
    OBVIOUS
<1>2. PICK n \in 0..(c - k) :
          page = [i \in 1..n |-> c - k - i + 1] /\ Len(page) = n /\ (c > k => n > 0)
    BY <1>1, PageReads
<1>3. DOMAIN page = 1..n /\ \A i \in 1..n : page[i] = c - k - i + 1
    BY <1>2
<1>4. ASSUME older = {} PROVE n = c - k
    <2>1. SUFFICES ASSUME n # c - k PROVE FALSE
        OBVIOUS
    <2>2. c - k - n \in 1..c /\ c - k - n < c - k + 1
        BY <1>2, <2>1
    <2>3. c - k - n \in Range(page)
        BY <1>1, <1>4, <2>2 DEF Older
    <2>4. PICK i \in 1..n : c - k - n = c - k - i + 1
        BY <1>3, <2>3 DEF Range
    <2>5. QED  BY <1>2, <2>4
<1>5. ASSUME older # {} PROVE n > 0
    <2>1. PICK s \in 1..c : s < c - k + 1
        BY <1>1, <1>5 DEF Older
    <2>2. QED  BY <1>2, <2>1
<1>6. ASSUME older # {} PROVE NextCursor(page, c, older) = {[ceiling |-> c, before |-> c - (k + n) + 1]}
    <2>1. Last(page) = c - k - n + 1
        BY <1>2, <1>3, <1>5, <1>6 DEF Last
    <2>2. c - k - n + 1 = c - (k + n) + 1
        BY <1>2
    <2>3. QED  BY <1>6, <2>1, <2>2 DEF NextCursor
<1>7. older = {} => NextCursor(page, c, older) = {}
    BY DEF NextCursor
<1>8. QED  BY <1>1, <1>2, <1>4, <1>6, <1>7

\* The page that a first or a following request reads.
LEMMA PageFollows ==
    ASSUME NEW history, Len(history) \in Nat, NEW c \in Nat, NEW k \in 0..c, NEW cursor,
           \/ cursor = {} /\ c = Len(history) /\ k = 0
           \/ cursor = {[ceiling |-> c, before |-> c - k + 1]}
    PROVE  Page(history, cursor) =
               [ceiling |-> c, sequences |-> NextPage(c, k), next |-> NextCursor(NextPage(c, k), c, Older(c, k))]
<1>1. CASE cursor = {} /\ c = Len(history) /\ k = 0
    <2>1. Len(history) + 1 = c - k + 1
        BY <1>1
    <2>2. QED  BY <1>1, <2>1 DEF Page, NextPage, Older
<1>2. CASE cursor = {[ceiling |-> c, before |-> c - k + 1]}
    <2>1. PICK at : at = [ceiling |-> c, before |-> c - k + 1]
        OBVIOUS
    <2>2. at.ceiling = c /\ at.before = c - k + 1
        BY <2>1
    <2>3. cursor # {} /\ (CHOOSE x \in cursor : TRUE) = at
        BY <1>2, <2>1
    <2>4. QED  BY <2>2, <2>3 DEF Page, NextPage, Older
<1>3. QED  BY <1>1, <1>2

\* The rows of a page follow those that were read before.
LEMMA RunsDown ==
    ASSUME NEW c \in Nat, NEW k \in 0..c, NEW base, base = [i \in 1..k |-> c - i + 1]
    PROVE  /\ base \o NextPage(c, k) = [i \in 1..(k + Len(NextPage(c, k))) |-> c - i + 1]
           /\ Len(base \o NextPage(c, k)) = k + Len(NextPage(c, k))
           /\ k + Len(NextPage(c, k)) \in 0..c
<1>1. PICK page : page = NextPage(c, k)
    OBVIOUS
<1>2. PICK n \in 0..(c - k) : page = [i \in 1..n |-> c - k - i + 1] /\ Len(page) = n
    BY <1>1, PageReads
<1>3. n \in Nat /\ k \in Nat /\ k + n \in 0..c
    BY <1>2
<1>4. base \in Seq(Int) /\ Len(base) = k /\ page \in Seq(Int)
    BY <1>2, <1>3
<1>5. PICK read : read = base \o page
    OBVIOUS
<1>6. read \in Seq(Int) /\ Len(read) = k + n
      /\ \A i \in 1..(k + n) : read[i] = IF i <= k THEN base[i] ELSE page[i - k]
    BY <1>2, <1>4, <1>5, ConcatProperties
<1>7. ASSUME NEW i \in 1..(k + n) PROVE read[i] = c - i + 1
    <2>1. CASE i <= k
        <3>1. i \in 1..k
            BY <1>3, <2>1
        <3>2. QED  BY <1>6, <2>1, <3>1
    <2>2. CASE ~(i <= k)
        <3>1. i - k \in 1..n /\ c - k - (i - k) + 1 = c - i + 1
            BY <1>3, <2>2
        <3>2. page[i - k] = c - k - (i - k) + 1
            BY <1>2, <3>1
        <3>3. QED  BY <1>6, <2>2, <3>1, <3>2
    <2>3. QED  BY <2>1, <2>2
<1>8. read = [i \in 1..(k + n) |-> c - i + 1]
    BY <1>6, <1>7
<1>9. QED  BY <1>1, <1>2, <1>3, <1>5, <1>6, <1>8

\* What was read is of the page or was read before.
LEMMA PageAdds ==
    ASSUME NEW c \in Nat, NEW k \in 0..c, NEW base, base = [i \in 1..k |-> c - i + 1],
           NEW s \in Range(base \o NextPage(c, k)), s \notin Range(NextPage(c, k))
    PROVE  s \in Range(base)
<1>1. PICK page : page = NextPage(c, k)
    OBVIOUS
<1>2. PICK n \in 0..(c - k) : page = [i \in 1..n |-> c - k - i + 1] /\ Len(page) = n
    BY <1>1, PageReads
<1>3. PICK i \in 1..(k + n) : s = c - i + 1
    <2>1. base \o NextPage(c, k) = [i \in 1..(k + Len(NextPage(c, k))) |-> c - i + 1]
        BY RunsDown
    <2>2. PICK read : read = base \o NextPage(c, k) /\ s \in Range(read)
        OBVIOUS
    <2>3. read = [i \in 1..(k + n) |-> c - i + 1]
        BY <1>1, <1>2, <2>1, <2>2
    <2>4. QED  BY <2>2, <2>3 DEF Range
<1>4. i <= k
    <2>1. SUFFICES ASSUME ~(i <= k) PROVE FALSE
        OBVIOUS
    <2>2. i - k \in 1..n /\ c - k - (i - k) + 1 = s
        BY <1>2, <1>3, <2>1
    <2>3. page[i - k] = s /\ i - k \in DOMAIN page
        BY <1>2, <2>2
    <2>4. QED  BY <1>1, <2>3 DEF Range
<1>5. i \in 1..k
    BY <1>2, <1>3, <1>4
<1>6. QED  BY <1>3, <1>5 DEF Range

\* A walk after its next page.
Turned(w, history) ==
    LET first == w.at # "more"
        page == Page(history, IF first THEN {} ELSE w.cursor)
        read == (IF first THEN <<>> ELSE w.read) \o page.sequences
        old == IF first THEN <<>> ELSE w.seen
    IN  [cursor |-> page.next, read |-> read, ceiling |-> page.ceiling,
         seen |-> [s \in Range(read) |-> IF s \in Range(page.sequences) THEN history[s] ELSE old[s]],
         at |-> IF page.next = {} THEN "end" ELSE "more"]

\* A walk that reads its next page goes on down the rows, or ends.
LEMMA NextPageFits ==
    ASSUME NEW w, NEW history, Len(history) \in Nat, WalkFits(w, history),
           \A i \in 1..Len(history) : RowShaped(history[i]) /\ history[i].rev \in Nat
    PROVE  WalkFits(Turned(w, history), history)
<1>a. PICK first \in BOOLEAN : first = (w.at # "more")
    OBVIOUS
<1>b. PICK page : page = Page(history, IF first THEN {} ELSE w.cursor)
    OBVIOUS
<1>c. PICK read, old : read = (IF first THEN <<>> ELSE w.read) \o page.sequences /\ old = (IF first THEN <<>> ELSE w.seen)
    OBVIOUS
<1>d. PICK v : v = Turned(w, history)
    OBVIOUS
<1>e. v = [cursor |-> page.next, read |-> read, ceiling |-> page.ceiling,
           seen |-> [s \in Range(read) |-> IF s \in Range(page.sequences) THEN history[s] ELSE old[s]],
           at |-> IF page.next = {} THEN "end" ELSE "more"]
    BY <1>a, <1>b, <1>c, <1>d DEF Turned
<1>1. PICK c, k : c = (IF first THEN Len(history) ELSE w.ceiling) /\ k = (IF first THEN 0 ELSE Len(w.read))
    OBVIOUS
<1>2. c \in 0..Len(history) /\ c \in Nat /\ k \in 0..c
    BY <1>1, WalkReads
<1>3. PICK cursor : cursor = (IF first THEN {} ELSE w.cursor)
    OBVIOUS
<1>4. \/ cursor = {} /\ c = Len(history) /\ k = 0
      \/ cursor = {[ceiling |-> c, before |-> c - k + 1]}
    BY <1>a, <1>1, <1>3 DEF WalkFits
<1>5. PICK p, next : p = NextPage(c, k) /\ next = NextCursor(p, c, Older(c, k))
    OBVIOUS
<1>6. Page(history, cursor) = [ceiling |-> c, sequences |-> p, next |-> next]
    <2>1. Page(history, cursor) =
              [ceiling |-> c, sequences |-> NextPage(c, k), next |-> NextCursor(NextPage(c, k), c, Older(c, k))]
        <3>1. CASE cursor = {} /\ c = Len(history) /\ k = 0
            BY <1>2, <3>1, PageFollows
        <3>2. CASE cursor = {[ceiling |-> c, before |-> c - k + 1]}
            BY <1>2, <3>2, PageFollows
        <3>3. QED  BY <1>4, <3>1, <3>2
    <2>2. QED  BY <1>5, <2>1
<1>7. page.ceiling = c /\ page.sequences = p /\ page.next = next
    BY <1>b, <1>3, <1>6
<1>8. PICK base : base = (IF first THEN <<>> ELSE w.read)
    OBVIOUS
<1>9. base = [i \in 1..k |-> c - i + 1]
    <2>1. CASE first
        BY <1>1, <1>8, <2>1
    <2>2. CASE ~first
        BY <1>1, <1>8, <2>2 DEF WalkFits
    <2>3. QED  BY <2>1, <2>2
<1>10. read = base \o p
    BY <1>c, <1>7, <1>8
<1>11. PICK m : m = k + Len(p)
    OBVIOUS
<1>12. read = [i \in 1..m |-> c - i + 1] /\ Len(read) = m /\ m \in 0..c
    <2>1. /\ base \o NextPage(c, k) = [i \in 1..(k + Len(NextPage(c, k))) |-> c - i + 1]
          /\ Len(base \o NextPage(c, k)) = k + Len(NextPage(c, k))
          /\ k + Len(NextPage(c, k)) \in 0..c
        BY <1>2, <1>9, RunsDown
    <2>2. QED  BY <1>5, <1>10, <1>11, <2>1
<1>13. \/ next = {} /\ Len(p) = c - k
       \/ next = {[ceiling |-> c, before |-> c - m + 1]}
    BY <1>2, <1>5, <1>11, PageLeaves
<1>14. v.cursor = next /\ v.read = read /\ v.ceiling = c
       /\ v.seen = [s \in Range(read) |-> IF s \in Range(p) THEN history[s] ELSE old[s]]
       /\ v.at = (IF next = {} THEN "end" ELSE "more")
    BY <1>e, <1>7
<1>15. ASSUME NEW s \in Range(read)
       PROVE  SeenFits(IF s \in Range(p) THEN history[s] ELSE old[s], history[s])
    <2>1. PICK i \in 1..m : s = c - i + 1 /\ s = read[i]
        BY <1>12 DEF Range
    <2>2. s \in 1..Len(history)
        BY <1>2, <1>12, <2>1
    <2>3. CASE s \in Range(p)
        <3>1. PICK row : row = history[s] /\ RowShaped(row) /\ row.rev \in Nat
            BY <2>2
        <3>2. SeenFits(row, row)
            BY <3>1 DEF SeenFits
        <3>3. QED  BY <2>3, <3>1, <3>2
    <2>4. CASE s \notin Range(p)
        <3>1. s \in Range(base)
            BY <1>2, <1>5, <1>9, <1>10, <2>4, PageAdds
        <3>2. ~first /\ s \in Range(w.read)
            BY <1>8, <3>1 DEF Range
        <3>3. QED  BY <1>c, <2>4, <3>2 DEF WalkFits
    <2>5. QED  BY <2>3, <2>4
<1>16. v = [cursor |-> v.cursor, read |-> v.read, ceiling |-> v.ceiling, seen |-> v.seen, at |-> v.at]
    BY <1>e
<1>17. v.seen = [s \in Range(v.read) |-> v.seen[s]] /\ \A s \in Range(v.read) : SeenFits(v.seen[s], history[s])
    BY <1>14, <1>15
<1>18. v.read = [i \in 1..Len(v.read) |-> v.ceiling - i + 1]
    BY <1>12, <1>14
<1>19. v.at = "more" => v.cursor = {[ceiling |-> v.ceiling, before |-> v.ceiling - Len(v.read) + 1]}
    BY <1>12, <1>13, <1>14
<1>20. v.at = "end" => Len(v.read) = v.ceiling
    <2>1. SUFFICES ASSUME v.at = "end" PROVE Len(v.read) = v.ceiling
        OBVIOUS
    <2>2. next = {}
        BY <1>14, <2>1
    <2>3. Len(p) = c - k
        BY <1>13, <2>2
    <2>4. m = c
        BY <1>2, <1>11, <2>3
    <2>5. QED  BY <1>12, <1>14, <2>4
<1>21. v.ceiling \in 0..Len(history) /\ Len(v.read) \in 0..v.ceiling
    BY <1>2, <1>12, <1>14
<1>22. QED  BY <1>d, <1>16, <1>17, <1>18, <1>19, <1>20, <1>21 DEF WalkFits

\* A window lists its next page.
LEMMA ListPageFits ==
    ASSUME RowsFit, WalksFit, NEW u \in Reviewer, ListPage(u)
    PROVE  WalksFit'
<1>1. PICK w : w = walk[u] /\ WalkFits(w, rows)
    BY DEF WalksFit
<1>2. Len(rows) \in Nat /\ \A i \in 1..Len(rows) : RowShaped(rows[i]) /\ rows[i].rev \in Nat
    BY DEF RowsFit, RowFits
<1>3. PICK history : history = rows /\ rows' = history
    BY DEF ListPage
<1>4. PICK v : v = Turned(w, history)
    OBVIOUS
<1>5. WalkFits(v, history)
    BY <1>1, <1>2, <1>3, <1>4, NextPageFits
<1>6. walk' = [walk EXCEPT ![u] = v]
    BY <1>1, <1>3, <1>4 DEF ListPage, Turned
<1>7. QED  BY <1>3, <1>5, <1>6 DEF WalksFit

\* A decision is taken on the revision that the window shows, and what any
\* other window shows of the row is now an earlier one.
LEMMA DecisionFits ==
    ASSUME RowsFit, WalksFit, NEW u \in Reviewer, RecordAgentDecision(u)
    PROVE  /\ RowsFit' /\ WalksFit'
           /\ \E s \in 1..Len(rows) :
                 /\ \A i \in 1..Len(rows) : i # s => rows'[i] = rows[i]
                 /\ s \in DOMAIN walk[u].seen /\ walk[u].seen[s] = rows[s]
                 /\ walk'[u] # walk[u]
<1>1. PICK w : w = walk[u] /\ WalkFits(w, rows)
    BY DEF WalksFit
<1>2. rows \in Seq(Range(rows)) /\ Len(rows) \in Nat /\ \A i \in 1..Len(rows) : RowFits(rows[i])
    BY DEF RowsFit
<1>3. PICK s \in Range(w.read), decision \in {"accepted", "rejected"}, note \in {0, 1} :
          LET row == Reviewed(rows[s], decision, note)
          IN  /\ CurrentRevision(rows[s], w.seen[s].rev)
              /\ rows' = [rows EXCEPT ![s] = row]
              /\ walk' = [walk EXCEPT ![u].seen[s] = row]
    BY <1>1 DEF RecordAgentDecision
<1>4. s \in 1..Len(rows)
    BY <1>1, <1>2, WalkReads
<1>5. PICK old : old = rows[s] /\ RowFits(old)
    BY <1>2, <1>4
<1>6. PICK row : row = Reviewed(old, decision, note)
    OBVIOUS
<1>7. RowShaped(row) /\ row.content = old.content /\ row.rev = old.rev + 1
    <2>1. DOMAIN old = {"content", "rev", "decision", "note"} /\ RowShaped(old)
        BY <1>5 DEF RowFits, RowShaped
    <2>2. QED  BY <1>6, <2>1 DEF Reviewed, RowShaped
<1>8. RowFits(row) /\ old.rev \in Nat
    BY <1>5, <1>7, HeadroomStays DEF RowFits
<1>9. w.seen[s] = old
    BY <1>1, <1>3, <1>5 DEF CurrentRevision, WalkFits, SeenFits
<1>10. rows' = [rows EXCEPT ![s] = row] /\ walk' = [walk EXCEPT ![u].seen[s] = row]
    BY <1>3, <1>5, <1>6
<1>11. rows' \in Seq(Range(rows) \cup {row}) /\ Len(rows') = Len(rows)
       /\ \A i \in 1..Len(rows) : rows'[i] = IF i = s THEN row ELSE rows[i]
    BY <1>2, <1>4, <1>10
<1>12. RowsFit'
    <2>1. rows' \in Seq(Range(rows'))
        BY <1>11 DEF Range
    <2>2. QED  BY <1>2, <1>8, <1>11, <2>1 DEF RowsFit
<1>13. ASSUME NEW x, WalkFits(x, rows), NEW y, y = x \/ (s \in Range(x.read) /\ y = [x EXCEPT !.seen[s] = row])
       PROVE  WalkFits(y, rows')
    <2>1. DOMAIN x = {"cursor", "read", "ceiling", "seen", "at"}
        BY <1>13 DEF WalkFits
    <2>2. /\ y.cursor = x.cursor /\ y.read = x.read /\ y.ceiling = x.ceiling /\ y.at = x.at
          /\ y = [cursor |-> y.cursor, read |-> y.read, ceiling |-> y.ceiling, seen |-> y.seen, at |-> y.at]
          /\ y.seen = x.seen \/ (s \in Range(x.read) /\ y.seen = [x.seen EXCEPT ![s] = row])
        BY <1>13, <2>1 DEF WalkFits
    <2>3. x.seen = [i \in Range(x.read) |-> x.seen[i]] /\ \A i \in Range(x.read) : SeenFits(x.seen[i], rows[i])
        BY <1>13 DEF WalkFits
    <2>4. y.seen = [i \in Range(y.read) |-> y.seen[i]]
        BY <2>2, <2>3
    <2>5. ASSUME NEW i \in Range(y.read) PROVE SeenFits(y.seen[i], rows'[i])
        <3>1. i \in 1..Len(rows) /\ i \in Range(x.read)
            BY <1>2, <1>13, <2>2, WalkReads
        <3>2. CASE i # s
            BY <1>11, <2>2, <2>3, <3>1, <3>2
        <3>3. CASE i = s
            <4>1. rows'[i] = row /\ (y.seen[i] = x.seen[i] \/ y.seen[i] = row)
                BY <1>11, <2>2, <2>3, <3>1, <3>3
            <4>2. SeenFits(row, row)
                BY <1>8 DEF SeenFits, RowFits
            <4>3. PICK z : z = x.seen[i] /\ SeenFits(z, old)
                BY <1>5, <2>3, <3>1, <3>3
            <4>4. SeenFits(z, row)
                BY <1>7, <1>8, <4>3 DEF SeenFits
            <4>5. QED  BY <4>1, <4>2, <4>3, <4>4
        <3>4. QED  BY <3>2, <3>3
    <2>6. QED  BY <1>11, <1>13, <2>2, <2>4, <2>5 DEF WalkFits
<1>14. PICK y : y = [w EXCEPT !.seen[s] = row]
    OBVIOUS
<1>15. walk' = [walk EXCEPT ![u] = y] /\ walk = [v \in Reviewer |-> walk[v]]
    BY <1>1, <1>10, <1>14 DEF WalksFit
<1>16. WalkFits(y, rows')
    BY <1>1, <1>3, <1>13, <1>14
<1>17. WalksFit'
    <2>1. \A v \in Reviewer : WalkFits(walk[v], rows')
        BY <1>13 DEF WalksFit
    <2>2. QED  BY <1>15, <1>16, <2>1 DEF WalksFit
<1>18. s \in DOMAIN w.seen /\ y.seen = [w.seen EXCEPT ![s] = row]
    <2>1. DOMAIN w = {"cursor", "read", "ceiling", "seen", "at"}
        BY <1>1 DEF WalkFits
    <2>2. QED  BY <1>1, <1>3, <1>14, <2>1 DEF WalkFits
<1>19. y # w
    <2>1. y.seen[s] = row /\ w.seen[s] # row
        BY <1>7, <1>8, <1>9, <1>18
    <2>2. QED  BY <2>1
<1>20. QED  BY <1>1, <1>4, <1>5, <1>9, <1>11, <1>12, <1>15, <1>17, <1>18, <1>19

-----------------------------------------------------------------------------
(* Escalation: every step.                                                 *)

\* What a step leaves alone still fits.
LEMMA RestFits ==
    ASSUME EscalationInv
    PROVE  /\ UNCHANGED <<run, shown>> => RunsFit'
           /\ UNCHANGED world => WorldFits'
           /\ UNCHANGED <<shown, sent>> => ConsentFits'
           /\ UNCHANGED rows => RowsFit'
           /\ UNCHANGED <<rows, walk>> => WalksFit'
BY DEF EscalationInv, RunsFit, WorldFits, ConsentFits, RowsFit, WalksFit

\* The rest of the system changes the graph, the trees, what is retained,
\* the settings and the jobs.
LEMMA RestOfSystemFits ==
    ASSUME EscalationInv, Load \/ Edit \/ Forget \/ ChangeSettings \/ CancelJob
    PROVE  EscalationInv'
<1>1. UNCHANGED <<run, shown, sent, rows, walk>>
    BY DEF Load, Edit, Forget, ChangeSettings, CancelJob
<1>2. WorldFits'
    <2>1. world = [graph |-> world.graph, bindings |-> world.bindings, tree |-> world.tree, retained |-> world.retained]
          /\ world.tree \in Trees /\ world.retained \subseteq DOMAIN Receipts
        BY DEF EscalationInv, WorldFits
    <2>2. CASE Load
        BY <2>1, <2>2 DEF Load, WorldFits
    <2>3. CASE Edit
        BY <2>1, <2>3 DEF Edit, WorldFits
    <2>4. CASE Forget
        BY <2>1, <2>4 DEF Forget, WorldFits
    <2>5. CASE ChangeSettings \/ CancelJob
        BY <2>5, RestFits DEF ChangeSettings, CancelJob
    <2>6. QED  BY <2>2, <2>3, <2>4, <2>5
<1>3. QED  BY <1>1, <1>2, RestFits DEF EscalationInv

\* Every step of a command.
LEMMA CommandStepFits ==
    ASSUME EscalationInv, NEW p \in Proc, Command(p)
    PROVE  EscalationInv'
<1>0. RunsFit /\ WorldFits /\ ConsentFits /\ RowsFit /\ WalksFit
    BY DEF EscalationInv
<1>1. CASE EscalationPreview(p) \/ RunEscalation(p) \/ RunClassEscalation(p)
           \/ NextInstance(p) \/ CheckContext(p) \/ FinishRun(p)
    <2>1. RunsFit'
        BY <1>0, <1>1, StartFits, LoopFits
    <2>2. UNCHANGED <<world, shown, sent, rows, walk>>
        BY <1>1 DEF EscalationPreview, RunEscalation, RunClassEscalation, NextInstance, CheckContext, FinishRun
    <2>3. QED  BY <2>1, <2>2, RestFits DEF EscalationInv
<1>2. CASE ReadGraph(p) \/ ReadPreliminary(p) \/ AcquireGuards(p) \/ ReadAuthoritative(p)
           \/ ReadRequest(p) \/ FinishReading(p)
    <2>1. RunsFit'
        BY <1>0, <1>2, PreparationFits, ReadRequestFits, FinishReadingFits
    <2>2. UNCHANGED <<world, shown, sent, rows, walk>>
        BY <1>2 DEF ReadGraph, ReadPreliminary, AcquireGuards, ReadAuthoritative, ReadRequest, FinishReading,
                    PreparationRest
    <2>3. QED  BY <2>1, <2>2, RestFits DEF EscalationInv
<1>3. CASE ShowPreview(p) \/ CallModel(p)
    <2>1. RunsFit' /\ ConsentFits'
        BY <1>0, <1>3, ShowPreviewFits, CallModelFits
    <2>2. UNCHANGED <<world, rows, walk>>
        BY <1>3 DEF ShowPreview, CallModel
    <2>3. QED  BY <2>1, <2>2, RestFits DEF EscalationInv
<1>4. CASE Authorize(p) \/ CheckBeforeCall(p)
    <2>1. RunsFit'
        BY <1>0, <1>4, AuthorizeFits
    <2>2. UNCHANGED <<world, shown, sent, rows, walk>>
        BY <1>4 DEF Authorize, CheckBeforeCall
    <2>3. QED  BY <2>1, <2>2, RestFits DEF EscalationInv
<1>5. CASE StageAnswer(p)
    <2>1. RunsFit'
        BY <1>0, <1>5, StageAnswerRun
    <2>2. RowsFit' /\ Len(rows) <= Len(rows') /\ \A i \in 1..Len(rows) : rows'[i] = rows[i]
        BY <1>0, <1>5, StageAnswerRows
    <2>3. UNCHANGED <<world, shown, sent, walk>>
        BY <1>5 DEF StageAnswer
    <2>4. Len(rows) \in Nat /\ Len(rows') \in Nat
        BY <1>0, <2>2 DEF RowsFit
    <2>5. ASSUME NEW u \in Reviewer PROVE WalkFits(walk[u], rows')
        BY <1>0, <2>2, <2>4, WalkStays DEF WalksFit
    <2>6. WalksFit'
        BY <1>0, <2>3, <2>5 DEF WalksFit
    <2>7. QED  BY <2>1, <2>2, <2>3, <2>6, RestFits DEF EscalationInv
<1>6. QED  BY <1>1, <1>2, <1>3, <1>4, <1>5 DEF Command

\* Every step of a window.
LEMMA WindowStepFits ==
    ASSUME EscalationInv, NEW u \in Reviewer, ListPage(u) \/ RecordAgentDecision(u)
    PROVE  EscalationInv'
<1>1. UNCHANGED <<world, run, shown, sent>>
    BY DEF ListPage, RecordAgentDecision
<1>2. RowsFit' /\ WalksFit'
    <2>1. CASE ListPage(u)
        <3>1. rows' = rows
            BY <2>1 DEF ListPage
        <3>2. QED  BY <2>1, <3>1, ListPageFits, RestFits DEF EscalationInv
    <2>2. CASE RecordAgentDecision(u)
        BY <2>2, DecisionFits DEF EscalationInv
    <2>3. QED  BY <2>1, <2>2
<1>3. QED  BY <1>1, <1>2, RestFits DEF EscalationInv

\* Nothing was shown, sent or staged at first.
LEMMA EscalationInit == Init => EscalationInv
<1> SUFFICES ASSUME Init PROVE EscalationInv
    OBVIOUS
<1>1. RunsFit
    <2>1. CommandFits(Idle, {})
        BY BareFits, CommandFields DEF Idle
    <2>2. run = [p \in Proc |-> Idle] /\ shown = {}
        BY DEF Init
    <2>3. QED  BY <2>1, <2>2 DEF RunsFit
<1>2. WorldFits
    BY DEF Init, WorldFits
<1>3. ConsentFits
    BY DEF Init, ConsentFits
<1>4. RowsFit
    BY DEF Init, RowsFit
<1>5. WalksFit
    <2>1. WalkFits(NotStarted, <<>>)
        BY DEF NotStarted, WalkFits, Range
    <2>2. walk = [u \in Reviewer |-> NotStarted] /\ rows = <<>>
        BY DEF Init
    <2>3. QED  BY <2>1, <2>2 DEF WalksFit
<1>6. QED  BY <1>1, <1>2, <1>3, <1>4, <1>5 DEF EscalationInv

\* The invariant of the escalations is inductive.
LEMMA EscalationInductive == EscalationInv /\ [Next]_vars => EscalationInv'
<1> SUFFICES ASSUME EscalationInv, [Next]_vars PROVE EscalationInv'
    OBVIOUS
<1>1. CASE UNCHANGED vars
    BY <1>1, RestFits DEF vars, EscalationInv
<1>2. CASE Next
    <2>1. CASE Load \/ Edit \/ Forget \/ ChangeSettings \/ CancelJob
        BY <2>1, RestOfSystemFits
    <2>2. CASE \E p \in Proc : Command(p)
        BY <2>2, CommandStepFits
    <2>3. CASE \E u \in Reviewer : ListPage(u) \/ RecordAgentDecision(u)
        BY <2>3, WindowStepFits
    <2>4. QED  BY <1>2, <2>1, <2>2, <2>3 DEF Next
<1>3. QED  BY <1>1, <1>2

\* Commands, consent and history fit together at every moment.
THEOREM EscalationsFit == Spec => []EscalationInv
BY EscalationInit, EscalationInductive, PTL DEF Spec

\* However graph, trees and settings change between the preview and the run,
\* a cloud provider receives only a redacted payload that was shown to the
\* user and approved (egress.rs consent_grant_for_approved_payload).
THEOREM OnlyApprovedIsSent == Spec => []SentIsApproved
<1>1. EscalationInv => SentIsApproved
    BY DEF EscalationInv, ConsentFits, RedactedPreview, SentIsApproved
<1>2. QED  BY <1>1, EscalationsFit, PTL

\* The store finds the citations of every answer again that the broker
\* accepts, whatever the task's evidence (staging.rs citation_assignment).
THEOREM AnswersAreStageable == Spec => []AcceptedIsStageable
<1>1. ASSUME EscalationInv PROVE AcceptedIsStageable
    <2>1. ASSUME NEW p \in Proc, run[p].pc = "answered" PROVE Reconstructed(run[p].task, run[p].proposal)
        <3>1. PICK r : r = run[p] /\ CommandFits(r, shown)
            BY <1>1, CommandOf DEF EscalationInv
        <3>2. PICK raw \in Answers : ValidAnswer(r.task, raw) /\ r.proposal = ProposalOf(r.task, raw)
            BY <2>1, <3>1 DEF CommandFits
        <3>3. Reconstructed(r.task, r.proposal)
            BY <3>2, ReconstructedAnswer
        <3>4. QED  BY <3>1, <3>3
    <2>2. QED  BY <2>1 DEF AcceptedIsStageable
<1>2. QED  BY <1>1, EscalationsFit, PTL

\* Whatever is staged can still be rejected, and a walk along the cursors
\* shows each row once while others are staged and reviewed (staging.rs
\* check_review_headroom and list).
THEOREM StagedCanBeDecided == Spec => []StagedIsReachable
<1>1. ASSUME EscalationInv PROVE StagedIsReviewable
    <2>1. DOMAIN rows = 1..Len(rows) /\ \A i \in 1..Len(rows) : RowFits(rows[i])
        BY <1>1 DEF EscalationInv, RowsFit
    <2>2. QED  BY <2>1, RowReviewable DEF StagedIsReviewable
<1>2. ASSUME EscalationInv PROVE PagesCoverHistory
    <2>1. ASSUME NEW u \in Reviewer, walk[u].at = "end"
          PROVE  walk[u].read = [i \in 1..walk[u].ceiling |-> walk[u].ceiling - i + 1]
        <3>1. WalkFits(walk[u], rows)
            BY <1>2 DEF EscalationInv, WalksFit
        <3>2. QED  BY <2>1, <3>1 DEF WalkFits
    <2>2. QED  BY <2>1 DEF PagesCoverHistory
<1>3. EscalationInv => StagedIsReachable
    BY <1>1, <1>2 DEF StagedIsReachable
<1>4. QED  BY <1>3, EscalationsFit, PTL

\* A review replaces only what its window showed (staging.rs review).
ReviewStep ==
    \A s \in DOMAIN rows : rows'[s].rev # rows[s].rev =>
        \E u \in Reviewer : /\ walk'[u] # walk[u]
                            /\ s \in DOMAIN walk[u].seen /\ walk[u].seen[s] = rows[s]

\* Two windows never overwrite each other unseen.
THEOREM NoReviewIsLost == Spec => ReviewIsOfSeen
<1>1. ASSUME EscalationInv, [Next]_vars PROVE [ReviewStep]_vars
    <2>1. DOMAIN rows = 1..Len(rows) /\ RunsFit /\ RowsFit /\ WalksFit
        BY <1>1 DEF EscalationInv, RowsFit
    <2>2. ASSUME rows' = rows PROVE ReviewStep
        BY <2>2 DEF ReviewStep
    <2>3. ASSUME NEW p \in Proc, StageAnswer(p) PROVE ReviewStep
        BY <2>1, <2>3, StageAnswerRows DEF ReviewStep
    <2>4. ASSUME NEW u \in Reviewer, RecordAgentDecision(u) PROVE ReviewStep
        <3>1. PICK s \in 1..Len(rows) :
                  /\ \A i \in 1..Len(rows) : i # s => rows'[i] = rows[i]
                  /\ s \in DOMAIN walk[u].seen /\ walk[u].seen[s] = rows[s]
                  /\ walk'[u] # walk[u]
            BY <2>1, <2>4, DecisionFits
        <3>2. QED  BY <2>1, <3>1 DEF ReviewStep
    <2>5. CASE Load \/ Edit \/ Forget \/ ChangeSettings \/ CancelJob
        BY <2>2, <2>5 DEF Load, Edit, Forget, ChangeSettings, CancelJob
    <2>6. ASSUME NEW p \in Proc, Command(p) PROVE ReviewStep
        <3>1. CASE StageAnswer(p)
            BY <2>3, <3>1
        <3>2. CASE ~StageAnswer(p)
            <4>1. rows' = rows
                BY <2>6, <3>2
                DEF Command, EscalationPreview, RunEscalation, RunClassEscalation, NextInstance, CheckContext,
                    FinishRun, ReadGraph, ReadPreliminary, AcquireGuards, ReadAuthoritative, ReadRequest,
                    FinishReading, PreparationRest, ShowPreview, CallModel, Authorize, CheckBeforeCall
            <4>2. QED  BY <2>2, <4>1
        <3>3. QED  BY <3>1, <3>2
    <2>7. ASSUME NEW u \in Reviewer, ListPage(u) PROVE ReviewStep
        <3>1. rows' = rows
            BY <2>7 DEF ListPage
        <3>2. QED  BY <2>2, <3>1
    <2>8. QED  BY <1>1, <2>4, <2>5, <2>6, <2>7 DEF Next
<1>2. QED  BY <1>1, EscalationsFit, PTL DEF Spec, ReviewIsOfSeen, ReviewStep

-----------------------------------------------------------------------------
(* Escalation: what the report of a preparation says.                      *)

\* The fields of a report.
LEMMA ReportFields ==
    ASSUME NEW plan
    PROVE  DOMAIN Report(plan) = {"lookahead", "attempts", "evidence", "candidates", "validated", "omissions",
                                  "notRead", "tail", "stop"}
BY DEF Report

ReportShaped(r, plan) == r = [x \in DOMAIN Report(plan) |-> r[x]]

\* An attempt changes the report and what is selected.
LEMMA AttemptedIs ==
    ASSUME NEW q, PrepShaped(q), ReportShaped(q.report, q.plan), NEW a, a = Attempted(q)
    PROVE  /\ a = [f \in DOMAIN NoPreparation |-> a[f]] /\ ReportShaped(a.report, q.plan)
           /\ a.plan = q.plan /\ a.authoritative = q.authoritative /\ a.evidence = q.evidence
           /\ a.candidates = q.candidates /\ a.sources = q.sources
           /\ a.selected = q.selected \cup {q.plan.requests[NextRequest(q)].fact}
           /\ a.report.attempts = q.report.attempts + 1 /\ a.report.notRead = q.report.notRead - 1
           /\ \A x \in DOMAIN Report(q.plan) \ {"attempts", "notRead"} : a.report[x] = q.report[x]
<1> DEFINE fact == q.plan.requests[NextRequest(q)].fact
           b == [q EXCEPT !.report.attempts = @ + 1]
           c == [b EXCEPT !.report.notRead = @ - 1]
<1>1. a = [c EXCEPT !.selected = @ \cup {fact}]
    BY DEF Attempted
<1> HIDE DEF fact
<1>2. /\ b = [f \in DOMAIN NoPreparation |-> IF f = "report" THEN b.report ELSE q[f]]
      /\ b.report = [x \in DOMAIN Report(q.plan) |-> IF x = "attempts" THEN q.report.attempts + 1 ELSE q.report[x]]
    BY PrepFields, ReportFields DEF PrepShaped, ReportShaped
<1> HIDE DEF b
<1>3. /\ c = [f \in DOMAIN NoPreparation |-> IF f = "report" THEN c.report ELSE b[f]]
      /\ c.report = [x \in DOMAIN Report(q.plan) |-> IF x = "notRead" THEN b.report.notRead - 1 ELSE b.report[x]]
    BY <1>2, PrepFields, ReportFields
<1> HIDE DEF c
<1>4. a = [f \in DOMAIN NoPreparation |-> IF f = "selected" THEN c.selected \cup {fact} ELSE c[f]]
    BY <1>1, <1>3, PrepFields
<1>5. a.report = c.report /\ a.selected = q.selected \cup {fact}
    BY <1>2, <1>3, <1>4, PrepFields
<1>6. ReportShaped(a.report, q.plan)
    BY <1>3, <1>5, ReportFields DEF ReportShaped
<1>7. a.report.attempts = q.report.attempts + 1 /\ a.report.notRead = q.report.notRead - 1
    BY <1>2, <1>3, <1>5, ReportFields
<1>8. \A x \in DOMAIN Report(q.plan) \ {"attempts", "notRead"} : a.report[x] = q.report[x]
    BY <1>2, <1>3, <1>5, ReportFields
<1>9. a.plan = q.plan /\ a.authoritative = q.authoritative /\ a.evidence = q.evidence
      /\ a.candidates = q.candidates /\ a.sources = q.sources
    BY <1>2, <1>3, <1>4, PrepFields
<1>10. a = [f \in DOMAIN NoPreparation |-> a[f]]
    BY <1>4
<1>11. QED  BY <1>5, <1>6, <1>7, <1>8, <1>9, <1>10 DEF fact

\* An omission is added to the report.
LEMMA OmittedIs ==
    ASSUME NEW q, PrepShaped(q), ReportShaped(q.report, q.plan), NEW reason, NEW m, m = Omitted(q, reason)
    PROVE  /\ ReportShaped(m.report, q.plan)
           /\ m.plan = q.plan /\ m.authoritative = q.authoritative /\ m.evidence = q.evidence
           /\ m.candidates = q.candidates /\ m.sources = q.sources
           /\ m.selected = q.selected \cup {q.plan.requests[NextRequest(q)].fact}
           /\ m.report.attempts = q.report.attempts + 1 /\ m.report.notRead = q.report.notRead - 1
           /\ m.report.omissions = Append(q.report.omissions,
                  [index |-> q.report.attempts, fact |-> q.plan.requests[NextRequest(q)].fact, reason |-> reason])
           /\ \A x \in DOMAIN Report(q.plan) \ {"attempts", "notRead", "omissions"} : m.report[x] = q.report[x]
<1> DEFINE o == [index |-> q.report.attempts, fact |-> q.plan.requests[NextRequest(q)].fact, reason |-> reason]
<1>1. PICK a : a = Attempted(q)
    OBVIOUS
<1>2. m = [a EXCEPT !.report.omissions = Append(@, o)]
    BY <1>1 DEF Omitted
<1> HIDE DEF o
<1>3. /\ a = [f \in DOMAIN NoPreparation |-> a[f]] /\ ReportShaped(a.report, q.plan)
      /\ a.plan = q.plan /\ a.authoritative = q.authoritative /\ a.evidence = q.evidence
      /\ a.candidates = q.candidates /\ a.sources = q.sources
      /\ a.selected = q.selected \cup {q.plan.requests[NextRequest(q)].fact}
      /\ a.report.attempts = q.report.attempts + 1 /\ a.report.notRead = q.report.notRead - 1
      /\ \A x \in DOMAIN Report(q.plan) \ {"attempts", "notRead"} : a.report[x] = q.report[x]
    BY <1>1, AttemptedIs
<1>4. /\ m = [f \in DOMAIN NoPreparation |-> IF f = "report" THEN m.report ELSE a[f]]
      /\ m.report = [x \in DOMAIN Report(q.plan) |->
                        IF x = "omissions" THEN Append(a.report.omissions, o) ELSE a.report[x]]
    BY <1>2, <1>3, PrepFields, ReportFields DEF ReportShaped
<1>5. ReportShaped(m.report, q.plan)
    BY <1>4 DEF ReportShaped
<1>6. m.plan = q.plan /\ m.authoritative = q.authoritative /\ m.evidence = q.evidence
      /\ m.candidates = q.candidates /\ m.sources = q.sources
      /\ m.selected = q.selected \cup {q.plan.requests[NextRequest(q)].fact}
    BY <1>3, <1>4, PrepFields
<1>7. m.report.attempts = q.report.attempts + 1 /\ m.report.notRead = q.report.notRead - 1
      /\ m.report.omissions = Append(q.report.omissions, o)
    BY <1>3, <1>4, ReportFields
<1>8. \A x \in DOMAIN Report(q.plan) \ {"attempts", "notRead", "omissions"} : m.report[x] = q.report[x]
    BY <1>3, <1>4, ReportFields
<1>9. QED  BY <1>5, <1>6, <1>7, <1>8 DEF o

EvidenceOf(q, text, origin) ==
    LET request == q.plan.requests[NextRequest(q)]
    IN  [id |-> Len(q.evidence) + 1, ref |-> request.refs[1], text |-> text, fact |-> request.fact, origin |-> origin]

\* The report counts the evidence and the candidates that were added.
LEMMA SuppliedIs ==
    ASSUME NEW q, PrepShaped(q), ReportShaped(q.report, q.plan), NEW text, NEW origin, NEW m, m = Supplied(q, text, origin),
           NEW request, request = q.plan.requests[NextRequest(q)], NEW id, id = Len(q.evidence) + 1
    PROVE  /\ m = [f \in DOMAIN NoPreparation |-> m[f]] /\ ReportShaped(m.report, q.plan)
           /\ m.plan = q.plan /\ m.authoritative = q.authoritative
           /\ m.evidence = Append(q.evidence, EvidenceOf(q, text, origin))
           /\ m.candidates = IF request.candidate THEN Append(q.candidates, [node |-> request.fact[2], ids |-> {id}])
                             ELSE q.candidates
           /\ m.sources = IF request.candidate THEN q.sources ELSE Append(q.sources, id)
           /\ m.selected = q.selected \cup {request.fact}
           /\ m.report.attempts = q.report.attempts + 1 /\ m.report.notRead = q.report.notRead - 1
           /\ m.report.evidence = Len(m.evidence) /\ m.report.candidates = Len(m.candidates)
           /\ \A x \in {"lookahead", "validated", "omissions", "tail", "stop"} : m.report[x] = q.report[x]
<1> DEFINE e == EvidenceOf(q, text, origin)
           candidates == IF request.candidate THEN Append(q.candidates, [node |-> request.fact[2], ids |-> {id}])
                         ELSE q.candidates
           sources == IF request.candidate THEN q.sources ELSE Append(q.sources, id)
<1>1. PICK a : a = Attempted(q)
    OBVIOUS
<1>2. /\ a = [f \in DOMAIN NoPreparation |-> a[f]] /\ ReportShaped(a.report, q.plan)
      /\ a.plan = q.plan /\ a.authoritative = q.authoritative /\ a.evidence = q.evidence
      /\ a.candidates = q.candidates /\ a.sources = q.sources
      /\ a.selected = q.selected \cup {request.fact}
      /\ a.report.attempts = q.report.attempts + 1 /\ a.report.notRead = q.report.notRead - 1
      /\ \A x \in DOMAIN Report(q.plan) \ {"attempts", "notRead"} : a.report[x] = q.report[x]
    BY <1>1, AttemptedIs
<1> DEFINE b == [a EXCEPT !.evidence = Append(@, e),
                          !.candidates = IF request.candidate
                                         THEN Append(@, [node |-> request.fact[2], ids |-> {id}]) ELSE @,
                          !.sources = IF request.candidate THEN @ ELSE Append(@, id)]
<1>3. m = [b EXCEPT !.report.evidence = Len(b.evidence), !.report.candidates = Len(b.candidates)]
    BY <1>1 DEF Supplied, EvidenceOf
<1> HIDE DEF e
<1>4. /\ b = [f \in DOMAIN NoPreparation |-> b[f]] /\ b.report = a.report
      /\ b.plan = q.plan /\ b.authoritative = q.authoritative /\ b.selected = q.selected \cup {request.fact}
    BY <1>2, PrepFields
<1>5. b.evidence = Append(q.evidence, e)
    BY <1>2, PrepFields
<1>6. b.candidates = candidates
    BY <1>2, PrepFields
<1>7. b.sources = sources
    BY <1>2, PrepFields
<1> HIDE DEF b, candidates, sources
<1> DEFINE c == [b EXCEPT !.report.evidence = Len(b.evidence)]
<1>a. m = [c EXCEPT !.report.candidates = Len(b.candidates)]
    BY <1>3
<1>b. /\ c = [f \in DOMAIN NoPreparation |-> IF f = "report" THEN c.report ELSE b[f]]
      /\ c.report = [x \in DOMAIN Report(q.plan) |-> IF x = "evidence" THEN Len(b.evidence) ELSE a.report[x]]
    BY <1>2, <1>4, PrepFields, ReportFields DEF ReportShaped
<1> HIDE DEF c
<1>c. /\ m = [f \in DOMAIN NoPreparation |-> IF f = "report" THEN m.report ELSE c[f]]
      /\ m.report = [x \in DOMAIN Report(q.plan) |-> IF x = "candidates" THEN Len(b.candidates) ELSE c.report[x]]
    BY <1>a, <1>b, PrepFields, ReportFields
<1>8. /\ m = [f \in DOMAIN NoPreparation |-> IF f = "report" THEN m.report ELSE b[f]]
      /\ m.report = [x \in DOMAIN Report(q.plan) |-> IF x = "candidates" THEN Len(b.candidates)
                                                     ELSE IF x = "evidence" THEN Len(b.evidence) ELSE a.report[x]]
    BY <1>b, <1>c, PrepFields, ReportFields
<1>9. m = [f \in DOMAIN NoPreparation |-> m[f]] /\ ReportShaped(m.report, q.plan)
    BY <1>8 DEF ReportShaped
<1>10. m.plan = q.plan /\ m.authoritative = q.authoritative /\ m.selected = q.selected \cup {request.fact}
       /\ m.evidence = Append(q.evidence, e) /\ m.candidates = candidates /\ m.sources = sources
    BY <1>4, <1>5, <1>6, <1>7, <1>8, PrepFields
<1>11. m.report.evidence = Len(m.evidence) /\ m.report.candidates = Len(m.candidates)
    BY <1>5, <1>6, <1>8, <1>10, ReportFields
<1>12. m.report.attempts = q.report.attempts + 1 /\ m.report.notRead = q.report.notRead - 1
    BY <1>2, <1>8, ReportFields
<1>13. \A x \in {"lookahead", "validated", "omissions", "tail", "stop"} : m.report[x] = q.report[x]
    BY <1>2, <1>8, ReportFields
<1>14. QED  BY <1>9, <1>10, <1>11, <1>12, <1>13 DEF e, candidates, sources

\* A request that is read next is one of the plan.
LEMMA NextIsPlanned ==
    ASSUME NEW q, PlanFits(q.plan), ReportFits(q), MoreToRead(q)
    PROVE  /\ NextRequest(q) = q.report.attempts + 1 /\ NextRequest(q) \in DOMAIN q.plan.requests
           /\ q.report.attempts \in Nat /\ NextRequest(q) \in 1..Len(q.plan.requests)
<1>1. Len(q.plan.requests) \in Nat /\ DOMAIN q.plan.requests = 1..Len(q.plan.requests)
    BY LimitsAssumption DEF PlanFits
<1>2. q.report.attempts \in 0..Len(q.plan.requests)
    BY DEF ReportFits
<1>3. q.report.attempts + 1 <= Len(q.plan.requests)
    BY DEF MoreToRead, NextRequest
<1>4. QED  BY <1>1, <1>2, <1>3 DEF NextRequest

\* What is included is bound as planned.
LEMMA SelectionsStay ==
    ASSUME NEW q, SelectionsFit(q), NEW fact, NEW digest, Included(q, fact, digest),
           NEW m, m.plan = q.plan, m.authoritative = q.authoritative, m.selected = q.selected \cup {fact}
    PROVE  SelectionsFit(m)
<1> DEFINE slot == {EdgeFact(e) : e \in Range(q.plan.slot)}
<1>1. \A f \in PlannedFacts(m.plan) : \A b \in m.authoritative[f].binding : m.authoritative[f].binding = {b}
    BY DEF SelectionsFit
<1>2. ASSUME NEW f \in m.selected \cup slot, NEW b \in m.authoritative[f].binding
      PROVE  m.authoritative[f].digest = {b.digest}
    <2>1. CASE f = fact
        BY <1>2, <2>1 DEF Included
    <2>2. CASE f # fact
        <3>1. f \in q.selected \cup slot
            BY <1>2, <2>2
        <3>2. QED  BY <1>2, <3>1 DEF SelectionsFit
    <2>3. QED  BY <2>1, <2>2
<1>3. QED  BY <1>1, <1>2 DEF SelectionsFit

\* The facts that are selected are those of the requests read so far.
LEMMA SelectedGrows ==
    ASSUME NEW requests, NEW n \in Nat
    PROVE  {requests[i].fact : i \in 1..(n + 1)} = {requests[i].fact : i \in 1..n} \cup {requests[n + 1].fact}
<1>1. 1..(n + 1) = 1..n \cup {n + 1}
    OBVIOUS
<1>2. QED  BY <1>1

\* The elements of a sequence that got one more.
LEMMA Appended ==
    ASSUME NEW s, s \in Seq(Range(s)), NEW x, NEW t, t = Append(s, x)
    PROVE  /\ t \in Seq(Range(t)) /\ Len(t) = Len(s) + 1 /\ Len(s) \in Nat /\ DOMAIN t = 1..Len(t)
           /\ \A i \in 1..Len(s) : t[i] = s[i]
           /\ t[Len(t)] = x /\ Range(t) = Range(s) \cup {x}
<1>1. /\ t \in Seq(Range(s) \cup {x}) /\ Len(t) = Len(s) + 1 /\ Len(s) \in Nat /\ DOMAIN t = 1..Len(t)
      /\ DOMAIN s = 1..Len(s)
      /\ \A i \in 1..Len(s) : t[i] = s[i]
      /\ t[Len(t)] = x
    OBVIOUS
<1>2. ASSUME NEW i \in 1..Len(t) PROVE t[i] \in Range(s) \cup {x}
    BY <1>1
<1>3. Range(t) \subseteq Range(s) \cup {x}
    BY <1>1, <1>2 DEF Range
<1>4. ASSUME NEW i \in 1..Len(s) PROVE s[i] \in Range(t)
    <2>1. i \in DOMAIN t /\ t[i] = s[i]
        BY <1>1, <1>4
    <2>2. QED  BY <2>1 DEF Range
<1>5. Range(s) \subseteq Range(t)
    BY <1>1, <1>4 DEF Range
<1>6. x \in Range(t)
    <2>1. Len(t) \in DOMAIN t
        BY <1>1
    <2>2. QED  BY <1>1, <2>1 DEF Range
<1>7. Range(t) = Range(s) \cup {x}
    BY <1>3, <1>5, <1>6
<1>8. QED  BY <1>1, <1>7

\* An omission names a selected fact, after all omissions before it.
LEMMA OmittedAccounts ==
    ASSUME NEW q, PrepShaped(q), AccountFits(q), MoreToRead(q),
           NEW request, request = q.plan.requests[NextRequest(q)], Included(q, request.fact, request.digest),
           NEW reason, reason = "legacy_read_unavailable" => q.authoritative[request.fact].binding = {}
    PROVE  AccountFits(Omitted(q, reason))
<1>1. PICK m : m = Omitted(q, reason)
    OBVIOUS
<1>r. PICK r : r = q.report
    OBVIOUS
<1>o. PICK o : o = [index |-> q.report.attempts, fact |-> request.fact, reason |-> reason]
    OBVIOUS
<1>2. PlanFits(q.plan) /\ SelectionsFit(q) /\ ReportFits(q) /\ EvidenceFits(q) /\ MembershipFits(q)
    BY DEF AccountFits
<1>3. ReportShaped(r, q.plan)
    BY <1>r, <1>2 DEF ReportFits, ReportShaped
<1>a. /\ ReportShaped(m.report, q.plan)
      /\ m.plan = q.plan /\ m.authoritative = q.authoritative /\ m.evidence = q.evidence
      /\ m.candidates = q.candidates /\ m.sources = q.sources
      /\ m.selected = q.selected \cup {request.fact}
      /\ m.report.attempts = r.attempts + 1 /\ m.report.notRead = r.notRead - 1
      /\ m.report.omissions = Append(r.omissions, o)
      /\ \A x \in DOMAIN Report(q.plan) \ {"attempts", "notRead", "omissions"} : m.report[x] = r[x]
    BY <1>1, <1>r, <1>o, <1>3, OmittedIs
<1>4. /\ ReportShaped(m.report, q.plan)
      /\ m.plan = q.plan /\ m.authoritative = q.authoritative /\ m.evidence = q.evidence
      /\ m.candidates = q.candidates /\ m.sources = q.sources
      /\ m.selected = q.selected \cup {request.fact}
      /\ m.report.attempts = r.attempts + 1 /\ m.report.notRead = r.notRead - 1
      /\ m.report.omissions = Append(r.omissions, o)
    BY <1>a
<1>5. /\ NextRequest(q) = r.attempts + 1 /\ r.attempts \in Nat /\ r.attempts + 1 \in 1..Len(q.plan.requests)
      /\ request = q.plan.requests[r.attempts + 1]
    BY <1>r, <1>2, NextIsPlanned
<1>6. m.report.lookahead = r.lookahead /\ m.report.evidence = r.evidence /\ m.report.candidates = r.candidates
      /\ m.report.validated = r.validated /\ m.report.tail = r.tail /\ m.report.stop = r.stop
    BY <1>a, ReportFields
<1>b. PICK n, k, om, len : n = r.attempts /\ k = Len(q.evidence) /\ om = r.omissions /\ len = Len(q.plan.requests)
    OBVIOUS
<1>c. k \in Nat /\ len \in Nat
    BY <1>b, <1>2, LimitsAssumption DEF EvidenceFits, PlanFits
<1>d. r.lookahead = len
    BY <1>r, <1>b, <1>2 DEF ReportFits
<1>e. r.notRead = len - n
    BY <1>r, <1>b, <1>d, <1>2 DEF ReportFits
<1>f. n = k + Len(om)
    BY <1>r, <1>b, <1>2 DEF ReportFits
<1>g. om \in Seq(Range(om))
    BY <1>r, <1>b, <1>2 DEF ReportFits
<1>h. n \in Nat /\ n + 1 \in 1..len /\ m.report.attempts = n + 1 /\ m.report.notRead = r.notRead - 1
    BY <1>b, <1>4, <1>5
<1>i. m.report.omissions = Append(om, o)
    BY <1>b, <1>4
<1>7. PlanFits(m.plan) /\ SelectionsFit(m)
    BY <1>2, <1>4, SelectionsStay
<1>8. ReportFits(m)
    <2>1. PICK t : t = m.report.omissions
        OBVIOUS
    <2>2. t = Append(om, o)
        BY <1>i, <2>1
    <2>3. /\ t \in Seq(Range(t)) /\ Len(t) = Len(om) + 1 /\ Len(om) \in Nat /\ DOMAIN t = 1..Len(t)
          /\ \A i \in 1..Len(om) : t[i] = om[i]
          /\ t[Len(t)] = o /\ Range(t) = Range(om) \cup {o}
        <3>1. t \in Seq(Range(t)) /\ Len(t) = Len(om) + 1 /\ Len(om) \in Nat /\ DOMAIN t = 1..Len(t)
            BY <1>g, <2>2, Appended
        <3>2. \A i \in 1..Len(om) : t[i] = om[i]
            BY <1>g, <2>2, Appended
        <3>3. t[Len(t)] = o /\ Range(t) = Range(om) \cup {o}
            BY <1>g, <2>2, Appended
        <3>4. QED  BY <3>1, <3>2, <3>3
    <2>4. m.report = [x \in DOMAIN Report(m.plan) |-> m.report[x]]
        BY <1>4 DEF ReportShaped
    <2>5. m.report.lookahead = Len(m.plan.requests) /\ m.report.attempts \in 0..m.report.lookahead
          /\ m.report.notRead = m.report.lookahead - m.report.attempts
        <3>1. m.report.lookahead = len /\ Len(m.plan.requests) = len
            BY <1>b, <1>d, <1>4, <1>6
        <3>2. m.report.attempts \in 0..len
            BY <1>c, <1>h
        <3>3. m.report.notRead = len - m.report.attempts
            BY <1>c, <1>e, <1>h
        <3>4. QED  BY <3>1, <3>2, <3>3
    <2>6. m.report.evidence = Len(m.evidence) /\ m.report.candidates = Len(m.candidates)
          /\ m.report.validated \in 0..ValidationBytes
          /\ (m.report.tail <=> m.plan.unplanned > 0) /\ m.report.stop = "neighborhood_exhausted"
        BY <1>r, <1>2, <1>4, <1>6 DEF ReportFits
    <2>7. m.report.attempts = Len(m.evidence) + Len(t)
        <3>1. Len(m.evidence) = k
            BY <1>b, <1>4
        <3>2. QED  BY <1>c, <1>f, <1>h, <2>3, <3>1
    <2>8. m.selected = {m.plan.requests[i].fact : i \in 1..m.report.attempts}
        <3>1. q.selected = {q.plan.requests[i].fact : i \in 1..r.attempts}
            BY <1>r, <1>2 DEF ReportFits
        <3> DEFINE requests == q.plan.requests
        <3>2. {requests[i].fact : i \in 1..(r.attempts + 1)}
              = {requests[i].fact : i \in 1..r.attempts} \cup {requests[r.attempts + 1].fact}
            BY <1>5, SelectedGrows
        <3>3. QED  BY <1>4, <1>5, <3>1, <3>2
    <2>9. m.selected \subseteq {e.fact : e \in Range(m.evidence)} \cup {x.fact : x \in Range(t)}
        <3>1. q.selected \subseteq {e.fact : e \in Range(q.evidence)} \cup {x.fact : x \in Range(om)}
            BY <1>r, <1>b, <1>2 DEF ReportFits
        <3>2. o.fact = request.fact /\ o \in Range(t)
            BY <1>o, <2>3
        <3>3. request.fact \in {x.fact : x \in Range(t)}
            BY <3>2
        <3>4. QED  BY <1>4, <2>3, <3>1, <3>3
    <2>10. ASSUME NEW i \in 1..Len(t)
           PROVE  /\ t[i].index \in Nat /\ t[i].index < m.report.attempts /\ t[i].fact \in m.selected
                  /\ i > 1 => t[i - 1].index < t[i].index
                  /\ t[i].reason = "legacy_read_unavailable" => m.authoritative[t[i].fact].binding = {}
        <3>1. /\ DOMAIN om = 1..Len(om)
              /\ \A j \in DOMAIN om :
                    /\ om[j].index \in Nat /\ om[j].index < n /\ om[j].fact \in q.selected
                    /\ j > 1 => om[j - 1].index < om[j].index
                    /\ om[j].reason = "legacy_read_unavailable" => q.authoritative[om[j].fact].binding = {}
            BY <1>r, <1>b, <1>2 DEF ReportFits
        <3>2. CASE i <= Len(om)
            <4>1. i \in 1..Len(om) /\ (i > 1 => i - 1 \in 1..Len(om))
                BY <2>3, <2>10, <3>2
            <4>2. PICK x : x = om[i] /\ t[i] = x /\ i \in DOMAIN om
                BY <2>3, <3>1, <4>1
            <4>3. i > 1 => t[i - 1] = om[i - 1]
                BY <2>3, <4>1
            <4>4. x.index \in Nat /\ x.index < n /\ x.fact \in q.selected
                  /\ (i > 1 => om[i - 1].index < x.index)
                  /\ (x.reason = "legacy_read_unavailable" => q.authoritative[x.fact].binding = {})
                BY <3>1, <4>2
            <4>5. x.index < m.report.attempts
                BY <1>h, <4>4
            <4>6. x.fact \in m.selected /\ m.authoritative = q.authoritative
                BY <1>4, <4>4
            <4>7. QED  BY <4>2, <4>3, <4>4, <4>5, <4>6
        <3>3. CASE i > Len(om)
            <4>1. i = Len(t) /\ (i > 1 => i - 1 \in 1..Len(om))
                BY <2>3, <2>10, <3>3
            <4>2. t[i] = o /\ (i > 1 => t[i - 1] = om[i - 1])
                BY <2>3, <4>1
            <4>3. o.index = n /\ o.fact = request.fact /\ o.reason = reason
                BY <1>r, <1>o, <1>b
            <4>4. i > 1 => om[i - 1].index < n
                BY <3>1, <4>1
            <4>5. n \in Nat /\ n < m.report.attempts
                BY <1>h
            <4>6. request.fact \in m.selected /\ m.authoritative = q.authoritative
                BY <1>4
            <4>7. QED  BY <4>2, <4>3, <4>4, <4>5, <4>6
        <3>4. QED  BY <2>3, <3>2, <3>3
    <2>11. QED  BY <2>1, <2>3, <2>4, <2>5, <2>6, <2>7, <2>8, <2>9, <2>10 DEF ReportFits
<1>9. EvidenceFits(m)
    <2>1. /\ m.evidence = q.evidence /\ m.authoritative = q.authoritative /\ q.selected \subseteq m.selected
          /\ m.report.validated = q.report.validated
        BY <1>r, <1>4, <1>6
    <2>2. EvidenceFits(q)
        BY <1>2
    <2>3. QED  BY <2>1, <2>2 DEF EvidenceFits
<1>10. MembershipFits(m)
    <2>1. Len(q.sources) \in Nat /\ Len(q.sources) <= r.attempts /\ (r.attempts <= 2 => q.candidates = <<>>)
        BY <1>r, <1>2 DEF MembershipFits
    <2>2. Len(m.sources) <= m.report.attempts /\ (m.report.attempts <= 2 => m.candidates = <<>>)
        BY <1>4, <1>5, <2>1
    <2>3. QED  BY <1>2, <1>4, <2>2 DEF MembershipFits
<1>11. QED  BY <1>1, <1>7, <1>8, <1>9, <1>10 DEF AccountFits

Sums(s, f) == f \in [0 .. Len(s) -> Nat] /\ f[0] = 0 /\ \A n \in 1 .. Len(s) : f[n] = f[n - 1] + s[n]

\* A sequence of numbers has partial sums.
LEMMA SumsExist ==
    ASSUME NEW s \in Seq(Nat)
    PROVE  \E f : Sums(s, f)
<1> DEFINE P(k) == \E f : f \in [0 .. k -> Nat] /\ f[0] = 0 /\ \A n \in 1 .. k : f[n] = f[n - 1] + s[n]
           B == {k \in Nat : k <= Len(s) /\ ~P(k)}
<1>1. SUFFICES B = {}
    <2>1. Len(s) \in Nat
        OBVIOUS
    <2>2. B = {} => P(Len(s))
        <3> HIDE DEF P
        <3>1. QED  BY <2>1
    <2>3. QED  BY <2>2 DEF Sums
<1>2. SUFFICES ASSUME B # {} PROVE FALSE
    OBVIOUS
<1> HIDE DEF P
<1>3. PICK k \in B : \A j \in B : ~(<<j, k>> \in OpToRel(<, Nat))
    <2>1. B \subseteq Nat
        OBVIOUS
    <2> HIDE DEF B
    <2>2. QED  BY <1>2, <2>1, WFMin, NatLessThanWellFounded
<1>4. k \in Nat /\ k <= Len(s) /\ ~P(k)
    OBVIOUS
<1>5. CASE k = 0
    <2> DEFINE z == [n \in 0 .. 0 |-> 0]
    <2>1. z \in [0 .. 0 -> Nat] /\ z[0] = 0
        OBVIOUS
    <2> HIDE DEF z
    <2>2. \A n \in 1 .. 0 : z[n] = z[n - 1] + s[n]
        OBVIOUS
    <2>3. P(0)
        BY <2>1, <2>2 DEF P
    <2>4. QED  BY <1>4, <1>5, <2>3
<1>6. CASE k # 0
    <2> DEFINE j == k - 1
    <2>1. j \in Nat /\ j < k /\ j <= Len(s)
        BY <1>4, <1>6
    <2>2. P(j)
        <3>1. <<j, k>> \in OpToRel(<, Nat)
            BY <1>4, <2>1 DEF OpToRel
        <3>2. j \notin B
            BY <1>3, <3>1
        <3>3. QED  BY <2>1, <3>2
    <2>3. PICK f : f \in [0 .. j -> Nat] /\ f[0] = 0 /\ \A n \in 1 .. j : f[n] = f[n - 1] + s[n]
        BY <2>2 DEF P
    <2>4. s[k] \in Nat
        BY <1>4, <1>6
    <2> DEFINE g == [n \in 0 .. k |-> IF n = k THEN f[j] + s[k] ELSE f[n]]
    <2>5. g \in [0 .. k -> Nat]
        BY <1>4, <2>1, <2>3, <2>4
    <2>6. g[0] = 0
        BY <1>6, <2>1, <2>3
    <2>7. \A n \in 1 .. k : g[n] = g[n - 1] + s[n]
        BY <1>4, <1>6, <2>1, <2>3
    <2> HIDE DEF g, j
    <2>8. P(k)
        BY <2>5, <2>6, <2>7 DEF P
    <2>9. QED  BY <1>4, <2>8
<1>7. QED  BY <1>5, <1>6

\* Total is the last one.
LEMMA TotalIs ==
    ASSUME NEW s \in Seq(Nat), NEW f, Sums(s, f)
    PROVE  Total(s) = f[Len(s)]
<1> DEFINE Unrolls(g) == g = [n \in 0 .. Len(s) |-> IF n = 0 THEN 0 ELSE g[n - 1] + s[n]]
           sum == CHOOSE g : Unrolls(g)
<1>1. Total(s) = sum[Len(s)]
    BY DEF Total
<1>2. Len(s) \in Nat
    OBVIOUS
<1>3. Unrolls(f)
    <2> DEFINE h == [n \in 0 .. Len(s) |-> IF n = 0 THEN 0 ELSE f[n - 1] + s[n]]
    <2>1. f \in [0 .. Len(s) -> Nat] /\ f[0] = 0 /\ \A n \in 1 .. Len(s) : f[n] = f[n - 1] + s[n]
        BY DEF Sums
    <2>2. \A n \in 0 .. Len(s) : f[n] = h[n]
        BY <1>2, <2>1
    <2>3. DOMAIN f = 0 .. Len(s) /\ f = [n \in 0 .. Len(s) |-> f[n]]
        BY <2>1
    <2>4. QED  BY <2>2, <2>3
<1>4. Unrolls(sum)
    <2> HIDE DEF Unrolls
    <2>1. QED  BY <1>3
<1>5. /\ \A n \in 0 .. Len(s) : n # 0 => sum[n] = sum[n - 1] + s[n]
      /\ sum[0] = 0
    <2> HIDE DEF sum
    <2>1. \A n \in 0 .. Len(s) : sum[n] = IF n = 0 THEN 0 ELSE sum[n - 1] + s[n]
        BY <1>4
    <2>2. 0 \in 0 .. Len(s)
        BY <1>2
    <2>3. QED  BY <2>1, <2>2
<1> DEFINE B == {k \in Nat : k <= Len(s) /\ sum[k] # f[k]}
<1>6. SUFFICES ASSUME B # {} PROVE FALSE
    <2>1. B = {} => sum[Len(s)] = f[Len(s)]
        BY <1>2
    <2>2. QED  BY <1>1, <2>1
<1> HIDE DEF sum
<1>7. PICK k \in B : \A j \in B : ~(<<j, k>> \in OpToRel(<, Nat))
    <2>1. B \subseteq Nat
        OBVIOUS
    <2> HIDE DEF B
    <2>2. QED  BY <1>6, <2>1, WFMin, NatLessThanWellFounded
<1>8. k \in Nat /\ k <= Len(s) /\ sum[k] # f[k]
    OBVIOUS
<1>9. k # 0
    BY <1>5, <1>8 DEF Sums
<1> DEFINE j == k - 1
<1>10. j \in Nat /\ j < k /\ j <= Len(s)
    BY <1>2, <1>8, <1>9
<1>11. sum[j] = f[j]
    <2>1. <<j, k>> \in OpToRel(<, Nat)
        BY <1>8, <1>10 DEF OpToRel
    <2>2. j \notin B
        BY <1>7, <2>1
    <2>3. QED  BY <1>10, <2>2
<1>12. sum[k] = sum[j] + s[k] /\ f[k] = f[j] + s[k]
    BY <1>2, <1>5, <1>8, <1>9 DEF Sums
<1>13. QED  BY <1>8, <1>11, <1>12

\* The sum of nothing.
LEMMA TotalEmpty ==
    ASSUME NEW s \in Seq(Nat), Len(s) = 0
    PROVE  Total(s) = 0
<1>1. PICK f : Sums(s, f)
    BY SumsExist
<1>2. QED  BY <1>1, TotalIs DEF Sums

\* A sequence with one more number.
LEMMA TotalAppend ==
    ASSUME NEW s \in Seq(Nat), NEW t \in Seq(Nat), Len(t) = Len(s) + 1, \A n \in 1 .. Len(s) : t[n] = s[n]
    PROVE  Total(t) = Total(s) + t[Len(t)]
<1>1. PICK f : Sums(s, f)
    BY SumsExist
<1> DEFINE a == Len(s)
           g == [n \in 0 .. (a + 1) |-> IF n <= a THEN f[n] ELSE f[a] + t[a + 1]]
<1>2. a \in Nat /\ Len(t) = a + 1 /\ t[a + 1] \in Nat
    OBVIOUS
<1>3. f \in [0 .. a -> Nat] /\ f[0] = 0 /\ \A n \in 1 .. a : f[n] = f[n - 1] + s[n]
    BY <1>1 DEF Sums
<1>4. g \in [0 .. (a + 1) -> Nat] /\ g[0] = 0 /\ g[a + 1] = f[a] + t[a + 1]
    BY <1>2, <1>3
<1>5. \A n \in 1 .. (a + 1) : g[n] = g[n - 1] + t[n]
    <2>1. ASSUME NEW n \in 1 .. a PROVE g[n] = g[n - 1] + t[n]
        <3>1. n \in 0 .. (a + 1) /\ n - 1 \in 0 .. (a + 1) /\ n <= a /\ n - 1 <= a
            BY <1>2
        <3>2. t[n] = s[n]
            OBVIOUS
        <3>3. g[n] = f[n] /\ g[n - 1] = f[n - 1]
            BY <3>1
        <3>4. QED  BY <1>3, <3>2, <3>3
    <2>2. g[a] = f[a]
        BY <1>2
    <2> HIDE DEF g
    <2>3. g[a + 1] = g[(a + 1) - 1] + t[a + 1]
        BY <1>2, <1>4, <2>2
    <2>4. \A n \in 1 .. (a + 1) : n \in 1 .. a \/ n = a + 1
        BY <1>2
    <2>5. QED  BY <2>1, <2>3, <2>4
<1> HIDE DEF g
<1>6. Sums(t, g)
    BY <1>2, <1>4, <1>5 DEF Sums
<1>7. QED  BY <1>1, <1>2, <1>4, <1>6, TotalIs

\* What a supplied text adds to a preparation.
Supplies(q, m, request, e) ==
    /\ ReportShaped(m.report, q.plan)
    /\ m.plan = q.plan /\ m.authoritative = q.authoritative
    /\ m.evidence = Append(q.evidence, e) /\ e.id = Len(q.evidence) + 1 /\ e.fact = request.fact
    /\ m.candidates = IF request.candidate THEN Append(q.candidates, [node |-> request.fact[2], ids |-> {e.id}])
                      ELSE q.candidates
    /\ m.sources = IF request.candidate THEN q.sources ELSE Append(q.sources, e.id)
    /\ m.selected = q.selected \cup {request.fact}
    /\ m.report.attempts = q.report.attempts + 1 /\ m.report.notRead = q.report.notRead - 1
    /\ m.report.evidence = Len(m.evidence) /\ m.report.candidates = Len(m.candidates)
    /\ \A x \in {"lookahead", "omissions", "tail", "stop"} : m.report[x] = q.report[x]
    /\ m.report.validated = q.report.validated + e.origin.file

\* The report goes on to add up.
LEMMA SuppliedReport ==
    ASSUME NEW q, PlanFits(q.plan), ReportFits(q), EvidenceFits(q), MoreToRead(q),
           NEW request, request = q.plan.requests[NextRequest(q)],
           NEW m, NEW e, Supplies(q, m, request, e), m.report.validated \in 0..ValidationBytes
    PROVE  ReportFits(m)
<1>1. PICK r : r = q.report
    OBVIOUS
<1>2. PICK n, k, om, len : n = r.attempts /\ k = Len(q.evidence) /\ om = r.omissions /\ len = Len(q.plan.requests)
    OBVIOUS
<1>3. k \in Nat /\ len \in Nat
    BY <1>2, LimitsAssumption DEF EvidenceFits, PlanFits
<1>4. r.lookahead = len
    BY <1>1, <1>2 DEF ReportFits
<1>5. r.notRead = len - n
    BY <1>1, <1>2, <1>4 DEF ReportFits
<1>6. n = k + Len(om)
    BY <1>1, <1>2 DEF ReportFits
<1>7. om \in Seq(Range(om)) /\ Len(om) \in Nat
    <2>1. om \in Seq(Range(om))
        BY <1>1, <1>2 DEF ReportFits
    <2>2. QED  BY <2>1
<1>8. n \in Nat /\ n + 1 \in 1..len /\ request = q.plan.requests[n + 1]
    BY <1>1, <1>2, NextIsPlanned
<1>9. m.report.attempts = n + 1 /\ m.report.notRead = r.notRead - 1 /\ m.plan = q.plan
      /\ m.evidence = Append(q.evidence, e) /\ m.selected = q.selected \cup {request.fact}
      /\ m.authoritative = q.authoritative /\ e.fact = request.fact
    BY <1>1, <1>2 DEF Supplies
<1>10. m.report.lookahead = len /\ m.report.omissions = om /\ m.report.tail = r.tail /\ m.report.stop = r.stop
    BY <1>1, <1>2, <1>4 DEF Supplies
<1>11. m.report = [x \in DOMAIN Report(m.plan) |-> m.report[x]]
    BY DEF Supplies, ReportShaped
<1>12. m.report.evidence = Len(m.evidence) /\ m.report.candidates = Len(m.candidates)
    BY DEF Supplies
<1>13. PICK s : s = m.evidence
    OBVIOUS
<1>14. q.evidence \in Seq(Range(q.evidence)) /\ s = Append(q.evidence, e)
    BY <1>9, <1>13 DEF EvidenceFits
<1>15. Len(s) = k + 1 /\ Range(s) = Range(q.evidence) \cup {e}
    BY <1>2, <1>14, Appended
<1>16. m.report.lookahead = Len(m.plan.requests) /\ m.report.attempts \in 0..m.report.lookahead
    BY <1>2, <1>3, <1>8, <1>9, <1>10
<1>17. m.report.notRead = m.report.lookahead - m.report.attempts
    BY <1>3, <1>5, <1>8, <1>9, <1>10
<1>18. (m.report.tail <=> m.plan.unplanned > 0) /\ m.report.stop = "neighborhood_exhausted"
    <2>1. (r.tail <=> q.plan.unplanned > 0) /\ r.stop = "neighborhood_exhausted"
        BY <1>1 DEF ReportFits
    <2>2. QED  BY <1>9, <1>10, <2>1
<1>19. DOMAIN om = 1..Len(om)
    BY <1>1, <1>2 DEF ReportFits
<1>20. m.report.attempts = Len(m.evidence) + Len(m.report.omissions)
    BY <1>3, <1>6, <1>7, <1>9, <1>10, <1>13, <1>15
<1>21. m.selected = {m.plan.requests[i].fact : i \in 1..m.report.attempts}
    <2>1. q.selected = {q.plan.requests[i].fact : i \in 1..n}
        BY <1>1, <1>2 DEF ReportFits
    <2> DEFINE requests == q.plan.requests
    <2>2. {requests[i].fact : i \in 1..(n + 1)} = {requests[i].fact : i \in 1..n} \cup {requests[n + 1].fact}
        BY <1>8, SelectedGrows
    <2>3. QED  BY <1>8, <1>9, <2>1, <2>2
<1>22. m.selected \subseteq {x.fact : x \in Range(s)} \cup {x.fact : x \in Range(om)}
    <2>1. q.selected \subseteq {x.fact : x \in Range(q.evidence)} \cup {x.fact : x \in Range(om)}
        BY <1>1, <1>2 DEF ReportFits
    <2>2. e \in Range(s)
        BY <1>15
    <2>3. request.fact \in {x.fact : x \in Range(s)}
        BY <1>9, <2>2
    <2>4. QED  BY <1>9, <1>15, <2>1, <2>3
<1>23. ASSUME NEW i \in DOMAIN om
       PROVE  /\ om[i].index \in Nat /\ om[i].index < m.report.attempts /\ om[i].fact \in m.selected
              /\ i > 1 => om[i - 1].index < om[i].index
              /\ om[i].reason = "legacy_read_unavailable" => m.authoritative[om[i].fact].binding = {}
    <2>1. PICK x : x = om[i]
        OBVIOUS
    <2>2. /\ x.index \in Nat /\ x.index < n /\ x.fact \in q.selected
          /\ i > 1 => om[i - 1].index < x.index
          /\ x.reason = "legacy_read_unavailable" => q.authoritative[x.fact].binding = {}
        BY <1>1, <1>2, <1>23, <2>1 DEF ReportFits
    <2>3. x.index < m.report.attempts
        BY <1>8, <1>9, <2>2
    <2>4. x.fact \in m.selected
        BY <1>9, <2>2
    <2>5. QED  BY <1>9, <2>1, <2>2, <2>3, <2>4
<1>24. QED  BY <1>7, <1>10, <1>11, <1>12, <1>13, <1>16, <1>17, <1>18, <1>19, <1>20, <1>21, <1>22, <1>23 DEF ReportFits

\* Evidence that is bound as its fact is keeps the sum of the files.
LEMMA SuppliedEvidence ==
    ASSUME NEW q, EvidenceFits(q), ReportFits(q),
           NEW request, NEW m, NEW e, Supplies(q, m, request, e), e.origin.file \in Nat,
           e.origin.receipt = {b.receipt : b \in q.authoritative[e.fact].binding},
           \A b \in q.authoritative[e.fact].binding : b.repo = e.ref.repo
    PROVE  EvidenceFits(m)
<1>1. PICK s, k : s = m.evidence /\ k = Len(q.evidence)
    OBVIOUS
<1>2. q.evidence \in Seq(Range(q.evidence)) /\ s = Append(q.evidence, e) /\ k \in Nat
    BY <1>1 DEF EvidenceFits, Supplies
<1>3. s \in Seq(Range(s)) /\ Len(s) = k + 1 /\ DOMAIN s = 1..Len(s)
    <2>1. s \in Seq(Range(s))
        BY <1>2, Appended
    <2>2. Len(s) = k + 1 /\ DOMAIN s = 1..Len(s)
        BY <1>1, <1>2, Appended
    <2>3. QED  BY <2>1, <2>2
<1>4. \A i \in 1..k : s[i] = q.evidence[i]
    BY <1>1, <1>2, Appended
<1>5. s[k + 1] = e
    <2>1. s[Len(s)] = e
        BY <1>2, Appended
    <2>2. QED  BY <1>3, <2>1
<1>6. e.id = k + 1 /\ e.fact \in m.selected /\ q.selected \subseteq m.selected /\ m.authoritative = q.authoritative
    BY <1>1 DEF Supplies
<1>7. ASSUME NEW i \in 1..Len(s)
      PROVE  /\ s[i].id = i /\ s[i].fact \in m.selected /\ s[i].origin.file \in Nat
             /\ s[i].origin.receipt = {b.receipt : b \in m.authoritative[s[i].fact].binding}
             /\ \A b \in m.authoritative[s[i].fact].binding : b.repo = s[i].ref.repo
    <2>1. CASE i \in 1..k
        <3>1. PICK x : x = q.evidence[i]
            OBVIOUS
        <3>2. /\ x.id = i /\ x.fact \in q.selected /\ x.origin.file \in Nat
              /\ x.origin.receipt = {b.receipt : b \in q.authoritative[x.fact].binding}
              /\ \A b \in q.authoritative[x.fact].binding : b.repo = x.ref.repo
            BY <1>1, <2>1, <3>1 DEF EvidenceFits
        <3>3. s[i] = x
            BY <1>4, <2>1, <3>1
        <3>4. QED  BY <1>6, <3>2, <3>3
    <2>2. CASE i = k + 1
        <3>1. s[i] = e
            BY <1>5, <2>2
        <3>2. QED  BY <1>6, <2>2, <3>1
    <2>3. QED  BY <1>2, <1>3, <2>1, <2>2
<1>8. m.report.validated = Total([i \in DOMAIN s |-> s[i].origin.file])
    <2> DEFINE old == [i \in DOMAIN q.evidence |-> q.evidence[i].origin.file]
               new == [i \in DOMAIN s |-> s[i].origin.file]
    <2>1. DOMAIN q.evidence = 1..k
        BY <1>1, <1>2
    <2>2. \A i \in 1..k : q.evidence[i].origin.file \in Nat
        BY <1>1 DEF EvidenceFits
    <2>3. old \in Seq(Nat) /\ Len(old) = k
        <3>1. old \in [1..k -> Nat]
            BY <2>1, <2>2
        <3>2. QED  BY <1>2, <3>1
    <2>4. new \in Seq(Nat) /\ Len(new) = k + 1
        <3>1. new \in [1..(k + 1) -> Nat]
            BY <1>3, <1>7
        <3>2. QED  BY <1>2, <3>1
    <2>5. \A i \in 1..k : new[i] = old[i]
        BY <1>2, <1>3, <1>4, <2>1
    <2>6. new[k + 1] = e.origin.file
        BY <1>2, <1>3, <1>5
    <2>7. m.report.validated = q.report.validated + e.origin.file
        BY DEF Supplies
    <2>8. q.report.validated = Total(old)
        BY DEF EvidenceFits
    <2> HIDE DEF old, new
    <2>9. Total(new) = Total(old) + new[Len(new)]
        BY <2>3, <2>4, <2>5, TotalAppend
    <2>10. QED  BY <2>4, <2>6, <2>7, <2>8, <2>9 DEF new
<1>9. QED  BY <1>1, <1>3, <1>7, <1>8 DEF EvidenceFits

\* A candidate's text is its evidence, any other is of an end of the gap.
LEMMA SuppliedMembership ==
    ASSUME NEW q, PlanFits(q.plan), ReportFits(q), EvidenceFits(q), MembershipFits(q), MoreToRead(q),
           NEW request, request = q.plan.requests[NextRequest(q)],
           NEW m, NEW e, Supplies(q, m, request, e)
    PROVE  MembershipFits(m)
<1>1. PICK s, k, n, cs, ss : /\ s = m.evidence /\ k = Len(q.evidence) /\ n = q.report.attempts
                             /\ cs = q.candidates /\ ss = q.sources
    OBVIOUS
<1>2. q.evidence \in Seq(Range(q.evidence)) /\ s = Append(q.evidence, e) /\ k \in Nat
    BY <1>1 DEF EvidenceFits, Supplies
<1>3. Len(s) = k + 1 /\ s[k + 1] = e
    <2>1. Len(s) = k + 1 /\ s[Len(s)] = e
        BY <1>1, <1>2, Appended
    <2>2. QED  BY <2>1
<1>4. \A i \in 1..k : s[i] = q.evidence[i]
    BY <1>1, <1>2, Appended
<1>5. e.id = k + 1 /\ e.fact = request.fact /\ m.plan = q.plan /\ m.report.attempts = n + 1
    BY <1>1 DEF Supplies
<1>6. n \in Nat /\ n + 1 \in DOMAIN q.plan.requests /\ request = q.plan.requests[n + 1]
    BY <1>1, NextIsPlanned
<1>7. (request.candidate <=> n + 1 > 2) /\ request.fact = NodeFact(request.fact[2])
    BY <1>6 DEF PlanFits
<1>8. cs \in Seq(Range(cs)) /\ ss \in Seq(Range(ss))
    BY <1>1 DEF MembershipFits
<1>9. Len(cs) \in Nat /\ Len(ss) \in Nat
    BY <1>8
<1>10. k = Len(cs) + Len(ss) /\ Len(ss) <= 2 /\ Len(ss) <= n /\ (n <= 2 => cs = <<>>)
    BY <1>1 DEF MembershipFits
<1>11. Len(cs) < MAX_CANDIDATES /\ MAX_CANDIDATES \in Nat
    BY <1>1, LimitsAssumption DEF MoreToRead
<1> DEFINE ends == {NodeFact(q.plan.source), NodeFact(q.plan.gap)}
<1>12. ASSUME NEW i \in Range(ss) PROVE i \in 1..Len(s) /\ s[i].fact \in ends
    <2>1. i \in 1..k /\ q.evidence[i].fact \in ends
        BY <1>1, <1>12 DEF MembershipFits
    <2>2. s[i] = q.evidence[i] /\ i \in 1..Len(s)
        BY <1>2, <1>3, <1>4, <2>1
    <2>3. QED  BY <2>1, <2>2
<1>13. ASSUME NEW c \in Range(cs)
       PROVE  \E j \in 1..Len(s) : c.ids = {j} /\ s[j].fact = NodeFact(c.node)
    <2>1. PICK j \in 1..k : c.ids = {j} /\ q.evidence[j].fact = NodeFact(c.node)
        BY <1>1, <1>13 DEF MembershipFits
    <2>2. s[j] = q.evidence[j] /\ j \in 1..Len(s)
        BY <1>2, <1>3, <1>4, <2>1
    <2>3. QED  BY <2>1, <2>2
<1>14. k + 1 \in 1..Len(s)
    BY <1>2, <1>3
<1>15. CASE request.candidate
    <2>1. PICK x : x = [node |-> request.fact[2], ids |-> {e.id}]
        OBVIOUS
    <2>2. PICK ds : ds = m.candidates /\ ds = Append(cs, x)
        BY <1>1, <1>15, <2>1 DEF Supplies
    <2>3. m.sources = ss
        BY <1>1, <1>15 DEF Supplies
    <2>4. ds \in Seq(Range(ds))
        BY <1>8, <2>2, Appended
    <2>5. Len(ds) = Len(cs) + 1 /\ Range(ds) = Range(cs) \cup {x}
        BY <1>8, <2>2, Appended
    <2>6. x.ids = {k + 1} /\ s[k + 1].fact = NodeFact(x.node)
        BY <1>3, <1>5, <1>7, <2>1
    <2>7. \A c \in Range(ds) : \E j \in 1..Len(s) : c.ids = {j} /\ s[j].fact = NodeFact(c.node)
        BY <1>13, <1>14, <2>5, <2>6
    <2>8. Len(s) = Len(ds) + Len(ss) /\ Len(ds) <= MAX_CANDIDATES
        BY <1>2, <1>3, <1>9, <1>10, <1>11, <2>5
    <2>9. Len(ss) <= m.report.attempts /\ ~(m.report.attempts <= 2)
        BY <1>5, <1>6, <1>7, <1>9, <1>10, <1>15
    <2>10. QED  BY <1>1, <1>5, <1>8, <1>10, <1>12, <2>2, <2>3, <2>4, <2>7, <2>8, <2>9 DEF MembershipFits
<1>16. CASE ~request.candidate
    <2>1. PICK ts : ts = m.sources /\ ts = Append(ss, k + 1)
        BY <1>1, <1>5, <1>16 DEF Supplies
    <2>2. m.candidates = cs
        BY <1>1, <1>16 DEF Supplies
    <2>3. ts \in Seq(Range(ts))
        <3>1. PICK x : x = k + 1
            OBVIOUS
        <3>2. ts = Append(ss, x)
            BY <2>1, <3>1
        <3>3. QED  BY <1>8, <3>2, Appended
    <2>4. Len(ts) = Len(ss) + 1 /\ Range(ts) = Range(ss) \cup {k + 1}
        BY <1>8, <2>1, Appended
    <2>5. n + 1 = 1 \/ n + 1 = 2
        BY <1>6, <1>7, <1>16
    <2>6. request.fact \in ends
        BY <1>6, <2>5 DEF PlanFits
    <2>7. \A i \in Range(ts) : i \in 1..Len(s) /\ s[i].fact \in ends
        BY <1>3, <1>5, <1>12, <1>14, <2>4, <2>6
    <2>8. Len(s) = Len(cs) + Len(ts) /\ Len(cs) <= MAX_CANDIDATES
        BY <1>2, <1>3, <1>9, <1>10, <1>11, <2>4
    <2>9. Len(ts) <= m.report.attempts /\ Len(ts) <= 2 /\ (m.report.attempts <= 2 => cs = <<>>)
        BY <1>5, <1>6, <1>9, <1>10, <2>4, <2>5
    <2>10. QED  BY <1>1, <1>5, <1>8, <1>13, <2>1, <2>2, <2>3, <2>7, <2>8, <2>9 DEF MembershipFits
<1>17. QED  BY <1>15, <1>16

\* A supplied text is accounted for.
LEMMA SuppliedAccounts ==
    ASSUME NEW q, AccountFits(q), MoreToRead(q),
           NEW request, request = q.plan.requests[NextRequest(q)], Included(q, request.fact, request.digest),
           NEW m, NEW e, Supplies(q, m, request, e), m.report.validated \in 0..ValidationBytes, e.origin.file \in Nat,
           e.origin.receipt = {b.receipt : b \in q.authoritative[e.fact].binding},
           \A b \in q.authoritative[e.fact].binding : b.repo = e.ref.repo
    PROVE  AccountFits(m)
<1>1. PlanFits(q.plan) /\ SelectionsFit(q) /\ ReportFits(q) /\ EvidenceFits(q) /\ MembershipFits(q)
    BY DEF AccountFits
<1>2. m.plan = q.plan /\ m.authoritative = q.authoritative /\ m.selected = q.selected \cup {request.fact}
    BY DEF Supplies
<1>3. PlanFits(m.plan) /\ SelectionsFit(m)
    BY <1>1, <1>2, SelectionsStay
<1>4. ReportFits(m)
    BY <1>1, SuppliedReport
<1>5. EvidenceFits(m)
    BY <1>1, SuppliedEvidence
<1>6. MembershipFits(m)
    BY <1>1, SuppliedMembership
<1>7. QED  BY <1>3, <1>4, <1>5, <1>6 DEF AccountFits

\* The text of a working tree counts no bytes as validated.
LEMMA LegacyAccounts ==
    ASSUME NEW q, PrepShaped(q), AccountFits(q), MoreToRead(q),
           NEW request, request = q.plan.requests[NextRequest(q)], Included(q, request.fact, request.digest),
           q.authoritative[request.fact].binding = {}, NEW text
    PROVE  AccountFits(Supplied(q, text, WorkingTreeUnverified))
<1>1. PICK m, e : m = Supplied(q, text, WorkingTreeUnverified) /\ e = EvidenceOf(q, text, WorkingTreeUnverified)
    OBVIOUS
<1>2. ReportFits(q) /\ EvidenceFits(q)
    BY DEF AccountFits
<1>3. ReportShaped(q.report, q.plan)
    BY <1>2 DEF ReportFits, ReportShaped
<1>4. e.id = Len(q.evidence) + 1 /\ e.fact = request.fact /\ e.origin = WorkingTreeUnverified
    BY <1>1 DEF EvidenceOf
<1>5. PICK id : id = Len(q.evidence) + 1
    OBVIOUS
<1>6. /\ ReportShaped(m.report, q.plan)
      /\ m.plan = q.plan /\ m.authoritative = q.authoritative
      /\ m.evidence = Append(q.evidence, e)
      /\ m.candidates = IF request.candidate THEN Append(q.candidates, [node |-> request.fact[2], ids |-> {id}])
                        ELSE q.candidates
      /\ m.sources = IF request.candidate THEN q.sources ELSE Append(q.sources, id)
      /\ m.selected = q.selected \cup {request.fact}
      /\ m.report.attempts = q.report.attempts + 1 /\ m.report.notRead = q.report.notRead - 1
      /\ m.report.evidence = Len(m.evidence) /\ m.report.candidates = Len(m.candidates)
      /\ \A x \in {"lookahead", "validated", "omissions", "tail", "stop"} : m.report[x] = q.report[x]
    BY <1>1, <1>3, <1>5, SuppliedIs
<1>7. e.origin.file = 0 /\ e.origin.receipt = {}
    BY <1>4 DEF WorkingTreeUnverified
<1>8. q.report.validated \in 0..ValidationBytes
    BY <1>2 DEF ReportFits
<1>9. ValidationBytes \in Nat
    BY LimitsAssumption
<1>10. m.report.validated = q.report.validated
    BY <1>6
<1>11. m.report.validated = q.report.validated + e.origin.file /\ m.report.validated \in 0..ValidationBytes
    BY <1>7, <1>8, <1>9, <1>10
<1>12. \A x \in {"lookahead", "omissions", "tail", "stop"} : m.report[x] = q.report[x]
    BY <1>6
<1>13. Supplies(q, m, request, e)
    BY <1>4, <1>5, <1>6, <1>11, <1>12 DEF Supplies
<1>14. e.origin.receipt = {b.receipt : b \in q.authoritative[e.fact].binding}
       /\ \A b \in q.authoritative[e.fact].binding : b.repo = e.ref.repo
    BY <1>4, <1>7
<1>15. e.origin.file \in Nat
    BY <1>7
<1>16. QED  BY <1>1, <1>11, <1>13, <1>14, <1>15, SuppliedAccounts

\* A captured text counts the whole file, within the limit.
LEMMA CapturedAccounts ==
    ASSUME NEW q, PrepShaped(q), AccountFits(q), MoreToRead(q),
           NEW request, request = q.plan.requests[NextRequest(q)], Included(q, request.fact, request.digest),
           NEW b \in q.authoritative[request.fact].binding, NEW retained, retained \subseteq DOMAIN Receipts,
           CapturedReadable(q, request, b, retained, Receipts)
    PROVE  AccountFits(SuppliedCaptured(q, b, Receipts[b.receipt]))
<1>1. PICK r, origin : r = Receipts[b.receipt] /\ origin = [receipt |-> {b.receipt}, file |-> r.file]
    OBVIOUS
<1>2. PICK a, m, e : a = Supplied(q, r.text, origin) /\ m = SuppliedCaptured(q, b, r) /\ e = EvidenceOf(q, r.text, origin)
    OBVIOUS
<1>3. PlanFits(q.plan) /\ ReportFits(q) /\ EvidenceFits(q) /\ SelectionsFit(q)
    BY DEF AccountFits
<1>4. ReportShaped(q.report, q.plan)
    BY <1>3 DEF ReportFits, ReportShaped
<1>5. e.id = Len(q.evidence) + 1 /\ e.fact = request.fact /\ e.ref = request.refs[1] /\ e.origin = origin
    BY <1>2 DEF EvidenceOf
<1>6. PICK id : id = Len(q.evidence) + 1
    OBVIOUS
<1>7. /\ a = [f \in DOMAIN NoPreparation |-> a[f]] /\ ReportShaped(a.report, q.plan)
      /\ a.plan = q.plan /\ a.authoritative = q.authoritative
      /\ a.evidence = Append(q.evidence, e)
      /\ a.candidates = IF request.candidate THEN Append(q.candidates, [node |-> request.fact[2], ids |-> {id}])
                        ELSE q.candidates
      /\ a.sources = IF request.candidate THEN q.sources ELSE Append(q.sources, id)
      /\ a.selected = q.selected \cup {request.fact}
      /\ a.report.attempts = q.report.attempts + 1 /\ a.report.notRead = q.report.notRead - 1
      /\ a.report.evidence = Len(a.evidence) /\ a.report.candidates = Len(a.candidates)
      /\ \A x \in {"lookahead", "validated", "omissions", "tail", "stop"} : a.report[x] = q.report[x]
    BY <1>2, <1>4, <1>6, SuppliedIs
<1>8. m = [a EXCEPT !.report.validated = Charged(q, r)]
    BY <1>1, <1>2 DEF SuppliedCaptured
<1>9. /\ m = [f \in DOMAIN NoPreparation |-> IF f = "report" THEN m.report ELSE a[f]]
      /\ m.report = [x \in DOMAIN Report(q.plan) |-> IF x = "validated" THEN Charged(q, r) ELSE a.report[x]]
    <2>1. a = [f \in DOMAIN NoPreparation |-> a[f]] /\ a.report = [x \in DOMAIN Report(q.plan) |-> a.report[x]]
        BY <1>7 DEF ReportShaped
    <2>2. QED  BY <1>8, <2>1, PrepFields, ReportFields
<1>10. /\ m.plan = a.plan /\ m.authoritative = a.authoritative /\ m.evidence = a.evidence
       /\ m.candidates = a.candidates /\ m.sources = a.sources /\ m.selected = a.selected
    BY <1>9, PrepFields
<1>11. ReportShaped(m.report, q.plan)
    BY <1>9 DEF ReportShaped
<1>12. /\ m.report.attempts = a.report.attempts /\ m.report.notRead = a.report.notRead
       /\ m.report.evidence = a.report.evidence /\ m.report.candidates = a.report.candidates
       /\ \A x \in {"lookahead", "omissions", "tail", "stop"} : m.report[x] = a.report[x]
       /\ m.report.validated = Charged(q, r)
    BY <1>9, ReportFields
<1>13. \A x \in {"lookahead", "omissions", "tail", "stop"} : m.report[x] = q.report[x]
    BY <1>7, <1>12
<1>14. m.report.attempts = q.report.attempts + 1 /\ m.report.notRead = q.report.notRead - 1
       /\ m.report.evidence = Len(m.evidence) /\ m.report.candidates = Len(m.candidates)
    BY <1>7, <1>10, <1>12
<1>15. e.origin.file = r.file /\ e.origin.receipt = {b.receipt}
    BY <1>1, <1>5
<1>16. b.receipt \in DOMAIN Receipts
    BY DEF CapturedReadable
<1>17. r.file \in Nat /\ \A ref \in r.ranges : ref.repo = r.repo
    BY <1>1, <1>16, ReceiptsAssumption
<1>18. m.report.validated = q.report.validated + e.origin.file
    BY <1>12, <1>15 DEF Charged
<1>19. Charged(q, r) <= ValidationBytes
    BY <1>1 DEF CapturedReadable
<1>20. q.report.validated \in Nat
    <2>1. q.report.validated \in 0..ValidationBytes
        BY <1>3 DEF ReportFits
    <2>2. QED  BY <2>1, LimitsAssumption
<1>21. m.report.validated \in 0..ValidationBytes
    BY <1>12, <1>15, <1>17, <1>18, <1>19, <1>20, LimitsAssumption
<1>22. Supplies(q, m, request, e)
    BY <1>5, <1>6, <1>7, <1>10, <1>11, <1>13, <1>14, <1>18 DEF Supplies
<1>23. q.authoritative[request.fact].binding = {b}
    <2>1. NextRequest(q) \in DOMAIN q.plan.requests
        BY <1>3, NextIsPlanned
    <2>2. request.fact \in PlannedFacts(q.plan)
        BY <2>1 DEF PlannedFacts
    <2>3. QED  BY <1>3, <2>2 DEF SelectionsFit
<1>24. b.repo = e.ref.repo
    BY <1>1, <1>5, <1>17 DEF CapturedReadable
<1>25. e.origin.receipt = {x.receipt : x \in q.authoritative[e.fact].binding}
       /\ \A x \in q.authoritative[e.fact].binding : x.repo = e.ref.repo
    BY <1>5, <1>15, <1>23, <1>24
<1>26. e.origin.file \in Nat
    BY <1>15, <1>17
<1>27. AccountFits(m)
    BY <1>21, <1>22, <1>25, <1>26, SuppliedAccounts
<1>28. QED  BY <1>1, <1>2, <1>27

\* A finite set has at least as many elements as its image.
LEMMA ImageIsNoLarger ==
    ASSUME NEW S, IsFiniteSet(S), NEW f, DOMAIN f = S, NEW T, T = {f[x] : x \in S}
    PROVE  IsFiniteSet(T) /\ Cardinality(T) <= Cardinality(S)
<1> DEFINE g == [x \in S |-> f[x]]
<1>1. g \in [S -> T] /\ \A y \in T : \E x \in S : g[x] = y
    OBVIOUS
<1>2. g \in Surjection(S, T)
    BY <1>1 DEF Surjection
<1>3. QED  BY <1>2, FS_Surjection

\* The fields of the task of a preparation.
LEMMA TaskIs ==
    ASSUME NEW q, ReportFits(q), NEW t, t = TaskOf(q)
    PROVE  /\ t.gap = q.plan.gap /\ t.source = q.plan.source /\ t.label = q.plan.label
           /\ t.evidence = q.evidence /\ t.candidates = q.candidates /\ t.sources = q.sources
           /\ t.selected = {[fact |-> f, sel |-> q.authoritative[f]] :
                                f \in q.selected \cup {EdgeFact(e) : e \in Range(q.plan.slot)}}
           /\ t.report.stop = StopReason(q)
           /\ \A x \in DOMAIN Report(q.plan) \ {"stop"} : t.report[x] = q.report[x]
<1>1. q.report = [x \in DOMAIN Report(q.plan) |-> q.report[x]]
    BY DEF ReportFits
<1>2. t.report = [q.report EXCEPT !.stop = StopReason(q)]
    BY DEF TaskOf
<1>3. t.report.stop = StopReason(q) /\ \A x \in DOMAIN Report(q.plan) \ {"stop"} : t.report[x] = q.report[x]
    BY <1>1, <1>2, ReportFields
<1>4. t.gap = q.plan.gap /\ t.source = q.plan.source /\ t.label = q.plan.label
      /\ t.evidence = q.evidence /\ t.candidates = q.candidates /\ t.sources = q.sources
      /\ t.selected = {[fact |-> f, sel |-> q.authoritative[f]] :
                           f \in q.selected \cup {EdgeFact(e) : e \in Range(q.plan.slot)}}
    BY DEF TaskOf
<1>5. QED  BY <1>3, <1>4

\* The reason given for stopping is the one the counts show.
LEMMA StopIsAccounted ==
    ASSUME NEW q, PlanFits(q.plan), ReportFits(q), MembershipFits(q), ~MoreToRead(q), NEW t, t = TaskOf(q)
    PROVE  StopAccounted(t.report)
<1>1. PICK r, n, len, c : r = q.report /\ n = r.attempts /\ len = Len(q.plan.requests) /\ c = Len(q.candidates)
    OBVIOUS
<1>2. len \in Nat /\ len <= MAX_REQUESTS /\ MAX_REQUESTS \in Nat /\ MAX_CANDIDATES \in Nat
      /\ (q.plan.unplanned > 0 => len = MAX_REQUESTS)
    BY <1>1, LimitsAssumption DEF PlanFits
<1>3. n \in 0..len /\ r.notRead = len - n /\ r.candidates = c /\ (r.tail <=> q.plan.unplanned > 0)
      /\ r.stop = "neighborhood_exhausted"
    BY <1>1 DEF ReportFits
<1>4. c \in Nat /\ c <= MAX_CANDIDATES
    BY <1>1 DEF MembershipFits
<1>5. /\ t.report.stop = StopReason(q) /\ t.report.candidates = c /\ t.report.tail = r.tail
      /\ t.report.notRead = r.notRead /\ t.report.attempts = n
    BY <1>1, <1>3, TaskIs, ReportFields
<1>6. CASE c = MAX_CANDIDATES
    <2>1. StopReason(q) = "candidate_limit"
        BY <1>1, <1>6 DEF StopReason
    <2>2. QED  BY <1>5, <1>6, <2>1 DEF StopAccounted
<1>7. CASE c # MAX_CANDIDATES /\ n = MAX_REQUESTS /\ q.plan.unplanned > 0
    <2>1. StopReason(q) = "attempt_limit"
        BY <1>1, <1>7 DEF StopReason
    <2>2. QED  BY <1>3, <1>5, <1>7, <2>1 DEF StopAccounted
<1>8. CASE c # MAX_CANDIDATES /\ ~(n = MAX_REQUESTS /\ q.plan.unplanned > 0)
    <2>1. StopReason(q) = "neighborhood_exhausted"
        BY <1>1, <1>3, <1>8 DEF StopReason
    <2>2. ~(n + 1 <= len)
        BY <1>1, <1>2, <1>4, <1>8 DEF MoreToRead, NextRequest
    <2>3. n = len
        BY <1>2, <1>3, <2>2
    <2>4. ~r.tail /\ r.notRead = 0
        BY <1>2, <1>3, <1>8, <2>3
    <2>5. QED  BY <1>5, <2>1, <2>4 DEF StopAccounted
<1>9. QED  BY <1>6, <1>7, <1>8

\* No more facts are selected than requests were read, but for the slot.
LEMMA FewSelected ==
    ASSUME NEW q, PlanFits(q.plan), ReportFits(q), NEW t, t = TaskOf(q)
    PROVE  Cardinality(t.selected) <= q.report.attempts + 1
<1>1. PICK n : n = q.report.attempts
    OBVIOUS
<1>2. n \in Nat
    <2>1. Len(q.plan.requests) \in Nat
        BY LimitsAssumption DEF PlanFits
    <2>2. n \in 0..Len(q.plan.requests)
        BY <1>1 DEF ReportFits
    <2>3. QED  BY <2>1, <2>2
<1> DEFINE facts == q.selected \cup {EdgeFact(e) : e \in Range(q.plan.slot)}
           fact == [i \in 1..n |-> q.plan.requests[i].fact]
           selection == [f \in facts |-> [fact |-> f, sel |-> q.authoritative[f]]]
<1>3. q.selected = {fact[i] : i \in 1..n}
    BY <1>1 DEF ReportFits
<1>4. IsFiniteSet(1..n) /\ Cardinality(1..n) = n
    BY <1>2, FS_Interval
<1>5. IsFiniteSet(q.selected) /\ Cardinality(q.selected) <= n
    <2>1. DOMAIN fact = 1..n
        OBVIOUS
    <2> HIDE DEF fact
    <2>2. PICK S, T : S = 1..n /\ T = q.selected
        OBVIOUS
    <2>3. IsFiniteSet(S) /\ DOMAIN fact = S /\ T = {fact[i] : i \in S}
        BY <1>3, <1>4, <2>1, <2>2
    <2>4. IsFiniteSet(T) /\ Cardinality(T) <= Cardinality(S)
        BY <2>3, ImageIsNoLarger
    <2>5. QED  BY <1>4, <2>2, <2>4
<1>6. Cardinality(q.selected) \in Nat
    BY <1>5, FS_CardinalityType
<1>7. IsFiniteSet(facts) /\ Cardinality(facts) <= n + 1
    <2>1. CASE Range(q.plan.slot) = {}
        <3>1. facts = q.selected
            BY <2>1
        <3> HIDE DEF facts
        <3>2. QED  BY <1>2, <1>5, <1>6, <3>1
    <2>2. ASSUME NEW e \in Range(q.plan.slot) PROVE IsFiniteSet(facts) /\ Cardinality(facts) <= n + 1
        <3>1. Range(q.plan.slot) = {e}
            BY <2>2 DEF PlanFits
        <3>2. facts = q.selected \cup {EdgeFact(e)}
            BY <3>1
        <3> HIDE DEF facts
        <3>3. IsFiniteSet(facts) /\ Cardinality(facts) = IF EdgeFact(e) \in q.selected THEN Cardinality(q.selected)
                                                          ELSE Cardinality(q.selected) + 1
            BY <1>5, <3>2, FS_AddElement
        <3>4. QED  BY <1>2, <1>5, <1>6, <3>3
    <2>3. QED  BY <2>1, <2>2
<1>8. t.selected = {[fact |-> f, sel |-> q.authoritative[f]] : f \in facts}
    BY TaskIs
<1> HIDE DEF facts
<1>a. DOMAIN selection = facts /\ t.selected = {selection[f] : f \in facts}
    BY <1>8
<1> HIDE DEF selection
<1>9. IsFiniteSet(t.selected) /\ Cardinality(t.selected) <= Cardinality(facts)
    BY <1>7, <1>a, ImageIsNoLarger
<1>10. Cardinality(t.selected) \in Nat /\ Cardinality(facts) \in Nat
    BY <1>7, <1>9, FS_CardinalityType
<1>11. QED  BY <1>1, <1>2, <1>7, <1>9, <1>10

\* The counts of the task are those of its evidence.
LEMMA CountsAreAccounted ==
    ASSUME NEW q, AccountFits(q), NEW t, t = TaskOf(q)
    PROVE  CountsAccounted(t)
<1>1. PlanFits(q.plan) /\ ReportFits(q) /\ EvidenceFits(q) /\ MembershipFits(q)
    BY DEF AccountFits
<1>2. PICK r, u, len, n, k, c, ss, om :
          /\ r = q.report /\ u = t.report /\ len = Len(q.plan.requests) /\ n = r.attempts
          /\ k = Len(q.evidence) /\ c = Len(q.candidates) /\ ss = Len(q.sources) /\ om = r.omissions
    OBVIOUS
<1>3. /\ u.lookahead = r.lookahead /\ u.attempts = n /\ u.notRead = r.notRead /\ u.evidence = r.evidence
      /\ u.candidates = r.candidates /\ u.validated = r.validated /\ u.omissions = om
    BY <1>1, <1>2, TaskIs, ReportFields
<1>4. t.evidence = q.evidence /\ t.candidates = q.candidates
    BY <1>1, TaskIs
<1>5. /\ r.lookahead = len /\ n \in 0..len /\ r.notRead = len - n
      /\ r.evidence = k /\ r.candidates = c /\ r.validated \in 0..ValidationBytes /\ n = k + Len(om)
    BY <1>1, <1>2 DEF ReportFits
<1>6. len \in 2..MAX_REQUESTS
    BY <1>1, <1>2 DEF PlanFits
<1>7. MAX_REQUESTS \in Nat /\ ValidationBytes \in Nat /\ MAX_CANDIDATES \in Nat
    BY LimitsAssumption
<1>8. k = c + ss /\ c <= MAX_CANDIDATES /\ ss <= 2 /\ c \in Nat /\ ss \in Nat
    <2>1. q.candidates \in Seq(Range(q.candidates)) /\ q.sources \in Seq(Range(q.sources))
        BY <1>1 DEF MembershipFits
    <2>2. c \in Nat /\ ss \in Nat
        BY <1>2, <2>1
    <2>3. QED  BY <1>1, <1>2, <2>2 DEF MembershipFits
<1>9. u.lookahead <= MAX_REQUESTS /\ u.attempts <= u.lookahead /\ u.notRead = u.lookahead - u.attempts
    BY <1>3, <1>5, <1>6, <1>7
<1>10. u.evidence = Len(t.evidence) /\ u.candidates = Len(t.candidates)
    BY <1>2, <1>3, <1>4, <1>5
<1>11. u.candidates <= MAX_CANDIDATES /\ u.evidence <= MAX_CANDIDATES + 4
    BY <1>3, <1>5, <1>7, <1>8
<1>12. u.validated <= ValidationBytes
    BY <1>3, <1>5, <1>7
<1>13. u.attempts = u.evidence + Len(u.omissions)
    BY <1>3, <1>5
<1>14. Cardinality(t.selected) <= u.attempts + 1
    BY <1>1, <1>2, <1>3, FewSelected
<1>15. u.validated = Total([i \in DOMAIN t.evidence |-> t.evidence[i].origin.file])
    BY <1>1, <1>2, <1>3, <1>4 DEF EvidenceFits
<1>16. QED  BY <1>2, <1>9, <1>10, <1>11, <1>12, <1>13, <1>14, <1>15 DEF CountsAccounted

\* The selection of a fact is found by the fact.
LEMMA SelectionFound ==
    ASSUME NEW t, NEW f, NEW sel, \E s \in t.selected : s.fact = f,
           \A s \in t.selected : s.fact = f => s.sel = sel
    PROVE  BindingOf(t, f) = sel.binding
<1> DEFINE c == CHOOSE s \in t.selected : s.fact = f
<1>1. c \in t.selected /\ c.fact = f
    OBVIOUS
<1>2. BindingOf(t, f) = c.sel.binding
    BY DEF BindingOf
<1> HIDE DEF c
<1>3. QED  BY <1>1, <1>2

\* Every fact the task rests on is selected, and but for the slot every
\* selected fact is justified by evidence or an omission.
LEMMA OriginsAreAccounted ==
    ASSUME NEW q, AccountFits(q), HasMembership(q), NEW t, t = TaskOf(q)
    PROVE  OriginsAccounted(t)
<1>1. PlanFits(q.plan) /\ SelectionsFit(q) /\ ReportFits(q) /\ EvidenceFits(q) /\ MembershipFits(q)
    BY DEF AccountFits
<1>2. PICK om, n, k : om = q.report.omissions /\ n = q.report.attempts /\ k = Len(q.evidence)
    OBVIOUS
<1> DEFINE slot == {EdgeFact(e) : e \in Range(q.plan.slot)}
           D == q.selected \cup slot
           facts == {s.fact : s \in t.selected}
           ends == {NodeFact(t.source), NodeFact(t.gap)}
           justified == {e.fact : e \in Range(t.evidence)} \cup {o.fact : o \in Range(t.report.omissions)}
           extra == facts \ justified
<1>3. /\ t.gap = q.plan.gap /\ t.source = q.plan.source /\ t.label = q.plan.label
      /\ t.evidence = q.evidence /\ t.candidates = q.candidates /\ t.sources = q.sources
      /\ t.report.omissions = om /\ t.report.attempts = n
    BY <1>1, <1>2, TaskIs, ReportFields
<1>4. t.selected = {[fact |-> f, sel |-> q.authoritative[f]] : f \in D}
    BY <1>1, TaskIs
<1>5. facts = D
    <2> HIDE DEF D
    <2>1. ASSUME NEW f \in D PROVE f \in facts
        <3>1. [fact |-> f, sel |-> q.authoritative[f]] \in t.selected
            BY <1>4
        <3>2. QED  BY <3>1
    <2>2. ASSUME NEW s \in t.selected PROVE s.fact \in D
        BY <1>4
    <2>3. QED  BY <2>1, <2>2
<1>6. ASSUME NEW f \in D PROVE BindingOf(t, f) = q.authoritative[f].binding
    <2> HIDE DEF D
    <2>1. \A s \in t.selected : s.fact = f => s.sel = q.authoritative[f]
        BY <1>4
    <2>2. \E s \in t.selected : s.fact = f
        <3>1. [fact |-> f, sel |-> q.authoritative[f]] \in t.selected
            BY <1>4
        <3>2. QED  BY <3>1
    <2>3. QED  BY <2>1, <2>2, SelectionFound
<1> HIDE DEF facts
<1>7. k \in Nat /\ DOMAIN q.evidence = 1..k /\ \A e \in Range(q.evidence) : \E i \in 1..k : e = q.evidence[i]
    <2>1. q.evidence \in Seq(Range(q.evidence))
        BY <1>1 DEF EvidenceFits
    <2>2. k \in Nat /\ DOMAIN q.evidence = 1..k
        BY <1>2, <2>1
    <2>3. QED  BY <2>2 DEF Range
<1>8. ASSUME NEW i \in 1..k
      PROVE  LET e == q.evidence[i]
             IN  /\ e.id = i /\ e.fact \in q.selected
                 /\ e.origin.receipt = {b.receipt : b \in q.authoritative[e.fact].binding}
                 /\ \A b \in q.authoritative[e.fact].binding : b.repo = e.ref.repo
    BY <1>1, <1>2 DEF EvidenceFits
<1>9. \A s \in Range(q.sources) : s \in 1..k /\ q.evidence[s].fact \in ends
    BY <1>1, <1>2, <1>3 DEF MembershipFits
<1>10. \A c \in Range(q.candidates) : \E i \in 1..k : c.ids = {i} /\ q.evidence[i].fact = NodeFact(c.node)
    BY <1>1, <1>2 DEF MembershipFits
<1>11. ends \subseteq facts
    <2>1. n > 2 /\ n \in Nat
        <3>1. q.candidates # <<>>
            BY DEF HasMembership
        <3>2. ~(n <= 2)
            BY <1>1, <1>2, <3>1 DEF MembershipFits
        <3>3. n \in Nat
            <4>1. Len(q.plan.requests) \in Nat
                BY <1>1, LimitsAssumption DEF PlanFits
            <4>2. n \in 0..Len(q.plan.requests)
                BY <1>1, <1>2 DEF ReportFits
            <4>3. QED  BY <4>1, <4>2
        <3>4. QED  BY <3>2, <3>3
    <2>2. 1 \in 1..n /\ 2 \in 1..n
        BY <2>1
    <2>3. q.selected = {q.plan.requests[i].fact : i \in 1..n}
        BY <1>1, <1>2 DEF ReportFits
    <2>4. q.plan.requests[1].fact \in q.selected /\ q.plan.requests[2].fact \in q.selected
        BY <2>2, <2>3
    <2>5. QED  BY <1>1, <1>3, <1>5, <2>4 DEF PlanFits
<1>12. ASSUME NEW c \in Range(t.candidates) PROVE NodeFact(c.node) \in facts
    <2>1. PICK i \in 1..k : q.evidence[i].fact = NodeFact(c.node)
        BY <1>3, <1>10, <1>12
    <2>2. q.evidence[i].fact \in q.selected
        BY <1>8
    <2>3. QED  BY <1>5, <2>1, <2>2
<1>13. ASSUME NEW e \in Range(t.evidence)
       PROVE  /\ e.fact \in facts
              /\ e.id \in Range(t.sources) => e.fact \in ends
              /\ \A c \in Range(t.candidates) : e.id \in c.ids => e.fact = NodeFact(c.node)
              /\ e.origin.receipt = {b.receipt : b \in BindingOf(t, e.fact)}
              /\ \A b \in BindingOf(t, e.fact) : b.repo = e.ref.repo
    <2>1. PICK i \in 1..k : e = q.evidence[i]
        BY <1>3, <1>7, <1>13
    <2>2. e.id = i /\ e.fact \in q.selected
        BY <1>8, <2>1
    <2>3. e.fact \in D
        BY <2>2
    <2>4. BindingOf(t, e.fact) = q.authoritative[e.fact].binding
        BY <1>6, <2>3
    <2>5. e.origin.receipt = {b.receipt : b \in BindingOf(t, e.fact)} /\ \A b \in BindingOf(t, e.fact) : b.repo = e.ref.repo
        BY <1>8, <2>1, <2>4
    <2>6. e.id \in Range(t.sources) => e.fact \in ends
        BY <1>3, <1>9, <2>1, <2>2
    <2>7. ASSUME NEW c \in Range(t.candidates), e.id \in c.ids PROVE e.fact = NodeFact(c.node)
        <3>1. PICK j \in 1..k : c.ids = {j} /\ q.evidence[j].fact = NodeFact(c.node)
            BY <1>3, <1>10, <2>7
        <3>2. j = i
            BY <2>2, <2>7, <3>1
        <3>3. QED  BY <2>1, <3>1, <3>2
    <2>8. QED  BY <1>5, <2>3, <2>5, <2>6, <2>7
<1>14. ASSUME NEW s \in t.selected, NEW b \in s.sel.binding PROVE s.sel.digest = {b.digest}
    <2>1. PICK f \in D : s = [fact |-> f, sel |-> q.authoritative[f]]
        BY <1>4, <1>14
    <2>2. b \in q.authoritative[f].binding
        BY <1>14, <2>1
    <2>3. q.authoritative[f].digest = {b.digest}
        BY <1>1, <2>2 DEF SelectionsFit
    <2>4. QED  BY <2>1, <2>3
<1>15. ASSUME NEW i \in DOMAIN t.report.omissions
       PROVE  LET o == t.report.omissions[i]
              IN  /\ o.index < t.report.attempts /\ o.fact \in facts
                  /\ i > 1 => t.report.omissions[i - 1].index < o.index
                  /\ o.reason = "legacy_read_unavailable" => BindingOf(t, o.fact) = {}
    <2>1. PICK o : o = om[i] /\ i \in DOMAIN om
        BY <1>3, <1>15
    <2>2. /\ o.index < n /\ o.fact \in q.selected
          /\ i > 1 => om[i - 1].index < o.index
          /\ o.reason = "legacy_read_unavailable" => q.authoritative[o.fact].binding = {}
        BY <1>1, <1>2, <2>1 DEF ReportFits
    <2>3. o.fact \in D
        BY <2>2
    <2>4. BindingOf(t, o.fact) = q.authoritative[o.fact].binding
        BY <1>6, <2>3
    <2>5. QED  BY <1>3, <1>5, <2>1, <2>2, <2>3, <2>4
<1>16. ASSUME NEW f \in extra PROVE extra = {f} /\ f[1] = "edge" /\ f[3] = t.label
    <2>1. q.selected \subseteq justified
        BY <1>1, <1>2, <1>3 DEF ReportFits
    <2>2. extra \subseteq slot
        BY <1>5, <2>1
    <2>3. PICK e \in Range(q.plan.slot) : f = EdgeFact(e)
        BY <1>16, <2>2
    <2>4. e.label = q.plan.label /\ Range(q.plan.slot) = {e}
        BY <1>1, <2>3 DEF PlanFits
    <2>5. slot = {f}
        BY <2>3, <2>4
    <2>6. extra = {f}
        BY <1>16, <2>2, <2>5
    <2>7. f[1] = "edge" /\ f[3] = e.label
        BY <2>3 DEF EdgeFact
    <2>8. QED  BY <1>3, <2>4, <2>6, <2>7
<1>17. ends \cup {NodeFact(c.node) : c \in Range(t.candidates)} \subseteq facts
    BY <1>11, <1>12
<1>18. QED  BY <1>13, <1>14, <1>15, <1>16, <1>17, Zenon DEF OriginsAccounted, facts

\* A preparation that has read all it may is one its contract accepts.
LEMMA FinishAccounts ==
    ASSUME NEW q, AccountFits(q), ~MoreToRead(q), HasMembership(q)
    PROVE  BasisAccounts(TaskOf(q))
<1>1. PICK t : t = TaskOf(q)
    OBVIOUS
<1>2. StopAccounted(t.report)
    BY <1>1, StopIsAccounted DEF AccountFits
<1>3. CountsAccounted(t) /\ OriginsAccounted(t)
    BY <1>1, CountsAreAccounted, OriginsAreAccounted
<1>4. QED  BY <1>1, <1>2, <1>3 DEF BasisAccounts

\* The first of a set of positions is one of them.
LEMMA FirstIsOne ==
    ASSUME NEW I, I \subseteq Nat, I # {}
    PROVE  Min(I) \in I
<1>1. PICK i \in I : \A j \in I : ~(<<j, i>> \in OpToRel(<, Nat))
    BY WFMin, NatLessThanWellFounded
<1>2. \A j \in I : ~(j < i)
    BY <1>1 DEF OpToRel
<1>3. \A j \in I : i <= j
    BY <1>2
<1>4. QED  BY <1>3 DEF Min

\* The node that is found is one of the id that was looked for.
LEMMA NodeFound ==
    ASSUME NEW g, NEW id, IsNode(g, id)
    PROVE  NodeOf(g, id).id = id
<1> DEFINE I == {i \in 1..Len(g.nodes) : g.nodes[i].id = id}
<1>1. IF I # {} THEN Min(I) > 0 ELSE 0 > 0
    BY DEF IsNode, Has, First, SelectInSeq
<1>2. I # {} /\ I \subseteq Nat
    BY <1>1
<1>3. Min(I) \in I
    BY <1>2, FirstIsOne
<1>4. NodeOf(g, id) = g.nodes[IF I # {} THEN Min(I) ELSE 0]
    BY DEF NodeOf, Take, First, SelectInSeq
<1>5. QED  BY <1>2, <1>3, <1>4

\* So is the gap.
LEMMA GapFound ==
    ASSUME NEW g, NEW id, IsGap(g, id)
    PROVE  GapOf(g, id).id = id
<1> DEFINE I == {i \in 1..Len(g.nodes) : g.nodes[i].id = id /\ g.nodes[i].gap}
<1>1. IF I # {} THEN Min(I) > 0 ELSE 0 > 0
    BY DEF IsGap, Has, First, SelectInSeq
<1>2. I # {} /\ I \subseteq Nat
    BY <1>1
<1>3. Min(I) \in I
    BY <1>2, FirstIsOne
<1>4. GapOf(g, id) = g.nodes[IF I # {} THEN Min(I) ELSE 0]
    BY DEF GapOf, Take, First, SelectInSeq
<1>5. QED  BY <1>2, <1>3, <1>4

\* The slot is one edge at most, and the label of the plan is its label.
LEMMA SlotLabelled ==
    ASSUME NEW g, NEW gap, NEW e \in Range(Slot(g, gap.id))
    PROVE  Range(Slot(g, gap.id)) = {e} /\ e.label = EdgeLabel(g, gap)
<1>1. PICK s : s = Slot(g, gap.id)
    OBVIOUS
<1>2. s = <<>> \/ \E x : s = <<x>>
    BY <1>1 DEF Slot
<1>3. s # <<>>
    BY <1>1 DEF Range
<1>4. PICK x : s = <<x>>
    BY <1>2, <1>3
<1>5. Range(s) = {x} /\ s[1] = x
    BY <1>4 DEF Range
<1>6. EdgeLabel(g, gap) = s[1].label
    BY <1>1, <1>3 DEF EdgeLabel
<1>7. QED  BY <1>1, <1>5, <1>6

\* Two elements before a sequence.
LEMMA TwoBefore ==
    ASSUME NEW a, NEW b, NEW n \in Nat, NEW rest, rest = [i \in 1..n |-> rest[i]], NEW s, s = <<a, b>> \o rest
    PROVE  /\ Len(s) = n + 2 /\ DOMAIN s = 1..(n + 2) /\ s[1] = a /\ s[2] = b
           /\ \A i \in 1..n : s[i + 2] = rest[i]
<1> DEFINE S == {rest[i] : i \in 1..n} \cup {a, b}
<1>1. rest \in Seq(S) /\ <<a, b>> \in Seq(S) /\ Len(rest) = n /\ Len(<<a, b>>) = 2
    OBVIOUS
<1>2. Len(s) = n + 2 /\ DOMAIN s = 1..(n + 2)
    BY <1>1, ConcatProperties
<1>3. s[1] = a /\ s[2] = b
    BY <1>1, ConcatProperties
<1>4. \A i \in 1..n : s[i + 2] = rest[i]
    BY <1>1, ConcatProperties
<1>5. QED  BY <1>2, <1>3, <1>4

\* A plan asks for the source, the gap and then as many candidates as fit.
LEMMA PlanOfFits ==
    ASSUME NEW g, NEW gapId, Plannable(g, gapId)
    PROVE  PlanFits(PlanOf(g, gapId))
<1> DEFINE gap == GapOf(g, gapId)
           src == CHOOSE s \in SourceOf(g, gap) : IsNode(g, s)
           near == Near(g, src, gapId)
           room == MAX_REQUESTS - 2
           kept == IF Len(near) > room THEN room ELSE Len(near)
           ends == <<Request(NodeOf(g, src), FALSE), Request(gap, FALSE)>>
           rest == [i \in 1..kept |-> Request(near[i], TRUE)]
<1>1. PICK plan : plan = PlanOf(g, gapId)
    OBVIOUS
<1>2. /\ plan.gap = gapId /\ plan.source = src /\ plan.label = EdgeLabel(g, gap) /\ plan.slot = Slot(g, gapId)
      /\ plan.requests = ends \o rest /\ plan.unplanned = Len(near) - kept
    BY <1>1 DEF PlanOf
<1>3. gap.id = gapId /\ IsNode(g, src)
    BY GapFound DEF Plannable
<1> HIDE DEF gap, src, near
<1>4. NodeOf(g, src).id = src
    BY <1>3, NodeFound
<1>5. Len(near) \in Nat
    OBVIOUS
<1>6. room \in Nat /\ MAX_REQUESTS \in Nat /\ room + 2 = MAX_REQUESTS
    BY LimitsAssumption
<1>7. kept \in 0..room /\ plan.unplanned \in Nat /\ (plan.unplanned > 0 => kept = room)
    BY <1>2, <1>5, <1>6
<1> HIDE DEF room, kept
<1>8. PICK a, b, r, n : /\ a = Request(NodeOf(g, src), FALSE) /\ b = Request(gap, FALSE) /\ r = rest /\ n = kept
    OBVIOUS
<1>9. /\ n \in Nat /\ r = [i \in 1..n |-> r[i]] /\ plan.requests = <<a, b>> \o r
      /\ \A i \in 1..n : r[i] = Request(near[i], TRUE)
    BY <1>2, <1>6, <1>7, <1>8
<1>10. Len(plan.requests) = n + 2 /\ DOMAIN plan.requests = 1..Len(plan.requests)
    BY <1>9, TwoBefore
<1>11. Len(plan.requests) \in 2..MAX_REQUESTS /\ (plan.unplanned > 0 => Len(plan.requests) = MAX_REQUESTS)
    BY <1>6, <1>7, <1>8, <1>10
<1>12. plan.requests[1] = Request(NodeOf(g, src), FALSE) /\ plan.requests[2] = Request(gap, FALSE)
    BY <1>8, <1>9, TwoBefore
<1>13. plan.requests[1].fact = NodeFact(plan.source) /\ plan.requests[2].fact = NodeFact(plan.gap)
    BY <1>2, <1>3, <1>4, <1>12 DEF Request
<1>14. ASSUME NEW i \in DOMAIN plan.requests
       PROVE  plan.requests[i].fact = NodeFact(plan.requests[i].fact[2]) /\ (plan.requests[i].candidate <=> i > 2)
    <2>1. CASE i > 2
        <3>1. i - 2 \in 1..n /\ (i - 2) + 2 = i
            <4>1. i \in 1..(n + 2)
                BY <1>10, <1>14
            <4>2. n \in Nat
                BY <1>9
            <4>3. QED  BY <2>1, <4>1, <4>2
        <3>2. plan.requests[i] = r[i - 2]
            <4>1. \A j \in 1..n : plan.requests[j + 2] = r[j]
                BY <1>9, TwoBefore
            <4>2. QED  BY <3>1, <4>1
        <3>3. plan.requests[i] = Request(near[i - 2], TRUE)
            BY <1>9, <3>1, <3>2
        <3>4. QED  BY <2>1, <3>3 DEF Request, NodeFact
    <2>2. CASE ~(i > 2)
        <3>1. i = 1 \/ i = 2
            BY <1>9, <1>10, <1>14, <2>2
        <3>2. QED  BY <1>12, <2>2, <3>1 DEF Request, NodeFact
    <2>3. QED  BY <2>1, <2>2
<1>15. \A e \in Range(plan.slot) : e.label = plan.label /\ Range(plan.slot) = {e}
    <2>1. PICK x : x = gap
        OBVIOUS
    <2>2. plan.slot = Slot(g, x.id) /\ plan.label = EdgeLabel(g, x)
        BY <1>2, <1>3, <2>1
    <2>3. QED  BY <2>2, SlotLabelled
<1>16. PlanFits(plan)
    BY <1>7, <1>10, <1>11, <1>13, <1>14, <1>15 DEF PlanFits
<1>17. QED  BY <1>1, <1>16

\* A preparation that was planned has read nothing.
LEMMA PlannedFresh ==
    ASSUME NEW g, NEW gapId, Plannable(g, gapId)
    PROVE  FreshFits(Planned(g, gapId))
<1>1. PICK q, plan : q = Planned(g, gapId) /\ plan = PlanOf(g, gapId)
    OBVIOUS
<1>2. q = [NoPreparation EXCEPT !.graph = g, !.plan = plan, !.report = Report(plan)]
    BY <1>1 DEF Planned
<1>3. q.plan = plan /\ q.report = Report(plan)
    BY <1>2, PrepFields
<1>4. q.selected = {} /\ q.evidence = <<>> /\ q.candidates = <<>> /\ q.sources = <<>>
    BY <1>2, PrepFields DEF NoPreparation
<1>5. PlanFits(plan)
    BY <1>1, PlanOfFits
<1>6. QED  BY <1>1, <1>3, <1>4, <1>5 DEF FreshFits

\* It accounts for what it has not read once what the facts are bound to is
\* known and the slot is included.
LEMMA FreshAccounts ==
    ASSUME NEW q, FreshFits(q), NEW g, NEW bindings, q.authoritative = Selections(g, bindings, q.plan),
           SlotIncluded(q)
    PROVE  AccountFits(q)
<1>1. /\ PlanFits(q.plan) /\ q.report = Report(q.plan) /\ q.selected = {}
      /\ q.evidence = <<>> /\ q.candidates = <<>> /\ q.sources = <<>>
    BY DEF FreshFits
<1>2. SelectionsFit(q)
    <2>1. ASSUME NEW f \in PlannedFacts(q.plan), NEW b \in q.authoritative[f].binding
          PROVE  q.authoritative[f].binding = {b}
        BY <2>1 DEF Selections, Selection
    <2>2. ASSUME NEW e \in Range(q.plan.slot), NEW b \in q.authoritative[EdgeFact(e)].binding
          PROVE  q.authoritative[EdgeFact(e)].digest = {b.digest}
        <3>1. Included(q, EdgeFact(e), e.digest)
            BY DEF SlotIncluded
        <3>2. QED  BY <2>2, <3>1 DEF Included
    <2>3. QED  BY <1>1, <2>1, <2>2 DEF SelectionsFit
<1>3. ReportFits(q)
    <2>1. PICK len : len = Len(q.plan.requests)
        OBVIOUS
    <2>2. len \in Nat /\ ValidationBytes \in Nat
        BY <1>1, <2>1, LimitsAssumption DEF PlanFits
    <2>3. PICK r : r = q.report
        OBVIOUS
    <2>4. /\ r.lookahead = len /\ r.attempts = 0 /\ r.notRead = len /\ r.evidence = 0 /\ r.candidates = 0
          /\ r.validated = 0 /\ r.omissions = <<>> /\ r.stop = "neighborhood_exhausted"
        BY <1>1, <2>1, <2>3 DEF Report
    <2>t. r.tail <=> q.plan.unplanned > 0
        <3>1. q.report.tail = Report(q.plan).tail
            BY <1>1
        <3>2. Report(q.plan).tail = (q.plan.unplanned > 0)
            BY Zenon DEF Report
        <3>3. QED  BY <2>3, <3>1, <3>2, Zenon
    <2>5. r = [x \in DOMAIN Report(q.plan) |-> r[x]]
        BY <1>1, <2>3 DEF Report
    <2>6. r.attempts \in 0..r.lookahead /\ r.notRead = r.lookahead - r.attempts /\ r.validated \in 0..ValidationBytes
        BY <2>2, <2>4
    <2>7. r.evidence = Len(q.evidence) /\ r.candidates = Len(q.candidates) /\ r.attempts = Len(q.evidence) + Len(r.omissions)
        BY <1>1, <2>4
    <2>8. DOMAIN r.omissions = 1..Len(r.omissions) /\ r.omissions \in Seq(Range(r.omissions)) /\ DOMAIN r.omissions = {}
        BY <2>4
    <2>9. q.selected = {q.plan.requests[i].fact : i \in 1..r.attempts}
        BY <1>1, <2>4
    <2>10. QED  BY <1>1, <2>1, <2>3, <2>t, <2>4, <2>5, <2>6, <2>7, <2>8, <2>9 DEF ReportFits
<1>4. EvidenceFits(q)
    <2>1. q.report.validated = 0
        BY <1>1 DEF Report
    <2>2. [i \in DOMAIN q.evidence |-> q.evidence[i].origin.file] = <<>>
        BY <1>1
    <2>3. q.report.validated = Total([i \in DOMAIN q.evidence |-> q.evidence[i].origin.file])
        <3>1. PICK s : s = [i \in DOMAIN q.evidence |-> q.evidence[i].origin.file]
            OBVIOUS
        <3>2. s = <<>>
            BY <2>2, <3>1
        <3>3. s \in Seq(Nat) /\ Len(s) = 0
            BY <3>2
        <3>4. QED  BY <2>1, <3>1, <3>3, TotalEmpty
    <2>4. q.evidence \in Seq(Range(q.evidence)) /\ 1..Len(q.evidence) = {}
        BY <1>1
    <2>5. QED  BY <2>3, <2>4 DEF EvidenceFits
<1>5. MembershipFits(q)
    <2>1. Range(q.candidates) = {} /\ Range(q.sources) = {}
        BY <1>1 DEF Range
    <2>2. q.report.attempts = 0 /\ MAX_CANDIDATES \in Nat
        BY <1>1, LimitsAssumption DEF Report
    <2>3. QED  BY <1>1, <2>1, <2>2 DEF MembershipFits
<1>6. QED  BY <1>1, <1>2, <1>3, <1>4, <1>5 DEF AccountFits

\* What the facts were bound to before the guards does not concern the plan.
LEMMA FreshStays ==
    ASSUME NEW q, PrepShaped(q), FreshFits(q), NEW x,
           NEW m, m = [q EXCEPT !.preliminary = x] \/ m = [q EXCEPT !.authoritative = x]
    PROVE  FreshFits(m)
<1>1. m.plan = q.plan /\ m.report = q.report /\ m.selected = q.selected
      /\ m.evidence = q.evidence /\ m.candidates = q.candidates /\ m.sources = q.sources
    BY PrepFields DEF PrepShaped
<1>2. QED  BY <1>1 DEF FreshFits

-----------------------------------------------------------------------------
(* Escalation: every preparation accounts for what it has read.            *)

\* A process whose preparation accounts for itself goes on.
LEMMA GotoAccounts ==
    ASSUME RunsFit, AccountsInv, NEW p \in Proc, NEW r, Goto(p, r), PreparationAccounts(r)
    PROVE  AccountsInv'
<1>1. run = [q \in Proc |-> run[q]]
    BY DEF RunsFit
<1>2. run' = [q \in Proc |-> IF q = p THEN r ELSE run[q]]
    BY <1>1 DEF Goto
<1>3. ASSUME NEW q \in Proc PROVE PreparationAccounts(run'[q])
    <2>1. CASE q = p
        BY <1>2, <2>1
    <2>2. CASE q # p
        <3>1. run'[q] = run[q]
            BY <1>2, <2>2
        <3>2. QED  BY <3>1 DEF AccountsInv
    <2>3. QED  BY <2>1, <2>2
<1>4. QED  BY <1>3 DEF AccountsInv

\* So does one that prepares nothing.
LEMMA PlainAccounts ==
    ASSUME RunsFit, AccountsInv, NEW p \in Proc, NEW r, Goto(p, r), r.pc \notin Reading
    PROVE  AccountsInv'
<1>1. PreparationAccounts(r)
    BY DEF PreparationAccounts, Reading
<1>2. QED  BY <1>1, GotoAccounts

\* A command that is over prepares nothing.
LEMMA IdleAccounts ==
    ASSUME RunsFit, AccountsInv, NEW p \in Proc, Goto(p, Idle)
    PROVE  AccountsInv'
<1>1. Idle.pc \notin Reading
    BY DEF Idle, Reading
<1>2. QED  BY <1>1, PlainAccounts

\* Nor does one that failed.
LEMMA FailAccounts ==
    ASSUME RunsFit, AccountsInv, NEW p \in Proc, Fail(p)
    PROVE  AccountsInv'
<1>1. PICK r : r = run[p] /\ CommandShaped(r)
    BY CommandOf DEF CommandFits
<1>2. CASE ~Goto(p, Idle)
    <2>1. PICK q : q = [r EXCEPT !.pc = "next", !.failed = @ + 1, !.gaps = Tail(@),
                                 !.prep = NoPreparation, !.task = <<>>, !.proposal = <<>>]
        OBVIOUS
    <2>2. Goto(p, q)
        BY <1>1, <1>2, <2>1 DEF Fail
    <2>3. q.pc = "next"
        BY <1>1, <2>1, CommandFields DEF CommandShaped
    <2>4. QED  BY <2>2, <2>3, PlainAccounts DEF Reading
<1>3. QED  BY <1>2, IdleAccounts

\* Before its preparation and after it a command prepares nothing.
LEMMA OutsideAccounts ==
    ASSUME RunsFit, AccountsInv, NEW p \in Proc,
           \/ EscalationPreview(p) \/ RunEscalation(p) \/ RunClassEscalation(p)
           \/ NextInstance(p) \/ CheckContext(p) \/ FinishReading(p)
           \/ ShowPreview(p) \/ Authorize(p) \/ CheckBeforeCall(p) \/ CallModel(p)
           \/ StageAnswer(p) \/ FinishRun(p)
    PROVE  AccountsInv'
<1>1. PICK r : r = run[p] /\ CommandShaped(r)
    BY CommandOf DEF CommandFits
<1>2. ASSUME NEW q, Goto(p, q),
             q.pc \in {"plan", "context", "next", "prepared", "authorized", "calling", "answered", "staged"}
      PROVE  AccountsInv'
    BY <1>2, PlainAccounts DEF Reading
<1>3. CASE Fail(p) \/ Goto(p, Idle)
    BY <1>3, FailAccounts, IdleAccounts
<1>4. CASE EscalationPreview(p)
    <2>1. PICK gap \in Gaps : Goto(p, [Idle EXCEPT !.pc = "plan", !.mode = "preview", !.gaps = <<gap>>])
        BY <1>4 DEF EscalationPreview
    <2>2. [Idle EXCEPT !.pc = "plan", !.mode = "preview", !.gaps = <<gap>>].pc = "plan"
        BY CommandFields DEF CommandShaped
    <2>3. QED  BY <1>2, <2>1, <2>2
<1>5. CASE RunEscalation(p)
    <2>1. PICK gap \in Gaps, mode \in {"local", "cloud"}, hash \in {{}} \cup {{s} : s \in shown} :
              Goto(p, [Idle EXCEPT !.pc = "context", !.mode = mode, !.gaps = <<gap>>,
                                   !.job = Len(jobs) + 1, !.approved = hash])
        BY <1>5 DEF RunEscalation
    <2>2. PICK q : q = [Idle EXCEPT !.pc = "context", !.mode = mode, !.gaps = <<gap>>,
                                    !.job = Len(jobs) + 1, !.approved = hash]
        OBVIOUS
    <2>3. q.pc = "context"
        BY <2>2, CommandFields DEF CommandShaped
    <2>4. QED  BY <1>2, <2>1, <2>2, <2>3
<1>6. CASE RunClassEscalation(p)
    <2>1. PICK q : q = [Idle EXCEPT !.pc = "next", !.mode = "class", !.job = Len(jobs) + 1, !.gaps = SetToSeq(Gaps)]
        OBVIOUS
    <2>2. q.pc = "next"
        BY <2>1, CommandFields DEF CommandShaped
    <2>3. Goto(p, q)
        BY <1>6, <2>1 DEF RunClassEscalation
    <2>4. QED  BY <1>2, <2>2, <2>3
<1>7. CASE (NextInstance(p) \/ CheckContext(p)) /\ ~Fail(p) /\ ~Goto(p, Idle)
    <2>1. PICK q : q = [r EXCEPT !.pc = "plan"]
        OBVIOUS
    <2>2. Goto(p, q)
        BY <1>1, <1>7, <2>1 DEF NextInstance, CheckContext
    <2>3. q.pc = "plan"
        BY <1>1, <2>1, CommandFields DEF CommandShaped
    <2>4. QED  BY <1>2, <2>2, <2>3
<1>8. CASE FinishReading(p) /\ ~Fail(p)
    <2>1. PICK q : q = [r EXCEPT !.pc = "prepared", !.task = TaskOf(r.prep), !.prep = NoPreparation]
        OBVIOUS
    <2>2. Goto(p, q)
        BY <1>1, <1>8, <2>1 DEF FinishReading
    <2>3. q.pc = "prepared"
        BY <1>1, <2>1, CommandFields DEF CommandShaped
    <2>4. QED  BY <1>2, <2>2, <2>3
<1>9. CASE Authorize(p) /\ ~Fail(p)
    <2>1. PICK cloud, grant : Goto(p, [r EXCEPT !.pc = "authorized", !.cloud = cloud, !.grant = grant])
        BY <1>1, <1>9 DEF Authorize
    <2>2. PICK q : q = [r EXCEPT !.pc = "authorized", !.cloud = cloud, !.grant = grant]
        OBVIOUS
    <2>3. q.pc = "authorized"
        BY <1>1, <2>2, CommandFields DEF CommandShaped
    <2>4. QED  BY <1>2, <2>1, <2>2, <2>3
<1>10. CASE CheckBeforeCall(p) /\ ~Fail(p)
    <2>1. PICK q : q = [r EXCEPT !.pc = "calling"]
        OBVIOUS
    <2>2. Goto(p, q)
        BY <1>1, <1>10, <2>1 DEF CheckBeforeCall
    <2>3. q.pc = "calling"
        BY <1>1, <2>1, CommandFields DEF CommandShaped
    <2>4. QED  BY <1>2, <2>2, <2>3
<1>11. CASE CallModel(p) /\ ~Fail(p)
    <2>1. PICK proposal : Goto(p, [r EXCEPT !.pc = "answered", !.proposal = proposal])
        BY <1>1, <1>11 DEF CallModel
    <2>2. PICK q : q = [r EXCEPT !.pc = "answered", !.proposal = proposal]
        OBVIOUS
    <2>3. q.pc = "answered"
        BY <1>1, <2>2, CommandFields DEF CommandShaped
    <2>4. QED  BY <1>2, <2>1, <2>2, <2>3
<1>12. CASE StageAnswer(p) /\ ~Fail(p)
    <2>1. PICK single, instance :
              /\ single = [r EXCEPT !.pc = "staged", !.task = <<>>, !.proposal = <<>>]
              /\ instance = [r EXCEPT !.pc = "next", !.staged = @ + 1, !.gaps = Tail(@), !.task = <<>>, !.proposal = <<>>]
        OBVIOUS
    <2>2. single.pc = "staged" /\ instance.pc = "next"
        BY <1>1, <2>1, CommandFields DEF CommandShaped
    <2>3. Goto(p, single) \/ Goto(p, instance)
        BY <1>1, <1>12, <2>1 DEF StageAnswer
    <2>4. QED  BY <1>2, <2>2, <2>3
<1>13. QED
    BY <1>3, <1>4, <1>5, <1>6, <1>7, <1>8, <1>9, <1>10, <1>11, <1>12 DEF ShowPreview, FinishRun

\* The preparation up to its evidence.
LEMMA PreparationStepAccounts ==
    ASSUME RunsFit, AccountsInv, NEW p \in Proc,
           ReadGraph(p) \/ ReadPreliminary(p) \/ AcquireGuards(p) \/ ReadAuthoritative(p)
    PROVE  AccountsInv'
<1>1. PICK r : r = run[p] /\ CommandShaped(r) /\ (r.pc \in Reading => PrepShaped(r.prep)) /\ PreparationAccounts(r)
    BY CommandOf DEF CommandFits, AccountsInv, Reading
<1>2. CASE Fail(p)
    BY <1>2, FailAccounts
<1>3. CASE ReadGraph(p) /\ ~Fail(p)
    <2>1. PICK prep, q : /\ prep = Planned(world.graph, Head(r.gaps))
                         /\ q = [r EXCEPT !.pc = "preliminary", !.prep = prep]
        OBVIOUS
    <2>2. Plannable(world.graph, Head(r.gaps)) /\ Goto(p, q)
        BY <1>1, <1>3, <2>1 DEF ReadGraph
    <2>3. q.pc = "preliminary" /\ q.prep = prep
        BY <1>1, <2>1, CommandFields DEF CommandShaped
    <2>4. FreshFits(prep)
        BY <2>1, <2>2, PlannedFresh
    <2>5. QED  BY <2>2, <2>3, <2>4, GotoAccounts DEF PreparationAccounts
<1>4. CASE ReadPreliminary(p) /\ ~Fail(p)
    <2>1. PICK selections : Goto(p, [r EXCEPT !.pc = "guards", !.prep.preliminary = selections])
        BY <1>1, <1>4 DEF ReadPreliminary
    <2>2. PICK prep, q : /\ prep = [r.prep EXCEPT !.preliminary = selections]
                         /\ q = [r EXCEPT !.pc = "guards", !.prep.preliminary = selections]
        OBVIOUS
    <2>3. q.pc = "guards" /\ q.prep = prep
        BY <1>1, <2>2, CommandFields DEF CommandShaped
    <2>4. PrepShaped(r.prep) /\ FreshFits(r.prep)
        BY <1>1, <1>4 DEF ReadPreliminary, PreparationAccounts, Reading
    <2>5. FreshFits(prep)
        BY <2>2, <2>4, FreshStays
    <2>6. QED  BY <2>1, <2>2, <2>3, <2>5, GotoAccounts DEF PreparationAccounts
<1>5. CASE AcquireGuards(p) /\ ~Fail(p)
    <2>1. PICK q : q = [r EXCEPT !.pc = "guarded"]
        OBVIOUS
    <2>2. q.pc = "guarded" /\ q.prep = r.prep
        BY <1>1, <2>1, CommandFields DEF CommandShaped
    <2>3. Goto(p, q) /\ FreshFits(r.prep)
        BY <1>1, <1>5, <2>1 DEF AcquireGuards, PreparationAccounts
    <2>4. QED  BY <2>2, <2>3, GotoAccounts DEF PreparationAccounts
<1>6. CASE ReadAuthoritative(p) /\ ~Fail(p)
    <2>1. PICK selections, prep, q :
              /\ selections = Selections(world.graph, world.bindings, r.prep.plan)
              /\ prep = [r.prep EXCEPT !.authoritative = selections]
              /\ q = [r EXCEPT !.pc = "reading", !.prep = prep]
        OBVIOUS
    <2>2. SlotIncluded(prep) /\ Goto(p, q)
        BY <1>1, <1>6, <2>1 DEF ReadAuthoritative
    <2>3. q.pc = "reading" /\ q.prep = prep
        BY <1>1, <2>1, CommandFields DEF CommandShaped
    <2>4. PrepShaped(r.prep) /\ FreshFits(r.prep)
        BY <1>1, <1>6 DEF ReadAuthoritative, PreparationAccounts, Reading
    <2>5. FreshFits(prep)
        BY <2>1, <2>4, FreshStays
    <2>6. prep.authoritative = selections /\ prep.plan = r.prep.plan
        BY <2>1, <2>4, PrepFields DEF PrepShaped
    <2>7. AccountFits(prep)
        BY <2>1, <2>2, <2>5, <2>6, FreshAccounts
    <2>8. QED  BY <2>2, <2>3, <2>7, GotoAccounts DEF PreparationAccounts
<1>7. QED  BY <1>2, <1>3, <1>4, <1>5, <1>6

\* One turn of the loop is accounted for.
LEMMA ReadRequestAccounts ==
    ASSUME RunsFit, WorldFits, AccountsInv, NEW p \in Proc, ReadRequest(p)
    PROVE  AccountsInv'
<1>1. PICK r : r = run[p] /\ CommandFits(r, shown) /\ PreparationAccounts(r)
    BY CommandOf DEF AccountsInv
<1>2. PICK q : q = r.prep
    OBVIOUS
<1>3. CommandShaped(r) /\ r.pc = "reading" /\ MoreToRead(q)
    BY <1>1, <1>2 DEF CommandFits, ReadRequest
<1>4. PrepShaped(q) /\ AccountFits(q)
    BY <1>1, <1>2, <1>3 DEF CommandFits, PreparationAccounts
<1>5. PICK request : request = q.plan.requests[NextRequest(q)]
    OBVIOUS
<1>6. CASE Fail(p)
    BY <1>6, FailAccounts
<1>7. ASSUME NEW prep, AccountFits(prep), Goto(p, [r EXCEPT !.prep = prep])
      PROVE  AccountsInv'
    <2>1. PICK c : c = [r EXCEPT !.prep = prep]
        OBVIOUS
    <2>2. c.pc = "reading" /\ c.prep = prep
        BY <1>3, <2>1, CommandFields DEF CommandShaped
    <2>3. QED  BY <1>7, <2>1, <2>2, GotoAccounts DEF PreparationAccounts
<1>8. CASE ~Fail(p)
    <2>1. Included(q, request.fact, request.digest)
        BY <1>1, <1>2, <1>5, <1>8 DEF ReadRequest
    <2>2. \/ Goto(p, [r EXCEPT !.prep = Omitted(q, "missing_citation")])
          \/ \E b \in q.authoritative[request.fact].binding :
                /\ CapturedReadable(q, request, b, world.retained, Receipts)
                /\ Goto(p, [r EXCEPT !.prep = SuppliedCaptured(q, b, Receipts[b.receipt])])
          \/ /\ q.authoritative[request.fact].binding = {}
             /\ \/ Goto(p, [r EXCEPT !.prep = Omitted(q, "legacy_read_unavailable")])
                \/ \E t : Goto(p, [r EXCEPT !.prep = Supplied(q, t, WorkingTreeUnverified)])
        BY <1>1, <1>2, <1>5, <1>8 DEF ReadRequest
    <2>3. CASE Goto(p, [r EXCEPT !.prep = Omitted(q, "missing_citation")])
        <3>1. PICK reason : reason = "missing_citation"
            OBVIOUS
        <3>2. AccountFits(Omitted(q, reason))
            BY <1>3, <1>4, <1>5, <2>1, <3>1, OmittedAccounts
        <3>3. QED  BY <1>7, <2>3, <3>1, <3>2
    <2>4. ASSUME NEW b \in q.authoritative[request.fact].binding,
                 CapturedReadable(q, request, b, world.retained, Receipts),
                 Goto(p, [r EXCEPT !.prep = SuppliedCaptured(q, b, Receipts[b.receipt])])
          PROVE  AccountsInv'
        <3>1. PICK retained : retained = world.retained /\ retained \subseteq DOMAIN Receipts
            BY DEF WorldFits
        <3>2. AccountFits(SuppliedCaptured(q, b, Receipts[b.receipt]))
            BY <1>3, <1>4, <1>5, <2>1, <2>4, <3>1, CapturedAccounts
        <3>3. QED  BY <1>7, <2>4, <3>2
    <2>5. CASE /\ q.authoritative[request.fact].binding = {}
               /\ Goto(p, [r EXCEPT !.prep = Omitted(q, "legacy_read_unavailable")])
        <3>1. PICK reason : reason = "legacy_read_unavailable"
            OBVIOUS
        <3>2. AccountFits(Omitted(q, reason))
            BY <1>3, <1>4, <1>5, <2>1, <2>5, OmittedAccounts
        <3>3. QED  BY <1>7, <2>5, <3>1, <3>2
    <2>6. ASSUME q.authoritative[request.fact].binding = {},
                 NEW t, Goto(p, [r EXCEPT !.prep = Supplied(q, t, WorkingTreeUnverified)])
          PROVE  AccountsInv'
        <3>1. AccountFits(Supplied(q, t, WorkingTreeUnverified))
            BY <1>3, <1>4, <1>5, <2>1, <2>6, LegacyAccounts
        <3>2. QED  BY <1>7, <2>6, <3>1
    <2>7. QED  BY <2>2, <2>3, <2>4, <2>5, <2>6
<1>9. QED  BY <1>6, <1>8

\* The invariant of the preparations is inductive together with that of the
\* escalations.
LEMMA AccountsInductive == EscalationInv /\ AccountsInv /\ [Next]_vars => AccountsInv'
<1> SUFFICES ASSUME EscalationInv, AccountsInv, [Next]_vars PROVE AccountsInv'
    OBVIOUS
<1>1. RunsFit /\ WorldFits
    BY DEF EscalationInv
<1>2. CASE run' = run
    BY <1>2 DEF AccountsInv
<1>3. ASSUME NEW p \in Proc, Command(p) PROVE AccountsInv'
    BY <1>1, <1>3, OutsideAccounts, PreparationStepAccounts, ReadRequestAccounts DEF Command
<1>4. CASE UNCHANGED vars \/ Load \/ Edit \/ Forget \/ ChangeSettings \/ CancelJob
           \/ \E u \in Reviewer : ListPage(u) \/ RecordAgentDecision(u)
    BY <1>2, <1>4 DEF vars, Load, Edit, Forget, ChangeSettings, CancelJob, ListPage, RecordAgentDecision
<1>5. QED  BY <1>3, <1>4 DEF Next

\* However the reading of the evidence went, what the report of a task says
\* of its requests, bytes and bindings is what its contract accepts
\* (source_basis.rs TaskSourceBasisV2::validate).
THEOREM SelectionsAreAccounted == Spec => []SelectionAccounts
<1>1. Init => EscalationInv /\ AccountsInv
    <2>1. ASSUME Init PROVE AccountsInv
        <3>1. run = [p \in Proc |-> Idle]
            BY <2>1 DEF Init
        <3>2. PreparationAccounts(Idle)
            BY DEF Idle, PreparationAccounts
        <3>3. QED  BY <3>1, <3>2 DEF AccountsInv
    <2>2. QED  BY <2>1, EscalationInit
<1>2. EscalationInv /\ AccountsInv /\ [Next]_vars => (EscalationInv /\ AccountsInv)'
    BY EscalationInductive, AccountsInductive
<1>3. EscalationInv /\ AccountsInv => SelectionAccounts
    BY FinishAccounts DEF AccountsInv, PreparationAccounts, SelectionAccounts
<1>4. QED  BY <1>1, <1>2, <1>3, PTL DEF Spec
=============================================================================
