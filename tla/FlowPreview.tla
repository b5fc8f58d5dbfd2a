---------------------------- MODULE FlowPreview ----------------------------
(***************************************************************************)
(* The two commands that trace flows (src-tauri/src/main.rs): list_flows   *)
(* traces the stored slice, semantic_preview an overlay of it that is      *)
(* never stored.                                                           *)
(***************************************************************************)
EXTENDS Semantic

CONSTANTS
    Similarities,   \* what the embeddings may say: [<<gap, candidate>> -> 0..10]
    EvalSets,       \* labelled pairs, sequences of [score, match]
    Floors          \* precision floors in tenths

VARIABLE preview    \* as a set: [stored, pairs, floor, eval, approved] of a preview

previewVars == <<flowVars, preview>>

PreviewInit == FlowInit /\ preview = {}

ListFlows == Trace(slice) /\ UNCHANGED preview

(* build_semantic_preview.                                                 *)
SemanticPreview ==
    \E sim \in Similarities, pairs \in EvalSets, floor \in Floors :
        LET eval == Evaluate(pairs, floor)
            approved == GatedProposals(Propose(slice, sim), eval)
        IN  /\ EvalValid(pairs, floor)
            /\ Trace(Overlay(slice, approved))
            /\ preview' = {[stored |-> slice, pairs |-> pairs, floor |-> floor, eval |-> eval, approved |-> approved]}

PreviewNext == ListFlows \/ SemanticPreview \/ (TraceStep /\ UNCHANGED preview)

PreviewSpec == PreviewInit /\ [][PreviewNext]_previewVars

-----------------------------------------------------------------------------
(* A semantic guess only fills gaps: what is proposed passed a gate whose  *)
(* threshold meets the floor on the labelled pairs and recalls most of     *)
(* those that do; no hop that the stored graph leads to is lost but the    *)
(* filled ones; and a flow is verified on the overlay only if it is        *)
(* verified without it.                                                    *)
OverlayOnlyFills ==
    phase = "done" => \A v \in preview :
        LET filled == {p.gap : p \in Applied(v.stored, v.approved)}
            passing == {t \in 0..10 : MeetsFloor(Counts(v.pairs, t), v.floor)}
        IN  /\ \A p \in v.approved :
                  /\ p.sim >= v.eval.threshold /\ v.eval.threshold \in passing
                  /\ \A t \in passing : Counts(v.pairs, t).tp <= Counts(v.pairs, v.eval.threshold).tp
            /\ \A f \in ToSet(flows) : f.trigger \in DOMAIN v.stored.node =>
                  LET before == AllHops(v.stored, f.trigger)
                  IN  /\ ~f.depth_limited => \A h \in before : h.dst \in filled \/ h \in ToSet(f.hops)
                      /\ f.status = "Verified" => ToSet(f.hops) \subseteq before

-----------------------------------------------------------------------------
(* Similarities and scores are tenths.                                     *)
ASSUME PreviewAssumption == \A pairs \in EvalSets : pairs \in Seq([score : 0..10, match : BOOLEAN])

(* What is traced is a stored slice, or the overlay that the preview made. *)
PreviewInv ==
    /\ TraceInv
    /\ phase = "idle" => slice \in FlowGraphs /\ preview = {}
    /\ \A v \in preview :
          /\ v.stored \in FlowGraphs /\ slice = Overlay(v.stored, v.approved)
          /\ v.pairs \in EvalSets /\ EvalValid(v.pairs, v.floor) /\ v.eval = Evaluate(v.pairs, v.floor)
          /\ \E sim \in Similarities : v.approved = GatedProposals(Propose(v.stored, sim), v.eval)
=============================================================================
