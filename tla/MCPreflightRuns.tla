--------------------------- MODULE MCPreflightRuns ---------------------------
(* Instances of PreflightRuns for TLC. *)
EXTENDS PreflightRuns, TLC

CONSTANTS r1, r2, x1, x2, a, b

TwoRuns == {r1, r2}
TwoRecoveries == {x1, x2}
TwoRepos == {a, b}
\* One recovery of a single repository, one of a manifest of two.
ManifestTargets == [x \in {x1, x2} |-> IF x = x1 THEN {a} ELSE {a, b}]
RunSymmetry == Permutations({r1, r2})
=============================================================================
