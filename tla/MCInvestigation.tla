--------------------------- MODULE MCInvestigation ---------------------------
(* An instance of Investigation for TLC. *)
EXTENDS Investigation

CONSTANTS t1, p1, p2

OneTask  == {t1}
TwoProcs == {p1, p2}
=============================================================================
