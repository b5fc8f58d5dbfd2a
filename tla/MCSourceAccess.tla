--------------------------- MODULE MCSourceAccess ---------------------------
(* Instances of SourceAccess for TLC. *)
EXTENDS SourceAccess, TLC

CONSTANTS a1, a2, i1, r1, p1, p2

\* One command for source 1 alone, one for a system of both.
SystemTarget == (a1 :> {1}) @@ (a2 :> {1, 2})
SystemHome == (a1 :> p1) @@ (a2 :> p2) @@ (i1 :> p1) @@ (r1 :> p2)
\* Two commands for a source each.
ApartTarget == (a1 :> {1}) @@ (a2 :> {2})
ApartHome == (a1 :> p1) @@ (a2 :> p1) @@ (i1 :> p1)
AddsHome == (a1 :> p1) @@ (a2 :> p1)
=============================================================================
