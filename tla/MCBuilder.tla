----------------------------- MODULE MCBuilder -----------------------------
(***************************************************************************)
(* Two calls on a builder with two apps, after an earlier one.             *)
(***************************************************************************)
EXTENDS Builder

CONSTANTS c1, c2, c3, p1, p2, p3, a1, a2

MCCall == {c1, c2, c3}
MCApp  == {a1, a2}
MCProc == {p1, p2, p3}

=============================================================================
