----------------------------- MODULE MCSshConn -----------------------------
(***************************************************************************)
(* One connection and two calls; two of each thing that may be opened, of  *)
(* which one may be open at the start.                                     *)
(***************************************************************************)
EXTENDS SshConn

CONSTANTS c1, c2, x1, x2, l1, l2, s1, s2

MCCall     == {c1, c2}
MCClient   == {x1, x2}
MCListener == {l1, l2}
MCSess     == {s1, s2}

=============================================================================
