------------------------- MODULE MCShellController -------------------------
(***************************************************************************)
(* A block with two connections to choose from, and two calls.             *)
(***************************************************************************)
EXTENDS ShellController

CONSTANTS c1, c2, k1, k2, k3, p1, p2, p3, ssh, local

MCCall == {c1, c2}
MCCtl  == {k1, k2, k3}
MCProc == {p1, p2, p3}
MCConn == {local, ssh}

=============================================================================
