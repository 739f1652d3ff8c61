---------------------------- MODULE MCRpcHandler ----------------------------
(* Model values for the runs of RpcHandler.                                *)
EXTENDS RpcHandler

CONSTANTS q1, q2, s1
=============================================================================
