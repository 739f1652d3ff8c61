------------------------------ MODULE MCRouter ------------------------------
(* Small instances of Router: websockets of one tab, clients of one remote host, and a process there. *)
EXTENDS Router

CONSTANTS server, w1, w2, s1, wavesrv, tab, host, proc, i1

MCRouteOf == [c \in Conns |-> IF c = ServerConn THEN wavesrv ELSE IF c \in WsConns THEN tab ELSE host]
MCBehind  == [c \in Conns |-> IF c \in Sockets THEN {proc} ELSE {}]
=============================================================================
