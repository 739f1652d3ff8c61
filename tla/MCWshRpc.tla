------------------------------ MODULE MCWshRpc ------------------------------
(* Model values for the runs of WshRpc.                                    *)
EXTENDS WshRpc

CONSTANTS r1, c1, c2, s1

\* The two commands are alike, so it does not matter which of them comes first; a symmetry set, which
\* would say the same, is not sound for the temporal property.
FirstCommandFirst == call[c1] = "idle" => call[c2] = "idle"

\* The input ends on a call that is alone: after that calls have nothing in common any more.
ClosedAlone == ~inputOpen => Cardinality({h \in Calls : call[h] # "idle"}) <= 1

\* A stream is canceled when it is alone, or in the company of a command.
CanceledAlone ==
    (\E h \in Streams : cancel[h] # "none") => \A h \in Requests : call[h] = "idle"

Instance == FirstCommandFirst /\ ClosedAlone /\ CanceledAlone
=============================================================================
