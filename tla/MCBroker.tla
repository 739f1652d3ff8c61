------------------------------ MODULE MCBroker ------------------------------
(* Model values for the runs of Broker and BrokerHistory: one pattern, which matches one of the scopes. *)
EXTENDS BrokerHistory, TLC

CONSTANTS route1, route2, type1, type2, scope1, scope2, star1, p1, p2

MCStarMatch(p, s) == s = scope1

Symmetry == Permutations(Publishers)
=============================================================================
