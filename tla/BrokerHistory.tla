--------------------------- MODULE BrokerHistory ---------------------------
(***************************************************************************)
(* The broker with what its users did: the subscription each route asked   *)
(* for last, the order in which events were stored, and late subscribers,  *)
(* which subscribe to all scopes of a type and then read its history.      *)
(***************************************************************************)
EXTENDS Broker

VARIABLES
    want,     \* route -> type -> the scopes it asked for last; AnyScope stands for all of them
    stored,   \* type -> scope -> the events that were stored under it, oldest first
    late      \* route -> the type it has subscribed to and read the history of, and what it read

historyVars == <<brokerVars, want, stored, late>>

NotLate == [type |-> "", read |-> {}]

HistoryInit ==
    /\ BrokerInit
    /\ want = [r \in Routes |-> [t \in Types |-> {}]]
    /\ stored = [t \in Types |-> [s \in Scopes \cup {AnyScope} |-> <<>>]]
    /\ late = [r \in Routes |-> NotLate]

Asks(r) ==
    /\ \E t \in Types, all \in BOOLEAN, scopes \in SUBSET (Scopes \cup Patterns) :
         /\ SubscribeCommand(r, t, all, scopes)
         /\ want' = [want EXCEPT ![r][t] = IF all THEN {AnyScope} ELSE scopes]
         /\ late' = [late EXCEPT ![r] = IF @.type = t /\ ~all THEN NotLate ELSE @]
    /\ UNCHANGED stored

Leaves(r) ==
    /\ \E types \in {{t} : t \in Types} \cup {Types} :
         /\ UnsubscribeCommand(r, types)
         /\ want' = [want EXCEPT ![r] = [t \in Types |-> IF t \in types THEN {} ELSE @[t]]]
         /\ late' = [late EXCEPT ![r] = IF @.type \in types THEN NotLate ELSE @]
    /\ UNCHANGED stored

\* A route that is subscribed to all scopes of a type reads its whole history.
Reads(r) ==
    /\ \E t \in Types :
         /\ AnyScope \in want[r][t]
         /\ late' = [late EXCEPT ![r] =
                       [type |-> t, read |-> ToSet(ReadEventHistory(t, AnyScope, MaxPersist))]]
    /\ UNCHANGED <<brokerVars, want, stored>>

\* Every history with one more event.
Grown(e) ==
    [t \in Types |-> [s \in Scopes \cup {AnyScope} |->
        IF t = e.type /\ s \in e.scopes \cup {AnyScope} THEN Append(stored[t][s], e) ELSE stored[t][s]]]

Publishes(p) ==
    /\ Publish(p) \/ PublishStep(p)
    /\ stored' = IF pub[p].pc = "persist" THEN Grown(pub[p].event) ELSE stored
    /\ UNCHANGED <<want, late>>

HistoryNext ==
    \/ SetClient /\ UNCHANGED <<want, stored, late>>
    \/ \E p \in Publishers : Publishes(p)
    \/ \E r \in Routes : Asks(r) \/ Leaves(r) \/ Reads(r)

HistorySpec == HistoryInit /\ [][HistoryNext]_historyVars

-----------------------------------------------------------------------------
(* "If already subscribed, this will resubscribe with the new subscription (remove the old one)": whom *)
(* an event goes to is decided by what each route asked for last, and by nothing that it asked for     *)
(* before, whatever the event's scopes.                                    *)
Wants(r, e) ==
    \/ AnyScope \in want[r][e.type]
    \/ \E s \in e.scopes : s \in want[r][e.type] \/ \E q \in Patterns \cap want[r][e.type] : StarMatch(q, s)

LastSubscriptionDecides ==
    \A t \in Types, scopes \in SUBSET Scopes :
        LET e == Event(1, t, scopes, 0) IN MatchingRoutes(e) = {r \in Routes : Wants(r, e)}

\* The history of a scope is the newest of the events that were stored under it, without a gap and in
\* order, although events of one scope may ask for histories of different sizes.
HistoryIsNewest ==
    \A t \in Types, s \in Scopes \cup {AnyScope} :
        IsSuffix(PersistMap[t][s], stored[t][s])

\* "Events can be persisted in memory for late subscribers": a route that has subscribed and then read
\* the history knows every event of it, or is about to get it.
NoEventMissed ==
    \A r \in Routes : late[r] # NotLate =>
        \A e \in ToSet(PersistMap[late[r].type][AnyScope]) :
            \/ e \in late[r].read \cup ToSet(received[r])
            \/ \E p \in Publishers : pub[p].event = e /\ (pub[p].pc \in {"client", "match"} \/ r \in pub[p].to)
=============================================================================
