------------------------------- MODULE Broker -------------------------------
(***************************************************************************)
(* The publish-subscribe broker of pkg/wps/wps.go: subscriptions, the      *)
(* bounded history of each scope, and Publish, which takes the lock once   *)
(* to store the event, once to fetch the client, once to look up the       *)
(* subscribers, and delivers without it.  Event types are independent of   *)
(* each other but for UnsubscribeAll.  Scopes that a pattern matches are   *)
(* given by StarMatch.                                                     *)
(***************************************************************************)
EXTENDS Naturals, Sequences, FiniteSets, SequencesExt

CONSTANTS Routes,          \* route ids
          Types,           \* event types
          Scopes,          \* scopes of events, without AnyScope
          Patterns,        \* scopes with a star
          StarMatch(_, _), \* whether a pattern matches a scope
          AnyScope,        \* the empty scope, under which every event of a type is stored
          Publishers,      \* goroutines that call Publish
          Persists,        \* the history sizes that events ask for (0: not stored)
          MaxPersist,
          MaxEvents        \* bound: events published in a behaviour

ASSUME BrokerAssumption ==
    /\ AnyScope \notin Scopes \cup Patterns /\ Scopes \cap Patterns = {}
    /\ \A p \in Patterns : \A s \in Scopes : StarMatch(p, s) \in BOOLEAN
    /\ Persists \subseteq Nat /\ MaxPersist \in Nat \ {0} /\ MaxEvents \in Nat

VARIABLES
    AllSubs,      \* type -> routes subscribed to every scope
    ScopeSubs,    \* type -> scope -> routes
    StarSubs,     \* type -> pattern -> routes
    PersistMap,   \* type -> scope -> the stored events, oldest first
    Client,       \* whether SetClient has been called
    pub,          \* publisher -> where it is, its event, and whom it still has to send it to
    events,       \* how many events there have been; they are numbered
    received      \* route -> the events sent to it, in order

subVars == <<AllSubs, ScopeSubs, StarSubs>>
brokerVars == <<subVars, PersistMap, Client, pub, events, received>>

Event(n, type, scopes, persist) == [n |-> n, type |-> type, scopes |-> scopes, persist |-> persist]
Events == [n : 1 .. MaxEvents, type : Types, scopes : SUBSET Scopes, persist : Persists]
Idle == [pc |-> "idle", event |-> Event(0, "", {}, 0), to |-> {}]

BrokerTypeOK ==
    /\ AllSubs \in [Types -> SUBSET Routes]
    /\ ScopeSubs \in [Types -> [Scopes -> SUBSET Routes]]
    /\ StarSubs \in [Types -> [Patterns -> SUBSET Routes]]
    /\ PersistMap \in [Types -> [Scopes \cup {AnyScope} -> Seq(Events)]]
    /\ \A t \in Types, s \in Scopes \cup {AnyScope} : Len(PersistMap[t][s]) <= MaxPersist
    /\ Client \in BOOLEAN
    /\ pub \in [Publishers -> {Idle} \cup [pc : {"persist", "client", "match", "send"}, event : Events, to : SUBSET Routes]]
    /\ events \in 0 .. MaxEvents
    /\ received \in [Routes -> Seq(Events)]

BrokerInit ==
    /\ AllSubs = [t \in Types |-> {}]
    /\ ScopeSubs = [t \in Types |-> [s \in Scopes |-> {}]]
    /\ StarSubs = [t \in Types |-> [p \in Patterns |-> {}]]
    /\ PersistMap = [t \in Types |-> [s \in Scopes \cup {AnyScope} |-> <<>>]]
    /\ Client = FALSE
    /\ pub = [p \in Publishers |-> Idle]
    /\ events = 0
    /\ received = [r \in Routes |-> <<>>]

-----------------------------------------------------------------------------
(* Subscriptions, each under the lock.                                     *)

Without(subs, r) == [s \in DOMAIN subs |-> subs[s] \ {r}]
With(subs, scopes, r) == [s \in DOMAIN subs |-> IF s \in scopes THEN subs[s] \cup {r} ELSE subs[s]]

\* Mutant: a subscription of all scopes stays when scopes are subscribed to.
Subscribe_KeepsAll(r, t, all, scopes) ==
    /\ AllSubs' = [AllSubs EXCEPT ![t] = IF all THEN @ \cup {r} ELSE @]
    /\ ScopeSubs' = [ScopeSubs EXCEPT ![t] = IF all THEN Without(@, r) ELSE With(Without(@, r), scopes, r)]
    /\ StarSubs' = [StarSubs EXCEPT ![t] = IF all THEN Without(@, r) ELSE With(Without(@, r), scopes, r)]

\* Subscribe: the route's subscription to the type is replaced.
Subscribe(r, t, all, scopes) ==
    /\ AllSubs' = [AllSubs EXCEPT ![t] = IF all THEN @ \cup {r} ELSE @ \ {r}]
    /\ ScopeSubs' = [ScopeSubs EXCEPT ![t] = IF all THEN Without(@, r) ELSE With(Without(@, r), scopes, r)]
    /\ StarSubs' = [StarSubs EXCEPT ![t] = IF all THEN Without(@, r) ELSE With(Without(@, r), scopes, r)]

Unsubscribe(r, types) ==
    /\ AllSubs' = [t \in Types |-> IF t \in types THEN AllSubs[t] \ {r} ELSE AllSubs[t]]
    /\ ScopeSubs' = [t \in Types |-> IF t \in types THEN Without(ScopeSubs[t], r) ELSE ScopeSubs[t]]
    /\ StarSubs' = [t \in Types |-> IF t \in types THEN Without(StarSubs[t], r) ELSE StarSubs[t]]

UnsubscribeAll(r) == Unsubscribe(r, Types)

SetClient ==
    /\ ~Client
    /\ Client' = TRUE
    /\ UNCHANGED <<subVars, PersistMap, pub, events, received>>

-----------------------------------------------------------------------------
(* Publish.                                                                *)

LastOf(seq, n) == IF Len(seq) > n THEN SubSeq(seq, Len(seq) - n + 1, Len(seq)) ELSE seq
NumPersist(e) == IF e.persist > MaxPersist THEN MaxPersist ELSE e.persist

\* Mutant: the history keeps its oldest events.
Stored_Oldest(e, seq) == SubSeq(Append(seq, e), 1, IF Len(seq) < NumPersist(e) THEN Len(seq) + 1 ELSE NumPersist(e))

\* A history after an event is stored in it.
Stored(e, seq) == LastOf(Append(seq, e), NumPersist(e))

PublishBegin(p, e) ==
    /\ pub[p] = Idle
    /\ pub' = [pub EXCEPT ![p] = [pc |-> IF e.persist > 0 THEN "persist" ELSE "client", event |-> e, to |-> {}]]
    /\ events' = events + 1
    /\ UNCHANGED <<subVars, PersistMap, Client, received>>

\* The event is stored under its scopes and under the empty one.
PersistEvent(p) ==
    LET e == pub[p].event IN
    /\ pub[p].pc = "persist"
    /\ PersistMap' = [PersistMap EXCEPT ![e.type] =
                        [s \in DOMAIN @ |-> IF s \in e.scopes \cup {AnyScope} THEN Stored(e, @[s]) ELSE @[s]]]
    /\ pub' = [pub EXCEPT ![p].pc = "client"]
    /\ UNCHANGED <<subVars, Client, events, received>>

\* Without a client the event goes nowhere.
GetClient(p) ==
    /\ pub[p].pc = "client"
    /\ pub' = [pub EXCEPT ![p] = IF Client THEN [@ EXCEPT !.pc = "match"] ELSE Idle]
    /\ UNCHANGED <<subVars, PersistMap, Client, events, received>>

\* The routes that are subscribed to an event, each once.
MatchingRoutes(e) ==
    AllSubs[e.type]
    \cup (UNION {ScopeSubs[e.type][s] : s \in e.scopes})
    \cup (UNION {StarSubs[e.type][q] : q \in {x \in Patterns : \E s \in e.scopes : StarMatch(x, s)}})

getMatchingRouteIds(p) ==
    /\ pub[p].pc = "match"
    /\ pub' = [pub EXCEPT ![p] = [@ EXCEPT !.pc = "send", !.to = MatchingRoutes(pub[p].event)]]
    /\ UNCHANGED <<subVars, PersistMap, Client, events, received>>

\* The event goes to one route after another, in no particular order.
SendEvent(p, r) ==
    /\ pub[p].pc = "send" /\ r \in pub[p].to
    /\ received' = [received EXCEPT ![r] = Append(@, pub[p].event)]
    /\ pub' = [pub EXCEPT ![p].to = @ \ {r}]
    /\ UNCHANGED <<subVars, PersistMap, Client, events>>

PublishEnd(p) ==
    /\ pub[p].pc = "send" /\ pub[p].to = {}
    /\ pub' = [pub EXCEPT ![p] = Idle]
    /\ UNCHANGED <<subVars, PersistMap, Client, events, received>>

PublishStep(p) ==
    \/ PersistEvent(p) \/ GetClient(p) \/ getMatchingRouteIds(p)
    \/ (\E r \in Routes : SendEvent(p, r)) \/ PublishEnd(p)

Publish(p) ==
    /\ events < MaxEvents
    /\ \E t \in Types, scopes \in SUBSET Scopes, n \in Persists : PublishBegin(p, Event(events + 1, t, scopes, n))

-----------------------------------------------------------------------------
(* The commands of EventSub, EventUnsub and EventUnsubAll, which reach the broker through the router  *)
(* that is its client.                                                     *)

SubscribeCommand(r, t, all, scopes) ==
    /\ Client
    /\ Subscribe(r, t, all, scopes)
    /\ UNCHANGED <<PersistMap, Client, pub, events, received>>

UnsubscribeCommand(r, types) ==
    /\ Client
    /\ IF types = Types THEN UnsubscribeAll(r) ELSE Unsubscribe(r, types)
    /\ UNCHANGED <<PersistMap, Client, pub, events, received>>

\* Mutant: one event too few is copied.
ReadEventHistory_OffByOne(t, s, max) == LastOf(PersistMap[t][s], max - 1)

\* ReadEventHistory: the last events of a type and scope, at most max of them.
ReadEventHistory(t, s, max) == LastOf(PersistMap[t][s], max)

BrokerNext ==
    \/ SetClient
    \/ \E p \in Publishers : Publish(p) \/ PublishStep(p)
    \/ \E r \in Routes, t \in Types, all \in BOOLEAN, scopes \in SUBSET (Scopes \cup Patterns) :
         SubscribeCommand(r, t, all, scopes)
    \/ \E r \in Routes, types \in {{t} : t \in Types} \cup {Types} : UnsubscribeCommand(r, types)

BrokerSpec == BrokerInit /\ [][BrokerNext]_brokerVars
=============================================================================
