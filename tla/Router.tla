------------------------------- MODULE Router -------------------------------
(***************************************************************************)
(* The router of the main server (pkg/wshutil/wshrouter.go), which has no  *)
(* upstream, and the connections that register with it: websockets         *)
(* (pkg/web/ws.go) and clients of the domain socket (wshutil.go).  One     *)
(* goroutine, runServer, takes messages from InputCh and puts each on the  *)
(* channel of one connection; every connection has a goroutine that puts   *)
(* what its client sends on InputCh.  Clients are external: they send      *)
(* requests, announce the routes behind them, read and answer.             *)
(***************************************************************************)
EXTENDS Naturals, Sequences, FiniteSets

CONSTANTS WsConns, Sockets, ServerConn,  \* connections; the last is the server's own client
          RouteOf,       \* connection -> its route id
          Behind,        \* connection -> the route ids that it may announce
          Requests,      \* request ids
          Streams,       \* those that are answered with two messages
          NoId, None,
          MaxConns,      \* bound: connections that register in a behaviour, besides the server's
          MaxSays,       \* bound: what clients send of their own accord in a behaviour
          InputChSize, ToRemoteChSize

Conns == WsConns \cup Sockets \cup {ServerConn}
Routes == {RouteOf[c] : c \in Conns} \cup UNION {Behind[c] : c \in Conns}

ASSUME RouterAssumption ==
    /\ WsConns \cap Sockets = {} /\ ServerConn \notin WsConns \cup Sockets
    /\ DOMAIN RouteOf = Conns /\ DOMAIN Behind = Conns
    /\ \A c \in WsConns, d \in Conns \ WsConns : RouteOf[c] # RouteOf[d]
    /\ None \notin Conns \cup Routes /\ NoId \notin Requests /\ Streams \subseteq Requests
    /\ MaxSays \in Nat /\ MaxConns \in Nat /\ InputChSize \in Nat \ {0} /\ ToRemoteChSize \in Nat \ {0}

VARIABLES
    RouteMap,         \* route id -> its connection, or None
    AnnouncedRoutes,  \* route id -> the local route that announced it, or None
    RpcMap,           \* request id -> where it came from and went to, or None
    InputCh,
    router,           \* runServer: where it is, its message, the route it looks for, its connection
    RouteToConnMap, GlobalLock,
    setup,            \* connection -> how far its registration is
    reader,           \* connection -> how far its end is
    ToRemoteCh, toRemoteOpen,
    loop,             \* connection -> the message its receive loop has in hand, or None
    said,             \* the routes that a connection has announced
    owes,             \* the requests that a connection has yet to answer, with the answers sent
    req,              \* request id -> its state at the client, the connection and the source it has
    says              \* how much clients have sent of their own accord

routeVars == <<RouteMap, AnnouncedRoutes>>
serverVars == <<RpcMap, router>>
connVars == <<RouteToConnMap, GlobalLock, setup, reader, toRemoteOpen>>
clientVars == <<said, owes, req, says>>
routerVars == <<routeVars, serverVars, connVars, clientVars, InputCh, ToRemoteCh, loop>>

Message(kind, id, source, route, cont) ==
    [kind |-> kind, id |-> id, source |-> source, route |-> route, cont |-> cont]
\* What there is: a command says where it comes from and goes to, and a request has an id; what belongs to a
\* request has its id only; an announcement says the route that is announced.
Messages ==
    [kind : {"command"}, id : Requests \cup {NoId}, source : Routes, route : Routes, cont : {FALSE}]
    \cup [kind : {"message"}, id : {NoId}, source : {None}, route : Routes, cont : {FALSE}]
    \cup [kind : {"cancel"}, id : Requests, source : {None}, route : {None}, cont : {FALSE}]
    \cup [kind : {"response", "error"}, id : Requests, source : {None}, route : {None}, cont : BOOLEAN]
    \cup [kind : {"announce", "unannounce"}, id : {NoId}, source : Routes, route : {None}, cont : {FALSE}]
Response(id, cont) == Message("response", id, None, None, cont)
Idle == [pc |-> "receive", msg |-> None, dest |-> None, to |-> None]

RouterTypeOK ==
    /\ RouteMap \in [Routes -> Conns \cup {None}]
    /\ AnnouncedRoutes \in [Routes -> Routes \cup {None}]
    /\ RpcMap \in [Requests -> {None} \cup [source : Routes, dest : Routes]]
    /\ InputCh \in Seq([msg : Messages, from : Routes \cup {None}]) /\ Len(InputCh) <= InputChSize
    /\ router \in [pc : {"receive", "lookup", "announced", "local", "noroute", "inject", "send", "sent"},
                   msg : Messages \cup {None}, dest : Routes \cup {None}, to : Conns \cup {None}]
    /\ RouteToConnMap \in [{RouteOf[c] : c \in WsConns} -> WsConns \cup {None}]
    /\ GlobalLock \in WsConns \cup {None}
    /\ setup \in [Conns -> {"new", "replacing", "stored", "open"}]
    /\ reader \in [Conns -> {"reading", "ended", "closed", "over"}]
    /\ ToRemoteCh \in [Conns -> Seq(Messages)] /\ \A c \in Conns : Len(ToRemoteCh[c]) <= ToRemoteChSize
    /\ toRemoteOpen \in [Conns -> BOOLEAN]
    /\ loop \in [Conns -> Messages \cup {None}]
    /\ said \subseteq Conns \X Routes /\ owes \subseteq Conns \X Requests \X (0 .. 1)
    /\ req \in [Requests -> [state : {"new", "sent", "canceled", "answered"},
                             by : Conns \cup {None}, source : Routes \cup {None}]]
    /\ says \in 0 .. MaxSays

RouterInit ==
    /\ RouteMap = [r \in Routes |-> IF r = RouteOf[ServerConn] THEN ServerConn ELSE None]
    /\ AnnouncedRoutes = [r \in Routes |-> None]
    /\ RpcMap = [id \in Requests |-> None]
    /\ InputCh = <<>> /\ router = Idle
    /\ RouteToConnMap = [r \in {RouteOf[c] : c \in WsConns} |-> None] /\ GlobalLock = None
    /\ setup = [c \in Conns |-> IF c = ServerConn THEN "open" ELSE "new"]
    /\ reader = [c \in Conns |-> "reading"]
    /\ ToRemoteCh = [c \in Conns |-> <<>>] /\ toRemoteOpen = [c \in Conns |-> TRUE]
    /\ loop = [c \in Conns |-> None]
    /\ said = {} /\ owes = {} /\ says = 0
    /\ req = [id \in Requests |-> [state |-> "new", by |-> None, source |-> None]]

-----------------------------------------------------------------------------
(* The routes, under the router's lock.                                    *)

RegisterRoute(r, c) ==
    /\ RouteMap' = [RouteMap EXCEPT ![r] = c]
    /\ UNCHANGED AnnouncedRoutes

\* The route and what was announced through it go.  The broker is told by a goroutine that may run at
\* any later time: in Broker that is an UnsubscribeCommand of all types.
UnregisterRoute(r) ==
    /\ RouteMap' = [RouteMap EXCEPT ![r] = None]
    /\ AnnouncedRoutes' = [a \in Routes |-> IF AnnouncedRoutes[a] = r THEN None ELSE AnnouncedRoutes[a]]

-----------------------------------------------------------------------------
(* A websocket: HandleWsInternal.                                          *)

connUnchanged == <<serverVars, clientVars, InputCh, ToRemoteCh, loop>>

MayBegin(c) == setup[c] = "new" /\ Cardinality({d \in Conns : setup[d] # "new"}) <= MaxConns

\* registerConn takes the lock and unregisters the route of a connection that it replaces ...
RegisterConn(c) ==
    /\ MayBegin(c) /\ GlobalLock = None
    /\ GlobalLock' = c
    /\ setup' = [setup EXCEPT ![c] = "replacing"]
    /\ IF RouteToConnMap[RouteOf[c]] # None THEN UnregisterRoute(RouteOf[c]) ELSE UNCHANGED routeVars
    /\ UNCHANGED <<RouteToConnMap, reader, toRemoteOpen, connUnchanged>>

\* ... and then registers its own.
RegisterConnRoute(c) ==
    /\ setup[c] = "replacing"
    /\ RouteToConnMap' = [RouteToConnMap EXCEPT ![RouteOf[c]] = c]
    /\ RegisterRoute(RouteOf[c], c)
    /\ GlobalLock' = None
    /\ setup' = [setup EXCEPT ![c] = "open"]
    /\ UNCHANGED <<reader, toRemoteOpen, connUnchanged>>

\* The remote end is gone; a domain socket may go before it is registered.
RemoteCloses(c) ==
    /\ reader[c] = "reading" /\ c # ServerConn /\ (c \in WsConns => setup[c] = "open")
    /\ reader' = [reader EXCEPT ![c] = "ended"]
    /\ UNCHANGED <<RouteToConnMap, GlobalLock, setup, toRemoteOpen, routeVars, connUnchanged>>

\* Mutant: the connection is not compared with the current one.
unregisterConn_Any(c) ==
    /\ reader[c] = "ended" /\ GlobalLock = None
    /\ RouteToConnMap' = [RouteToConnMap EXCEPT ![RouteOf[c]] = None]
    /\ UnregisterRoute(RouteOf[c])
    /\ reader' = [reader EXCEPT ![c] = "closed"]
    /\ UNCHANGED <<GlobalLock, setup, toRemoteOpen, connUnchanged>>

\* unregisterConn: "only unregister if we are the current connection".
unregisterConn(c) ==
    /\ reader[c] = "ended" /\ GlobalLock = None
    /\ IF RouteToConnMap[RouteOf[c]] = c
       THEN /\ RouteToConnMap' = [RouteToConnMap EXCEPT ![RouteOf[c]] = None]
            /\ UnregisterRoute(RouteOf[c])
       ELSE UNCHANGED <<RouteToConnMap, routeVars>>
    /\ reader' = [reader EXCEPT ![c] = "closed"]
    /\ UNCHANGED <<GlobalLock, setup, toRemoteOpen, connUnchanged>>

\* The last deferred call closes the channel that the router sends to.
CloseToRemote(c) ==
    /\ reader[c] = "closed"
    /\ toRemoteOpen' = [toRemoteOpen EXCEPT ![c] = FALSE]
    /\ reader' = [reader EXCEPT ![c] = "over"]
    /\ UNCHANGED <<RouteToConnMap, GlobalLock, setup, routeVars, connUnchanged>>

-----------------------------------------------------------------------------
(* A client of the domain socket: handleDomainSocketClient.                *)

\* The client is authenticated, and its route id is left for the goroutine that reads the socket ...
StoreRouteId(c) ==
    /\ MayBegin(c)
    /\ setup' = [setup EXCEPT ![c] = "stored"]
    /\ UNCHANGED <<RouteToConnMap, GlobalLock, reader, toRemoteOpen, routeVars, connUnchanged>>

\* ... and registered, whether the socket is still open or not.
RegisterSocket(c) ==
    /\ setup[c] = "stored"
    /\ setup' = [setup EXCEPT ![c] = "open"]
    /\ RegisterRoute(RouteOf[c], c)
    /\ UNCHANGED <<RouteToConnMap, GlobalLock, reader, toRemoteOpen, connUnchanged>>

\* The deferred function of the reading goroutine closes the channels ...
CloseSocket(c) ==
    /\ reader[c] = "ended"
    /\ toRemoteOpen' = [toRemoteOpen EXCEPT ![c] = FALSE]
    /\ reader' = [reader EXCEPT ![c] = "closed"]
    /\ UNCHANGED <<RouteToConnMap, GlobalLock, setup, routeVars, connUnchanged>>

\* ... and unregisters the route id, whosever connection it has by now.
UnregisterSocket(c) ==
    /\ reader[c] = "closed"
    /\ IF setup[c] = "new" THEN UNCHANGED routeVars ELSE UnregisterRoute(RouteOf[c])
    /\ reader' = [reader EXCEPT ![c] = "over"]
    /\ UNCHANGED <<RouteToConnMap, GlobalLock, setup, toRemoteOpen, connUnchanged>>

-----------------------------------------------------------------------------
(* runServer.                                                              *)

\* What runServer never touches.
aroundUnchanged == <<connVars, clientVars, loop>>

LookFor(m, dest) == router' = [Idle EXCEPT !.pc = "lookup", !.msg = m, !.dest = dest]
Receive == router' = Idle

\* A command goes to its route, what follows on it to where it went, and an answer to where it came from.
RouterReceive ==
    /\ router.pc = "receive" /\ InputCh # <<>>
    /\ InputCh' = Tail(InputCh)
    /\ LET m == Head(InputCh).msg IN
       \/ m.kind \in {"command", "message"} /\ LookFor(m, m.route)
       \/ m.kind = "cancel" /\ RpcMap[m.id] # None /\ LookFor(m, RpcMap[m.id].dest)
       \/ m.kind \in {"response", "error"} /\ RpcMap[m.id] # None /\ LookFor(m, RpcMap[m.id].source)
       \/ m.kind \in {"cancel", "response", "error"} /\ RpcMap[m.id] = None /\ Receive
       \/ m.kind \in {"announce", "unannounce"} /\ Receive
    /\ LET m == Head(InputCh).msg
           from == Head(InputCh).from IN
       CASE m.kind = "announce" /\ m.source # from -> AnnouncedRoutes' = [AnnouncedRoutes EXCEPT ![m.source] = from]
         [] m.kind = "unannounce" -> AnnouncedRoutes' = [AnnouncedRoutes EXCEPT ![m.source] = None]
         [] OTHER -> UNCHANGED AnnouncedRoutes
    /\ UNCHANGED <<RouteMap, RpcMap, ToRemoteCh, aroundUnchanged>>

FoundConn(c, otherwise) ==
    router' = IF c # None THEN [router EXCEPT !.pc = "send", !.to = c] ELSE [router EXCEPT !.pc = otherwise]

\* sendRoutedMessage takes the lock for the route, for the route that announced it, and for that one's
\* connection.
RouterLookup ==
    /\ \/ router.pc = "lookup" /\ FoundConn(RouteMap[router.dest], "announced")
       \/ /\ router.pc = "announced"
          /\ router' = IF AnnouncedRoutes[router.dest] # None
                       THEN [router EXCEPT !.pc = "local", !.dest = AnnouncedRoutes[router.dest]]
                       ELSE [router EXCEPT !.pc = "noroute"]
       \/ router.pc = "local" /\ FoundConn(RouteMap[router.dest], "noroute")
    /\ UNCHANGED <<routeVars, RpcMap, InputCh, ToRemoteCh, aroundUnchanged>>

\* Mutant: the entry of a request stays.
RpcMapAfter_Keeps(m) ==
    CASE m.kind = "command" /\ m.id # NoId -> [RpcMap EXCEPT ![m.id] = [source |-> m.source, dest |-> m.route]]
      [] OTHER -> RpcMap

\* Mutant: the first answer removes the entry.
RpcMapAfter_Early(m) ==
    CASE m.kind = "command" /\ m.id # NoId -> [RpcMap EXCEPT ![m.id] = [source |-> m.source, dest |-> m.route]]
      [] m.kind \in {"response", "error"} -> [RpcMap EXCEPT ![m.id] = None]
      [] OTHER -> RpcMap

\* A command that was sent is remembered, and forgotten when its last answer has been handled.
RpcMapAfter(m) ==
    CASE m.kind = "command" /\ m.id # NoId -> [RpcMap EXCEPT ![m.id] = [source |-> m.source, dest |-> m.route]]
      [] m.kind \in {"response", "error"} /\ ~m.cont -> [RpcMap EXCEPT ![m.id] = None]
      [] OTHER -> RpcMap

\* The send waits for room; on a channel that was closed meanwhile it panics, which is recovered, and the
\* message counts as sent.
RouterSend ==
    LET c == router.to IN
    /\ router.pc = "send"
    /\ \/ /\ toRemoteOpen[c] /\ Len(ToRemoteCh[c]) < ToRemoteChSize
          /\ ToRemoteCh' = [ToRemoteCh EXCEPT ![c] = Append(@, router.msg)]
       \/ ~toRemoteOpen[c] /\ UNCHANGED ToRemoteCh
    /\ router' = [router EXCEPT !.pc = "sent"]
    /\ UNCHANGED <<routeVars, RpcMap, InputCh, aroundUnchanged>>

\* The message may have been read, and answered, before it is remembered or forgotten.
RouterSent ==
    /\ router.pc = "sent"
    /\ RpcMap' = RpcMapAfter(router.msg)
    /\ Receive
    /\ UNCHANGED <<routeVars, InputCh, ToRemoteCh, aroundUnchanged>>

\* There is no route.  A request gets an error; of a command without an id its source is told; an
\* answer is dropped.
RouterNoRoute ==
    LET m == router.msg IN
    /\ router.pc = "noroute"
    /\ \/ m.kind = "command" /\ m.id # NoId /\ LookFor(Message("error", m.id, None, None, FALSE), m.source)
          /\ UNCHANGED RpcMap
       \/ m.kind = "command" /\ m.id = NoId /\ router' = [router EXCEPT !.pc = "inject"] /\ UNCHANGED RpcMap
       \/ m.kind # "command" /\ Receive /\ RpcMap' = RpcMapAfter(m)
    /\ UNCHANGED <<routeVars, InputCh, ToRemoteCh, aroundUnchanged>>

\* runServer puts the message on its own queue.
RouterInject ==
    /\ router.pc = "inject" /\ Len(InputCh) < InputChSize
    /\ InputCh' = Append(InputCh, [msg |-> Message("message", NoId, None, router.msg.source, FALSE), from |-> None])
    /\ Receive
    /\ UNCHANGED <<routeVars, RpcMap, ToRemoteCh, aroundUnchanged>>

-----------------------------------------------------------------------------
(* The clients (external) and the receive loops of RegisterRoute.          *)

\* What a client sends is in the hand of its receive loop, which waits for room in the router's queue,
\* also after the connection's end.
Say(c, m) ==
    /\ setup[c] = "open" /\ reader[c] = "reading" /\ loop[c] = None
    /\ loop' = [loop EXCEPT ![c] = m]
    /\ UNCHANGED <<routeVars, serverVars, connVars, InputCh, ToRemoteCh>>

SayUnasked(c, m) ==
    /\ says < MaxSays /\ says' = says + 1
    /\ Say(c, m)

Forward(c) ==
    /\ loop[c] # None /\ Len(InputCh) < InputChSize
    /\ InputCh' = Append(InputCh, [msg |-> loop[c], from |-> RouteOf[c]])
    /\ loop' = [loop EXCEPT ![c] = None]
    /\ UNCHANGED <<routeVars, serverVars, connVars, clientVars, ToRemoteCh>>

Sources(c) == {RouteOf[c]} \cup {a \in Behind[c] : <<c, a>> \in said}

SendRequest(c, id) ==
    /\ req[id].state = "new" /\ c # ServerConn
    /\ \E source \in Sources(c), dest \in Routes \ {RouteOf[c]} :
         /\ SayUnasked(c, Message("command", id, source, dest, FALSE))
         /\ req' = [req EXCEPT ![id] = [state |-> "sent", by |-> c, source |-> source]]
    /\ UNCHANGED <<said, owes>>

SendCancel(c, id) ==
    /\ req[id].state = "sent" /\ req[id].by = c
    /\ SayUnasked(c, Message("cancel", id, None, None, FALSE))
    /\ req' = [req EXCEPT ![id].state = "canceled"]
    /\ UNCHANGED <<said, owes>>

SendOneWay(c) ==
    /\ c # ServerConn
    /\ \E dest \in Routes \ {RouteOf[c]} : SayUnasked(c, Message("command", NoId, RouteOf[c], dest, FALSE))
    /\ UNCHANGED <<said, owes, req>>

Announce(c, a) ==
    /\ \/ <<c, a>> \notin said /\ SayUnasked(c, Message("announce", NoId, a, None, FALSE)) /\ said' = said \cup {<<c, a>>}
       \/ <<c, a>> \in said /\ SayUnasked(c, Message("unannounce", NoId, a, None, FALSE)) /\ said' = said \ {<<c, a>>}
    /\ UNCHANGED <<owes, req>>

\* A client reads a message; after its end its channel is emptied, or left as it is.
ReadMessage(c) ==
    /\ ToRemoteCh[c] # <<>>
    /\ ToRemoteCh' = [ToRemoteCh EXCEPT ![c] = Tail(@)]
    /\ LET m == Head(ToRemoteCh[c])
           read == reader[c] = "reading" IN
       /\ owes' = IF read /\ m.kind = "command" /\ m.id # NoId THEN owes \cup {<<c, m.id, 0>>} ELSE owes
       /\ req' = IF read /\ m.kind \in {"response", "error"} /\ ~m.cont /\ req[m.id].state = "sent"
                 THEN [req EXCEPT ![m.id].state = "answered"] ELSE req
    /\ UNCHANGED <<said, says, routeVars, serverVars, connVars, InputCh, loop>>

Answer(c, id, n) ==
    /\ <<c, id, n>> \in owes
    /\ LET cont == id \in Streams /\ n = 0 IN
       /\ Say(c, Response(id, cont))
       /\ owes' = (owes \ {<<c, id, n>>}) \cup (IF cont THEN {<<c, id, 1>>} ELSE {})
    /\ UNCHANGED <<said, req, says>>

-----------------------------------------------------------------------------
ConnStep(c) ==
    \/ c \in WsConns /\ (RegisterConn(c) \/ RegisterConnRoute(c) \/ unregisterConn(c) \/ CloseToRemote(c))
    \/ c \in Sockets /\ (StoreRouteId(c) \/ RegisterSocket(c) \/ CloseSocket(c) \/ UnregisterSocket(c))
RouterStep == RouterReceive \/ RouterLookup \/ RouterSend \/ RouterSent \/ RouterNoRoute \/ RouterInject
Answers(c) == \E id \in Requests, n \in 0 .. 1 : Answer(c, id, n)

RouterNext ==
    \/ RouterStep
    \/ \E c \in Conns :
         \/ ConnStep(c) \/ RemoteCloses(c) \/ Forward(c) \/ ReadMessage(c) \/ Answers(c) \/ SendOneWay(c)
         \/ \E id \in Requests : SendRequest(c, id) \/ SendCancel(c, id)
         \/ \E a \in Behind[c] : Announce(c, a)

RouterSpec == RouterInit /\ [][RouterNext]_routerVars

\* Goroutines run, and a client whose connection is open reads, and answers what it is asked.
FairSpec ==
    /\ RouterSpec /\ WF_routerVars(RouterStep)
    /\ \A c \in Conns : WF_routerVars(Forward(c)) /\ WF_routerVars(ReadMessage(c)) /\ WF_routerVars(Answers(c))

-----------------------------------------------------------------------------
(* Properties.                                                             *)

\* The router has no websocket whose end has come so far that its channel is closed, although
\* connections of one route begin and end in any order; and it agrees with the map of connections,
\* unless one is being registered.
RoutesAreCurrent ==
    \A r \in DOMAIN RouteToConnMap :
        /\ RouteMap[r] # None => toRemoteOpen[RouteMap[r]] /\ reader[RouteMap[r]] \in {"reading", "ended"}
        /\ GlobalLock = None => RouteMap[r] = RouteToConnMap[r]

\* "only unregister if we are the current connection": a websocket loses its route when it has ended,
\* or to one that is being registered, and never because an older one ends.
RouteIsKept ==
    [][\A c \in WsConns : RouteMap[RouteOf[c]] = c /\ reader[c] = "reading" =>
           RouteMap'[RouteOf[c]] = c \/ GlobalLock' # None]_routerVars

\* "delete(router.RpcMap, rpcid)": a request that has been answered is not kept, unless the router is
\* about to forget it.
AnsweredIsForgotten ==
    \A id \in Requests :
        req[id].state = "answered" => RpcMap[id] = None \/ (router.pc = "sent" /\ router.msg.id = id)

\* Both: the tables of the router keep nothing that is over.
TablesAreCurrent == RoutesAreCurrent /\ AnsweredIsForgotten

\* A connection has ended, or lost its route to another one.
Disturbed ==
    \E c \in Conns : setup[c] = "open" /\ (reader[c] # "reading" \/ RouteMap[RouteOf[c]] # c)
Withdrawn(id) == req[id].source # RouteOf[req[id].by] /\ <<req[id].by, req[id].source>> \notin said

\* Every request gets an answer, or the error that there is no route: as long as connections stay, and
\* the source is not withdrawn.
RequestsAreAnswered ==
    \A id \in Requests :
        req[id].state = "sent" ~> req[id].state # "sent" \/ Disturbed \/ Withdrawn(id)
=============================================================================
