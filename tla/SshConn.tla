------------------------------ MODULE SshConn ------------------------------
(***************************************************************************)
(* One SSHConn of conncontroller: its status, the client, the listener for *)
(* the remote's domain socket and the session of the remote's connserver;  *)
(* the goroutines that wait for the end of each of these; and the calls    *)
(* Connect, Close and EnsureConnection, which may run at the same time.    *)
(*                                                                         *)
(* A section under conn.Lock is one step.  The network may drop a client   *)
(* and a connserver may die at any time.                                   *)
(***************************************************************************)
EXTENDS Naturals, FiniteSets

CONSTANTS
    Call,                   \* goroutines that connect, close or ensure
    Client, Listener, Sess, \* what may be opened
    None

\* The races that the code does not exclude:
\*   twoConnects    Connect starts while an earlier one is still under way
\*                  (a Close has set the status in between)
\*   lateFinish     Connect says connected although its client is gone
\*   staleListener  the end of a listener clears a newer one
\*   latePersist    wsh is enabled although the connserver has ended
\*   twoSetups      two calls set up wsh at the same time (an EnsureConnection
\*                  that began before the client was dropped, and a Connect)
\*   redialed       a client that is gone after the set-up of wsh is dialed
\*                  again: without wsh, which stays enabled if it was
Race == {"twoConnects", "lateFinish", "staleListener", "latePersist", "twoSetups",
         "redialed"}

\* What is known of a listener, of a session and of a waiter that were started.
ListenerState == [client : Client, open : BOOLEAN, served : BOOLEAN]
\* A session that was left behind is open and known to nobody.
SessState     == [client : Client, open : BOOLEAN, watched : BOOLEAN, left : BOOLEAN]
WaiterState   == [at : {"start", "end"}] \cup [at : {"wait"}, client : Client]

ASSUME SshAssumption ==
    /\ None \notin Client \cup Listener \cup Sess \cup {"up", "down"} \cup Race
    /\ None \notin ListenerState \cup SessState \cup WaiterState
    /\ Client # {} /\ Listener # {} /\ Sess # {}

VARIABLES
    conn,      \* the SSHConn
    client,    \* the clients dialed: "up" or "down"
    listener,  \* the listeners opened, and the client of each
    sess,      \* the sessions started, and the client of each
    waiter,    \* the waiter that was started for a client
    call,      \* where each caller is
    raced      \* history: the first of the races above that has happened

connVars == <<conn, client, listener, sess, waiter, call, raced>>

Mark(r, cond) == raced' = IF cond /\ raced = None THEN r ELSE raced

NoCall == [at |-> "none"]
End    == [at |-> "end"]
Goto(c, f) == call' = [call EXCEPT ![c] = f]

Up(x) == x # None /\ client[x] = "up"
ListenerOpen(l) == listener[l] # None /\ listener[l].open /\ Up(listener[l].client)
SessOpen(s) == sess[s] # None /\ sess[s].open /\ Up(sess[s].client)

Fresh(f) == CHOOSE x \in DOMAIN f : f[x] = None
Left(f)  == \E x \in DOMAIN f : f[x] = None

Shut(f, x) == IF x = None THEN f ELSE [f EXCEPT ![x].open = FALSE]
Hangup(x)  == IF x = None THEN client ELSE [client EXCEPT ![x] = "down"]

Allowed == conn.status \in {"connecting", "connected"}

----------------------------------------------------------------------------
(* close_nolock: the listener, the connserver and the client go.           *)
CloseNolock(status) ==
    /\ listener' = Shut(listener, conn.listener)
    /\ sess' = Shut(sess, conn.sess)
    /\ client' = Hangup(conn.client)
    /\ conn' = [conn EXCEPT !.status = status, !.listener = None, !.sess = None, !.client = None]

\* Close: a status of init, error or disconnected stays.
BeginClose(c) ==
    /\ call[c] = NoCall
    /\ CloseNolock(IF Allowed THEN "disconnected" ELSE conn.status)
    /\ Goto(c, [at |-> "waiter"])
    /\ UNCHANGED <<waiter, raced>>

\* ... then it waits for the waiter, for two seconds at most: a delay that
\* nothing depends on, so that HasWaiter is left out.
CloseWaits(c) ==
    /\ call[c].at = "waiter"
    /\ Goto(c, End)
    /\ UNCHANGED <<conn, client, listener, sess, waiter, raced>>

----------------------------------------------------------------------------
(* Connect                                                                 *)

Connecting(d) == call[d].at \notin {"none", "end", "waiter", "waitConnect", "ensured"} /\ call[d].connect

\* Refused when the connection is connecting or connected.
StartConnect(c) ==
    IF Allowed
    THEN /\ Goto(c, End)
         /\ UNCHANGED <<conn, raced>>
    ELSE /\ conn' = [conn EXCEPT !.status = "connecting"]
         /\ Mark("twoConnects", \E d \in Call \ {c} : Connecting(d))
         /\ Goto(c, [at |-> "dial", connect |-> TRUE, again |-> FALSE])

BeginConnect(c) ==
    /\ call[c] = NoCall
    /\ StartConnect(c)
    /\ UNCHANGED <<client, listener, sess, waiter>>

\* ConnectToClient, for connectInternal and (again) for reconnectClient.
Dial(c) ==
    /\ call[c].at = "dial"
    /\ \/ /\ Goto(c, [at |-> "fail", connect |-> TRUE])
          /\ UNCHANGED client
       \/ /\ Left(client)
          /\ client' = [client EXCEPT ![Fresh(client)] = "up"]
          /\ Goto(c, [at |-> "set", connect |-> TRUE, again |-> call[c].again,
                      client |-> Fresh(client)])
    /\ UNCHANGED <<conn, listener, sess, waiter, raced>>

\* Only reconnectClient closes the client that it replaces.
SetClient(c) ==
    /\ call[c].at = "set"
    /\ LET f == call[c]
       IN /\ conn' = [conn EXCEPT !.client = f.client]
          /\ client' = IF f.again THEN Hangup(conn.client) ELSE client
          /\ Goto(c, [f EXCEPT !.at = "startWaiter"])
    /\ UNCHANGED <<listener, sess, waiter, raced>>

StartDisconnectWaiter(c) ==
    /\ call[c].at = "startWaiter"
    /\ LET f == call[c]
       IN /\ waiter' = [waiter EXCEPT ![f.client] = [at |-> "start"]]
          /\ Goto(c, [at |-> IF f.again THEN "finish" ELSE "wsh", connect |-> TRUE])
    /\ UNCHANGED <<conn, client, listener, sess, raced>>

\* After the set-up of wsh: a client that was dropped is dialed again.
CheckClient(c) ==
    /\ call[c].at = "check"
    /\ Goto(c, IF conn.client # None THEN [at |-> "finish", connect |-> TRUE]
               ELSE [at |-> "dial", connect |-> TRUE, again |-> TRUE])
    /\ Mark("redialed", conn.client = None)
    /\ UNCHANGED <<conn, client, listener, sess, waiter>>

\* The status follows from the dials alone.
Finish(c) ==
    /\ call[c].at = "finish"
    /\ conn' = [conn EXCEPT !.status = "connected"]
    /\ Mark("lateFinish", ~Up(conn.client))
    /\ Goto(c, End)
    /\ UNCHANGED <<client, listener, sess, waiter>>

Fail(c) ==
    /\ call[c].at = "fail"
    /\ CloseNolock("error")
    /\ Goto(c, End)
    /\ UNCHANGED <<waiter, raced>>

----------------------------------------------------------------------------
(* tryEnableWsh and persistWshInstalled, for Connect and EnsureConnection. *)

SettingUp == {"setListener", "connserver", "setSess", "persist"}

WshDone(c, ok) == Goto(c, [at |-> "persist", connect |-> call[c].connect, ok |-> ok])

\* Wsh is off, or the user does not want it.
SkipWsh(c) ==
    /\ call[c].at = "wsh"
    /\ WshDone(c, FALSE)
    /\ UNCHANGED <<conn, client, listener, sess, waiter, raced>>

\* OpenDomainSocketListener: a listener that is there is used again.
OpenListener(c) ==
    /\ call[c].at = "wsh"
    /\ IF conn.listener # None
       THEN /\ Goto(c, [at |-> "connserver", connect |-> call[c].connect])
            /\ UNCHANGED listener
       ELSE IF Allowed /\ Up(conn.client) /\ Left(listener)
       THEN LET l == Fresh(listener)
            IN /\ listener' = [listener EXCEPT ![l] =
                                  [client |-> conn.client, open |-> TRUE, served |-> FALSE]]
               /\ Goto(c, [at |-> "setListener", connect |-> call[c].connect, listener |-> l])
       ELSE WshDone(c, FALSE) /\ UNCHANGED listener
    /\ Mark("twoSetups", \E d \in Call \ {c} : call[d].at \in SettingUp)
    /\ UNCHANGED <<conn, client, sess, waiter>>

SetListener(c) ==
    /\ call[c].at = "setListener"
    /\ LET f == call[c]
       IN /\ conn' = [conn EXCEPT !.listener = f.listener]
          /\ listener' = [listener EXCEPT ![f.listener].served = TRUE]
          /\ Goto(c, [at |-> "connserver", connect |-> f.connect])
    /\ UNCHANGED <<client, sess, waiter, raced>>

\* Mutant: a session that is still there is overwritten, not closed.
StartConnServer_KeepsOld(c) ==
    /\ call[c].at = "connserver"
    /\ IF ~Allowed \/ conn.client = None
       THEN WshDone(c, FALSE) /\ UNCHANGED <<conn, sess>>
       ELSE LET s == Fresh(sess)
            IN /\ UNCHANGED conn
               /\ \/ WshDone(c, FALSE) /\ UNCHANGED sess
                  \/ /\ conn.listener # None /\ Up(conn.client) /\ Left(sess)
                     /\ sess' = [sess EXCEPT ![s] = [client |-> conn.client, open |-> TRUE,
                                                     watched |-> FALSE, left |-> FALSE]]
                     /\ Goto(c, [at |-> "setSess", connect |-> call[c].connect, sess |-> s])
    /\ UNCHANGED <<client, listener, waiter, raced>>

\* StartConnServer, up to the end of its handshake.  It may fail before it has
\* a session or after it has closed it again; when the command cannot be
\* started, the session is left behind.
StartConnServer(c) ==
    /\ call[c].at = "connserver"
    /\ IF ~Allowed \/ conn.client = None
       THEN WshDone(c, FALSE) /\ UNCHANGED <<conn, sess>>
       ELSE LET s == Fresh(sess)
                old == Shut(sess, conn.sess)
            IN /\ conn' = [conn EXCEPT !.sess = None]
               /\ \/ WshDone(c, FALSE) /\ sess' = old
                  \/ /\ conn.listener # None /\ Up(conn.client) /\ Left(sess)
                     /\ \E started \in BOOLEAN :
                          /\ sess' = [old EXCEPT ![s] = [client |-> conn.client, open |-> TRUE,
                                                         watched |-> FALSE, left |-> ~started]]
                          /\ IF started
                             THEN Goto(c, [at |-> "setSess", connect |-> call[c].connect, sess |-> s])
                             ELSE WshDone(c, FALSE)
    /\ UNCHANGED <<client, listener, waiter, raced>>

\* ... then it is the connection's, and the call waits for its route.
SetSess(c) ==
    /\ call[c].at = "setSess"
    /\ LET f == call[c]
       IN /\ conn' = [conn EXCEPT !.sess = f.sess]
          /\ sess' = [sess EXCEPT ![f.sess].watched = TRUE]
          /\ \E registered \in BOOLEAN : WshDone(c, registered)
    /\ UNCHANGED <<client, listener, waiter, raced>>

\* Mutant: a set-up that fails returns from EnsureConnection at once.
PersistWsh_ReturnsEarly(c) ==
    /\ call[c].at = "persist"
    /\ LET f == call[c]
       IN /\ conn' = [conn EXCEPT !.wsh = f.ok]
          /\ Mark("latePersist", f.ok /\ (conn.sess = None \/ ~SessOpen(conn.sess)))
          /\ Goto(c, CASE f.connect -> [at |-> "check", connect |-> TRUE]
                       [] ~f.connect /\ f.ok -> [at |-> "ensured"]
                       [] OTHER -> End)
    /\ UNCHANGED <<client, listener, sess, waiter>>

PersistWsh(c) ==
    /\ call[c].at = "persist"
    /\ LET f == call[c]
       IN /\ conn' = [conn EXCEPT !.wsh = f.ok]
          /\ Mark("latePersist", f.ok /\ (conn.sess = None \/ ~SessOpen(conn.sess)))
          /\ IF f.connect
             THEN Goto(c, [at |-> "check", connect |-> TRUE])
             ELSE Goto(c, [at |-> "ensured"])
    /\ UNCHANGED <<client, listener, sess, waiter>>

----------------------------------------------------------------------------
(* EnsureConnection                                                        *)

\* A connection whose route is missing, with a live connserver or without one,
\* gets a new one, from one caller at a time; the others wait, for five
\* seconds at most.
BeginEnsure(c) ==
    /\ call[c] = NoCall
    /\ CASE conn.status = "connected" ->
              /\ \/ Goto(c, End) /\ UNCHANGED conn
                 \/ /\ ~conn.ensuring
                    /\ conn' = [conn EXCEPT !.ensuring = TRUE]
                    /\ Goto(c, [at |-> "wsh", connect |-> FALSE])
              /\ UNCHANGED raced
         [] conn.status = "connecting" ->
              Goto(c, [at |-> "waitConnect"]) /\ UNCHANGED <<conn, raced>>
         [] conn.status \in {"init", "disconnected"} -> StartConnect(c)
         [] OTHER -> Goto(c, End) /\ UNCHANGED <<conn, raced>>
    /\ UNCHANGED <<client, listener, sess, waiter>>

Ensured(c) ==
    /\ call[c].at = "ensured"
    /\ conn' = [conn EXCEPT !.ensuring = FALSE]
    /\ Goto(c, End)
    /\ UNCHANGED <<client, listener, sess, waiter, raced>>

WaitForConnect(c) ==
    /\ call[c].at = "waitConnect" /\ conn.status # "connecting"
    /\ Goto(c, End)
    /\ UNCHANGED <<conn, client, listener, sess, waiter, raced>>

----------------------------------------------------------------------------
(* The goroutines that wait                                                *)

\* waitForDisconnect waits for the client that the connection has by then.
WaiterLooks(x) ==
    /\ waiter[x] # None /\ waiter[x].at = "start"
    /\ waiter' = [waiter EXCEPT ![x] = IF conn.client = None THEN [at |-> "end"]
                                       ELSE [at |-> "wait", client |-> conn.client]]
    /\ UNCHANGED <<conn, client, listener, sess, call, raced>>

\* Mutant: the waiter does not look whether its client was replaced.
WaiterWakes_AnyClient(x) ==
    /\ waiter[x] # None /\ waiter[x].at = "wait" /\ ~Up(waiter[x].client)
    /\ CloseNolock(IF conn.status = "error" THEN "error" ELSE "disconnected")
    /\ waiter' = [waiter EXCEPT ![x] = [at |-> "end"]]
    /\ UNCHANGED <<call, raced>>

\* A client that was replaced does not matter any more; an error stays.
WaiterWakes(x) ==
    /\ waiter[x] # None /\ waiter[x].at = "wait" /\ ~Up(waiter[x].client)
    /\ IF conn.client # waiter[x].client THEN UNCHANGED <<conn, client, listener, sess>>
       ELSE CloseNolock(IF conn.status = "error" THEN "error" ELSE "disconnected")
    /\ waiter' = [waiter EXCEPT ![x] = [at |-> "end"]]
    /\ UNCHANGED <<call, raced>>

\* RunWshRpcOverListener ends: the connection's listener is forgotten.
ListenerEnds(l) ==
    /\ listener[l] # None /\ listener[l].served /\ ~ListenerOpen(l)
    /\ conn' = [conn EXCEPT !.listener = None]
    /\ listener' = [listener EXCEPT ![l].served = FALSE]
    /\ Mark("staleListener", conn.listener \notin {l, None})
    /\ UNCHANGED <<client, sess, waiter, call>>

\* The connserver ends; if it is the connection's, wsh is off.
SessEnds(s) ==
    /\ sess[s] # None /\ sess[s].watched /\ ~SessOpen(s)
    /\ conn' = IF conn.sess = s THEN [conn EXCEPT !.sess = None, !.wsh = FALSE] ELSE conn
    /\ sess' = [sess EXCEPT ![s].watched = FALSE]
    /\ UNCHANGED <<client, listener, waiter, call, raced>>

----------------------------------------------------------------------------
(* Faults                                                                  *)

Drop(x) ==
    /\ client[x] = "up"
    /\ client' = [client EXCEPT ![x] = "down"]
    /\ UNCHANGED <<conn, listener, sess, waiter, call, raced>>

Die(s) ==
    /\ sess[s] # None /\ SessOpen(s)
    /\ sess' = [sess EXCEPT ![s].open = FALSE]
    /\ UNCHANGED <<conn, client, listener, waiter, call, raced>>

----------------------------------------------------------------------------
Unused ==
    /\ conn = [status |-> "init", client |-> None, listener |-> None, sess |-> None,
               wsh |-> FALSE, ensuring |-> FALSE]
    /\ client = [x \in Client |-> None]
    /\ listener = [l \in Listener |-> None]
    /\ sess = [s \in Sess |-> None]
    /\ waiter = [x \in Client |-> None]

\* An earlier Connect has done all of it.
Connected ==
    LET x == CHOOSE y \in Client : TRUE
        l == CHOOSE y \in Listener : TRUE
        s == CHOOSE y \in Sess : TRUE
    IN /\ conn = [status |-> "connected", client |-> x, listener |-> l, sess |-> s,
                  wsh |-> TRUE, ensuring |-> FALSE]
       /\ client = [y \in Client |-> IF y = x THEN "up" ELSE None]
       /\ listener = [y \in Listener |->
                        IF y = l THEN [client |-> x, open |-> TRUE, served |-> TRUE] ELSE None]
       /\ sess = [y \in Sess |->
                        IF y = s THEN [client |-> x, open |-> TRUE, watched |-> TRUE,
                                       left |-> FALSE]
                        ELSE None]
       /\ waiter = [y \in Client |-> IF y = x THEN [at |-> "wait", client |-> x] ELSE None]

ConnInit ==
    /\ Unused \/ Connected
    /\ call = [c \in Call |-> NoCall]
    /\ raced = None

\* The steps that wait for the host: to speak SSH, to listen, to open a
\* session and to start a command in it.  None of them has a deadline, and
\* all but the first end with the client.
Asks(c) == SkipWsh(c) \/ OpenListener(c) \/ StartConnServer(c)

\* ... and the others.
Proceeds(c) ==
    \/ CloseWaits(c) \/ SetClient(c) \/ StartDisconnectWaiter(c)
    \/ CheckClient(c) \/ Finish(c) \/ Fail(c)
    \/ SetListener(c) \/ SetSess(c) \/ PersistWsh(c) \/ Ensured(c) \/ WaitForConnect(c)

CallStep(c) == Dial(c) \/ Asks(c) \/ Proceeds(c)

GoStep ==
    \/ \E x \in Client : WaiterLooks(x) \/ WaiterWakes(x)
    \/ \E l \in Listener : ListenerEnds(l)
    \/ \E s \in Sess : SessEnds(s)

ConnNext ==
    \/ \E c \in Call : BeginConnect(c) \/ BeginClose(c) \/ BeginEnsure(c) \/ CallStep(c)
    \/ GoStep
    \/ \E x \in Client : Drop(x)
    \/ \E s \in Sess : Die(s)

ConnSpec == ConnInit /\ [][ConnNext]_connVars

NoClient == \A x \in Client : ~Up(x)

\* Goroutines run.  The host need not answer, and the network need not fail: a
\* call that waits for the host is sure to go on when its client is gone only.
Fairness ==
    /\ \A c \in Call : WF_connVars(Proceeds(c)) /\ WF_connVars(NoClient /\ Asks(c))
    /\ WF_connVars(GoStep)

FairConnSpec == ConnSpec /\ Fairness

----------------------------------------------------------------------------
(* Properties                                                              *)

\* No goroutine has anything to do.
NothingEnds ==
    /\ \A x \in Client : waiter[x] = None \/ waiter[x].at = "end"
                            \/ (waiter[x].at = "wait" /\ Up(waiter[x].client))
    /\ \A l \in Listener : listener[l] = None \/ ~listener[l].served \/ ListenerOpen(l)
    /\ \A s \in Sess : sess[s] = None \/ ~sess[s].watched \/ SessOpen(s)

\* ... and no call is under way.
Quiet == NothingEnds /\ \A c \in Call : call[c] \in {NoCall, End}

ConnTypeOK ==
    /\ conn \in [status : {"init", "connecting", "connected", "disconnected", "error"},
                 client : Client \cup {None}, listener : Listener \cup {None},
                 sess : Sess \cup {None}, wsh : BOOLEAN, ensuring : BOOLEAN]
    /\ client \in [Client -> {None, "up", "down"}]
    /\ listener \in [Listener -> ListenerState \cup {None}]
    /\ sess \in [Sess -> SessState \cup {None}]
    /\ waiter \in [Client -> WaiterState \cup {None}]
    /\ raced \in Race \cup {None}

\* When nothing is under way, nothing is open that the connection does not
\* know of, but a session whose command could not be started; the status is
\* the truth, and so is what it says of wsh.
SettledIsTrue ==
    Quiet /\ raced = None =>
       /\ \A x \in Client : Up(x) => conn.client = x
       /\ \A l \in Listener : ListenerOpen(l) => conn.listener = l
       /\ \A s \in Sess : SessOpen(s) => conn.sess = s \/ sess[s].left
       /\ conn.status = "connected" <=> conn.client # None /\ Up(conn.client)
       /\ conn.status # "connecting"
       /\ conn.wsh /\ conn.status = "connected" => conn.sess # None /\ SessOpen(conn.sess)

\* A live connection is given up by a Close only: not by the waiter of an
\* older client, nor by the end of a connserver.
OnlyCloseDisconnects ==
    [][conn.status = "connected" /\ Up(conn.client) /\ raced = None =>
          \/ conn'.status = "connected" /\ conn'.client = conn.client
          \/ \E c \in Call : call[c] = NoCall /\ call'[c].at = "waiter"]_connVars

\* A call hangs while it waits for the host: until its dial is answered, or
\* while there is a client.
Hangs(c) == call[c].at = "dial" \/ (call[c].at \in {"wsh", "connserver"} /\ ~NoClient)

\* In the end every call has returned, unless the host never answers it, or
\* never answers the Connect that it waits for; only such a call keeps others
\* from setting up wsh; and every client, listener and connserver that is
\* gone has been noticed.
EndsQuiet ==
    <>[] /\ NothingEnds
         /\ \A c \in Call :
               \/ call[c] \in {NoCall, End} \/ Hangs(c)
               \/ call[c].at = "waitConnect" /\ \E d \in Call : Hangs(d) /\ call[d].connect
         /\ conn.ensuring => \E c \in Call : Hangs(c) /\ ~call[c].connect

=============================================================================
