------------------------------- MODULE WshRpc -------------------------------
(***************************************************************************)
(* The requesting side of the RPC client of pkg/wshutil/wshrpc.go: calls   *)
(* register a response channel, send their request and wait; one           *)
(* goroutine, runServer, moves the answers from the input channel to the   *)
(* response channels and ends the calls that time out.  A call is          *)
(* identified with its RpcRequestHandler.  Requests use SendRpcRequest,    *)
(* Commands use SendCommand and share the empty request id, Streams use    *)
(* the stream helper of wshclient, whose StreamCancelFn is SendCancel.     *)
(* The peer (another client behind the router) is external: it answers a   *)
(* request once and a stream up to MaxResponses times, may end either with *)
(* an error, and may not answer at all.  Who reads a stream is external    *)
(* too, and may stop reading.                                              *)
(***************************************************************************)
EXTENDS Naturals, Sequences, FiniteSets

CONSTANTS Requests, Commands, Streams,
          NoId, Nobody,
          RespChSize, StreamChSize, InputChSize, OutputChSize, CtxDoneChSize,
          MaxResponses,
          MaxCalls,        \* bound: how many calls are made in a behaviour
          MayClose         \* whether the transport may close the input channel

Calls == Requests \cup Commands \cup Streams

ASSUME CallsAssumption ==
    /\ Requests \cap Commands = {} /\ Requests \cap Streams = {} /\ Commands \cap Streams = {}
    /\ NoId \notin Calls /\ Nobody \notin Calls
ASSUME SizesAssumption ==
    /\ RespChSize \in Nat \ {0} /\ StreamChSize \in Nat \ {0} /\ InputChSize \in Nat \ {0}
    /\ OutputChSize \in Nat \ {0} /\ CtxDoneChSize \in Nat \ {0}
    /\ MaxResponses \in Nat \ {0} /\ MaxCalls \in Nat /\ MayClose \in BOOLEAN

VARIABLES
    RpcMap,      \* request id -> the call registered under it, or Nobody
    ResCh,       \* call -> what is in its response channel
    resOpen,     \* call -> whether its response channel is open
    ctx,         \* call -> its context: none, live, expired (deadline) or canceled
    watcher,     \* call -> its goroutine that waits for the context: none, running or over
    InputCh, inputOpen,
    OutputCh, outputOpen,
    CtxDoneCh, ServerDone,
    server,      \* runServer: where it is, and the response it is delivering
    call,        \* call -> where its goroutine is
    result,      \* call -> how it ended
    got,         \* call -> the responses it has read
    respChan,    \* stream -> how many responses its reader has not taken yet
    cancel,      \* stream -> where its SendCancel is
    peer         \* call -> what the peer did: has it the request, how much is sent, is it over

rpcVars    == <<RpcMap, ResCh, resOpen, ctx, watcher, CtxDoneCh>>
serverVars == <<server, ServerDone, outputOpen>>
callVars   == <<call, result, got, respChan>>
inputVars  == <<InputCh, inputOpen, peer>>
vars == <<rpcVars, serverVars, callVars, inputVars, OutputCh, cancel>>

Ids == Requests \cup Streams \cup {NoId}
\* Mutant: every call uses the empty request id.
Id_Shared(h) == NoId


Id(h) == IF h \in Commands THEN NoId ELSE h

Response(h, n, cont) == [to |-> h, n |-> n, cont |-> cont]
Responses == [to : Requests \cup Streams, n : 1 .. MaxResponses, cont : BOOLEAN]
TimeoutError == 0                     \* the EC-TIME message that unregisterRpc leaves in the channel
NoResponse == Response(Nobody, 0, FALSE)

TypeOK ==
    /\ RpcMap \in [Ids -> Calls \cup {Nobody}]
    /\ ResCh \in [Calls -> Seq(0 .. MaxResponses)]
    /\ \A h \in Calls : Len(ResCh[h]) <= RespChSize
    /\ resOpen \in [Calls -> BOOLEAN]
    /\ ctx \in [Calls -> {"none", "live", "expired", "canceled"}]
    /\ watcher \in [Calls -> {"none", "running", "over"}]
    /\ InputCh \in Seq(Responses) /\ Len(InputCh) <= InputChSize /\ inputOpen \in BOOLEAN
    /\ OutputCh \in Seq({"request", "cancel"} \X Ids) /\ Len(OutputCh) <= OutputChSize
    /\ CtxDoneCh \in Seq(Ids) /\ Len(CtxDoneCh) <= CtxDoneChSize
    /\ outputOpen \in BOOLEAN /\ ServerDone \in BOOLEAN
    /\ server \in [pc : {"select", "send", "blocked", "giveup", "finish", "dying", "closed", "done"},
                   msg : Responses \cup {NoResponse}]
    /\ call \in [Calls -> {"idle", "register", "send", "read", "poll", "deliver", "unregister", "returned"}]
    /\ result \in [Calls -> {"none", "data", "done", "closed", "timeout", "failed", "unreadable",
                             "sent", "unsent", "refused", "nil"}]
    /\ got \in [Calls -> Seq(1 .. MaxResponses)]
    /\ respChan \in [Streams -> 0 .. StreamChSize]
    /\ cancel \in [Streams -> {"none", "unregister", "over"}]
    /\ peer \in [Calls -> [has : BOOLEAN, sent : 0 .. MaxResponses, over : BOOLEAN]]

Init ==
    /\ RpcMap = [id \in Ids |-> Nobody]
    /\ ResCh = [h \in Calls |-> <<>>]
    /\ resOpen = [h \in Calls |-> TRUE]
    /\ ctx = [h \in Calls |-> "none"]
    /\ watcher = [h \in Calls |-> "none"]
    /\ InputCh = <<>> /\ inputOpen = TRUE
    /\ OutputCh = <<>> /\ outputOpen = TRUE
    /\ CtxDoneCh = <<>> /\ ServerDone = FALSE
    /\ server = [pc |-> "select", msg |-> NoResponse]
    /\ call = [h \in Calls |-> "idle"]
    /\ result = [h \in Calls |-> "none"]
    /\ got = [h \in Calls |-> <<>>]
    /\ respChan = [h \in Streams |-> 0]
    /\ cancel = [h \in Streams |-> "none"]
    /\ peer = [h \in Calls |-> [has |-> FALSE, sent |-> 0, over |-> FALSE]]

-----------------------------------------------------------------------------
(* What the code does under the client's lock.                             *)

\* The context of call h is over (its cancel function is called, once).
CtxCanceled(h) == [ctx EXCEPT ![h] = IF @ = "live" THEN "canceled" ELSE @]

\* unregisterRpc(id, err): the error is left in the channel if it has room, and the channel closed.
unregisterRpc(id, err) ==
    IF RpcMap[id] = Nobody
    THEN UNCHANGED <<RpcMap, ResCh, resOpen, ctx>>
    ELSE LET h == RpcMap[id] IN
         /\ ResCh' = IF err /\ Len(ResCh[h]) < RespChSize
                     THEN [ResCh EXCEPT ![h] = Append(@, TimeoutError)] ELSE ResCh
         /\ RpcMap' = [RpcMap EXCEPT ![id] = Nobody]
         /\ resOpen' = [resOpen EXCEPT ![h] = FALSE]
         /\ ctx' = CtxCanceled(h)

\* registerRpc: under the empty id a later command takes the place of an earlier one.
registerRpc(h) ==
    /\ RpcMap' = [RpcMap EXCEPT ![Id(h)] = h]
    /\ ctx' = [ctx EXCEPT ![h] = "live"]
    /\ watcher' = [watcher EXCEPT ![h] = "running"]
    /\ UNCHANGED <<ResCh, resOpen, CtxDoneCh>>

\* Mutant: a full channel is not tried again.
Watch_NoRetry(h) ==
    /\ watcher[h] = "running" /\ ctx[h] \in {"expired", "canceled"}
    /\ CtxDoneCh' = IF ServerDone \/ Len(CtxDoneCh) >= CtxDoneChSize THEN CtxDoneCh ELSE Append(CtxDoneCh, Id(h))
    /\ watcher' = [watcher EXCEPT ![h] = "over"]
    /\ UNCHANGED <<RpcMap, ResCh, resOpen, ctx, serverVars, callVars, inputVars, OutputCh, cancel>>

\* Mutant: the goroutine unregisters the call itself instead of asking runServer to do it.
Watch_Unregisters(h) ==
    /\ watcher[h] = "running" /\ ctx[h] \in {"expired", "canceled"}
    /\ unregisterRpc(Id(h), TRUE)
    /\ watcher' = [watcher EXCEPT ![h] = "over"]
    /\ UNCHANGED <<CtxDoneCh, serverVars, callVars, inputVars, OutputCh, cancel>>

\* The goroutine of registerRpc: once the context is over it offers the id to runServer until it is
\* taken or the server has ended (retrySendTimeout).
Watch(h) ==
    /\ watcher[h] = "running" /\ ctx[h] \in {"expired", "canceled"}
    /\ ServerDone \/ Len(CtxDoneCh) < CtxDoneChSize
    /\ CtxDoneCh' = IF ServerDone THEN CtxDoneCh ELSE Append(CtxDoneCh, Id(h))
    /\ watcher' = [watcher EXCEPT ![h] = "over"]
    /\ UNCHANGED <<RpcMap, ResCh, resOpen, ctx, serverVars, callVars, inputVars, OutputCh, cancel>>

\* The deadline of a call passes.
Expire(h) ==
    /\ ctx[h] = "live"
    /\ ctx' = [ctx EXCEPT ![h] = "expired"]
    /\ UNCHANGED <<RpcMap, ResCh, resOpen, watcher, CtxDoneCh, serverVars, callVars, inputVars, OutputCh, cancel>>

-----------------------------------------------------------------------------
(* The goroutine of a call.                                                *)

GoTo(h, pc) == call' = [call EXCEPT ![h] = pc]
Return(h, res) ==
    /\ GoTo(h, "returned")
    /\ result' = [result EXCEPT ![h] = res]

\* Mutant: the call stays registered.
Finalize_StaysRegistered(h, res) ==
    /\ ctx' = CtxCanceled(h)
    /\ Return(h, res)

\* finalize: the context is canceled here, and the call is unregistered next, unless it is a command.
Finalize(h, res) ==
    /\ ctx' = CtxCanceled(h)
    /\ result' = [result EXCEPT ![h] = res]
    /\ GoTo(h, IF h \in Commands THEN "returned" ELSE "unregister")

\* SendComplexRequest looks at ServerDone, once, and lets the lock go; a request that cannot be encoded
\* is refused too.
Begin(h) ==
    /\ call[h] = "idle" /\ Cardinality({k \in Calls : call[k] # "idle"}) < MaxCalls
    /\ \/ Return(h, "refused")
       \/ ~ServerDone /\ GoTo(h, "register") /\ UNCHANGED result
    /\ UNCHANGED <<rpcVars, serverVars, got, respChan, inputVars, OutputCh, cancel>>

Register(h) ==
    /\ call[h] = "register"
    /\ registerRpc(h)
    /\ GoTo(h, "send")
    /\ UNCHANGED <<serverVars, result, got, respChan, inputVars, OutputCh, cancel>>

\* The select of SendComplexRequest: the request is sent ...
SendRequest(h) ==
    /\ call[h] = "send" /\ outputOpen /\ Len(OutputCh) < OutputChSize
    /\ OutputCh' = Append(OutputCh, <<"request", Id(h)>>)
    /\ IF h \in Commands
       THEN Finalize(h, "sent")
       ELSE GoTo(h, IF h \in Requests THEN "read" ELSE "poll") /\ UNCHANGED <<ctx, result>>
    /\ UNCHANGED <<RpcMap, ResCh, resOpen, watcher, CtxDoneCh, serverVars, got, respChan, inputVars, cancel>>

\* ... or the context is over ("timeout sending request") ...
SendTimesOut(h) ==
    /\ call[h] = "send" /\ ctx[h] \in {"expired", "canceled"}
    /\ Finalize(h, "unsent")
    /\ UNCHANGED <<RpcMap, ResCh, resOpen, watcher, CtxDoneCh, serverVars, got, respChan, inputVars, OutputCh, cancel>>

\* ... or the output channel is closed and the send panics: the recovery in SendComplexRequest
\* makes it return neither a handler nor an error.
SendPanics(h) ==
    /\ call[h] = "send" /\ ~outputOpen
    /\ Return(h, "nil")
    /\ UNCHANGED <<rpcVars, serverVars, got, respChan, inputVars, OutputCh, cancel>>

Unregister(h) ==
    /\ call[h] = "unregister"
    /\ unregisterRpc(Id(h), FALSE)
    /\ GoTo(h, "returned")
    /\ UNCHANGED <<watcher, CtxDoneCh, serverVars, result, got, respChan, inputVars, OutputCh, cancel>>

Take(h) == ResCh' = [ResCh EXCEPT ![h] = Tail(@)]
Closed(h) == ~resOpen[h] /\ ResCh[h] = <<>>

\* NextResponse of a request, and the deferred finalize: it waits for the channel alone.  Only here is it
\* seen whether the response is a value or an error of the peer.
NextResponse(h) ==
    /\ call[h] = "read" /\ h \in Requests
    /\ \/ /\ ResCh[h] # <<>>
          /\ Take(h)
          /\ \/ Head(ResCh[h]) = TimeoutError /\ Finalize(h, "timeout") /\ UNCHANGED got
             \/ Head(ResCh[h]) # TimeoutError /\ Finalize(h, "failed") /\ UNCHANGED got
             \/ /\ Head(ResCh[h]) # TimeoutError
                /\ Finalize(h, "data")
                /\ got' = [got EXCEPT ![h] = Append(@, Head(ResCh[h]))]
       \/ /\ Closed(h)
          /\ Finalize(h, "closed")
          /\ UNCHANGED <<ResCh, got>>
    /\ UNCHANGED <<RpcMap, resOpen, watcher, CtxDoneCh, serverVars, respChan, inputVars, OutputCh, cancel>>

\* The stream helper passes on what it has read, or the error with which it then ends.
ToDeliver(h, res) ==
    /\ GoTo(h, "deliver")
    /\ result' = [result EXCEPT ![h] = res]

\* The stream helper reads a response: ResponseDone caches it and NextResponse returns it, or
\* NextResponse receives it.  The last that the peer sends may be an error, which ends the stream, and so
\* does any response that ReUnmarshal refuses: neither is followed by finalize.
ReadStream(h) ==
    /\ call[h] \in {"poll", "read"} /\ h \in Streams /\ ResCh[h] # <<>>
    /\ Take(h)
    /\ LET n == Head(ResCh[h]) IN
       \/ n = TimeoutError /\ ToDeliver(h, "timeout") /\ UNCHANGED got
       \/ n # TimeoutError /\ n = peer[h].sent /\ peer[h].over /\ ToDeliver(h, "failed") /\ UNCHANGED got
       \/ n # TimeoutError /\ ToDeliver(h, "unreadable") /\ UNCHANGED got
       \/ n # TimeoutError /\ ToDeliver(h, "none") /\ got' = [got EXCEPT ![h] = Append(@, n)]
    /\ UNCHANGED <<RpcMap, resOpen, ctx, watcher, CtxDoneCh, serverVars, respChan, inputVars, OutputCh, cancel>>

\* It waits until there is room for it, and reads on, or ends.
Deliver(h) ==
    /\ call[h] = "deliver" /\ h \in Streams /\ respChan[h] < StreamChSize
    /\ respChan' = [respChan EXCEPT ![h] = @ + 1]
    /\ GoTo(h, IF result[h] = "none" THEN "poll" ELSE "returned")
    /\ UNCHANGED <<rpcVars, serverVars, result, got, inputVars, OutputCh, cancel>>

\* ResponseDone finds the channel empty: the stream is over if it is closed, else NextResponse waits.
PollStream(h) ==
    /\ call[h] = "poll" /\ ResCh[h] = <<>>
    /\ IF resOpen[h] THEN GoTo(h, "read") /\ UNCHANGED result ELSE Return(h, "done")
    /\ UNCHANGED <<rpcVars, serverVars, got, respChan, inputVars, OutputCh, cancel>>

\* NextResponse finds the channel closed: the stream ends in an error.
StreamClosed(h) ==
    /\ call[h] = "read" /\ h \in Streams /\ Closed(h)
    /\ ToDeliver(h, "closed")
    /\ UNCHANGED <<rpcVars, serverVars, got, respChan, inputVars, OutputCh, cancel>>

\* SendCancel, called by another goroutine once the stream helper has returned: the message is sent
\* if the channel takes it before the canceller's own context ends; a panic on the closed channel is
\* recovered and leaves the call as it is.
SendCancel(h) ==
    /\ cancel[h] = "none"
    /\ call[h] \in {"poll", "read", "deliver", "returned"} /\ result[h] \notin {"unsent", "refused", "nil"}
    /\ \/ /\ outputOpen /\ Len(OutputCh) < OutputChSize
          /\ OutputCh' = Append(OutputCh, <<"cancel", h>>)
          /\ ctx' = CtxCanceled(h)
          /\ cancel' = [cancel EXCEPT ![h] = "unregister"]
       \/ /\ ctx' = CtxCanceled(h)
          /\ cancel' = [cancel EXCEPT ![h] = "unregister"]
          /\ UNCHANGED OutputCh
       \/ /\ ~outputOpen
          /\ cancel' = [cancel EXCEPT ![h] = "over"]
          /\ UNCHANGED <<OutputCh, ctx>>
    /\ UNCHANGED <<RpcMap, ResCh, resOpen, watcher, CtxDoneCh, serverVars, callVars, inputVars>>

CancelUnregister(h) ==
    /\ cancel[h] = "unregister"
    /\ unregisterRpc(h, FALSE)
    /\ cancel' = [cancel EXCEPT ![h] = "over"]
    /\ UNCHANGED <<watcher, CtxDoneCh, serverVars, callVars, inputVars, OutputCh>>

-----------------------------------------------------------------------------
(* runServer.                                                              *)

ServerAt(pc) == server' = [server EXCEPT !.pc = pc]

\* A response arrives: its call is looked up, and the lock let go, before it is delivered.
ServerReceive ==
    /\ server.pc = "select" /\ InputCh # <<>>
    /\ InputCh' = Tail(InputCh)
    /\ LET m == Head(InputCh) IN
       IF RpcMap[m.to] = Nobody
       THEN UNCHANGED server
       ELSE server' = [pc |-> "send", msg |-> m]
    /\ UNCHANGED <<rpcVars, ServerDone, outputOpen, callVars, inputOpen, peer, OutputCh, cancel>>

\* The id of a context that is over arrives: the call is failed with EC-TIME.
ServerTimeout ==
    /\ server.pc = "select" /\ CtxDoneCh # <<>>
    /\ unregisterRpc(Head(CtxDoneCh), TRUE)
    /\ CtxDoneCh' = Tail(CtxDoneCh)
    /\ UNCHANGED <<watcher, serverVars, callVars, inputVars, OutputCh, cancel>>

\* sendRespWithBlockMessage: the response goes into the channel; a full channel is waited for; a
\* closed one makes the send, and with it runServer, panic.
Delivered == IF server.msg.cont THEN "select" ELSE "finish"
ServerSend ==
    LET h == server.msg.to IN
    /\ server.pc \in {"send", "blocked"}
    /\ \/ /\ resOpen[h] /\ Len(ResCh[h]) < RespChSize
          /\ ResCh' = [ResCh EXCEPT ![h] = Append(@, server.msg.n)]
          /\ ServerAt(Delivered)
       \/ /\ resOpen[h] /\ Len(ResCh[h]) >= RespChSize /\ server.pc = "send"
          /\ ServerAt("blocked")
          /\ UNCHANGED ResCh
       \/ /\ ~resOpen[h]
          /\ ServerAt("dying")
          /\ UNCHANGED ResCh
    /\ UNCHANGED <<RpcMap, resOpen, ctx, watcher, CtxDoneCh, ServerDone, outputOpen, callVars, inputVars,
                   OutputCh, cancel>>

\* Mutant: the response is dropped and the call goes on.
ServerGiveUp_Drops ==
    /\ server.pc = "blocked" /\ resOpen[server.msg.to] /\ Len(ResCh[server.msg.to]) >= RespChSize
    /\ ServerAt(Delivered)
    /\ UNCHANGED <<rpcVars, ServerDone, outputOpen, callVars, inputVars, OutputCh, cancel>>

\* The channel stays full for a second: the call is failed, without an error message.
ServerGiveUp ==
    /\ server.pc = "blocked" /\ resOpen[server.msg.to] /\ Len(ResCh[server.msg.to]) >= RespChSize
    /\ unregisterRpc(server.msg.to, FALSE)
    /\ ServerAt(Delivered)
    /\ UNCHANGED <<watcher, CtxDoneCh, ServerDone, outputOpen, callVars, inputVars, OutputCh, cancel>>

\* After the last response of a call it is unregistered.
ServerFinish ==
    /\ server.pc = "finish"
    /\ unregisterRpc(server.msg.to, FALSE)
    /\ ServerAt("select")
    /\ UNCHANGED <<watcher, CtxDoneCh, ServerDone, outputOpen, callVars, inputVars, OutputCh, cancel>>

\* The input channel is closed and empty: the loop ends.
ServerInputClosed ==
    /\ server.pc = "select" /\ ~inputOpen /\ InputCh = <<>>
    /\ ServerAt("dying")
    /\ UNCHANGED <<rpcVars, ServerDone, outputOpen, callVars, inputVars, OutputCh, cancel>>

\* The deferred function: the output channel is closed first ...
ServerCloseOutput ==
    /\ server.pc = "dying"
    /\ outputOpen' = FALSE
    /\ ServerAt("closed")
    /\ UNCHANGED <<rpcVars, ServerDone, callVars, inputVars, OutputCh, cancel>>

\* ... and only then is the server marked as done, and its input drained.
setServerDone ==
    /\ server.pc = "closed"
    /\ ServerDone' = TRUE
    /\ ServerAt("done")
    /\ InputCh' = <<>>
    /\ UNCHANGED <<rpcVars, outputOpen, callVars, inputOpen, peer, OutputCh, cancel>>

-----------------------------------------------------------------------------
(* The peer and the transport (external).                                  *)

PeerReceive ==
    /\ OutputCh # <<>>
    /\ OutputCh' = Tail(OutputCh)
    /\ LET kind == Head(OutputCh)[1]
           id == Head(OutputCh)[2] IN
       peer' = IF kind = "request" /\ id # NoId THEN [peer EXCEPT ![id].has = TRUE] ELSE peer
    /\ UNCHANGED <<rpcVars, serverVars, callVars, InputCh, inputOpen, cancel>>

PeerRespond(h) ==
    /\ peer[h].has /\ ~peer[h].over
    /\ inputOpen /\ ~ServerDone /\ Len(InputCh) < InputChSize
    /\ \E cont \in IF h \in Streams /\ peer[h].sent + 1 < MaxResponses THEN BOOLEAN ELSE {FALSE} :
         /\ InputCh' = Append(InputCh, Response(h, peer[h].sent + 1, cont))
         /\ peer' = [peer EXCEPT ![h].sent = @ + 1, ![h].over = ~cont]
    /\ UNCHANGED <<rpcVars, serverVars, callVars, inputOpen, OutputCh, cancel>>

\* Who reads the stream takes a response, or does not.
ReaderTakes(h) ==
    /\ respChan[h] > 0
    /\ respChan' = [respChan EXCEPT ![h] = @ - 1]
    /\ UNCHANGED <<rpcVars, serverVars, call, result, got, inputVars, OutputCh, cancel>>

CloseInput ==
    /\ MayClose /\ inputOpen
    /\ inputOpen' = FALSE
    /\ UNCHANGED <<rpcVars, serverVars, callVars, InputCh, peer, OutputCh, cancel>>

-----------------------------------------------------------------------------
CallStep(h) ==
    \/ Begin(h) \/ Register(h)
    \/ SendRequest(h) \/ SendTimesOut(h) \/ SendPanics(h)
    \/ NextResponse(h) \/ ReadStream(h) \/ Deliver(h) \/ PollStream(h) \/ StreamClosed(h)
    \/ Unregister(h)

ServerStep ==
    \/ ServerReceive \/ ServerTimeout \/ ServerSend \/ ServerGiveUp \/ ServerFinish
    \/ ServerInputClosed \/ ServerCloseOutput \/ setServerDone

Next ==
    \/ \E h \in Calls : CallStep(h) \/ Watch(h) \/ Expire(h) \/ PeerRespond(h)
    \/ \E h \in Streams : SendCancel(h) \/ CancelUnregister(h) \/ ReaderTakes(h)
    \/ ServerStep \/ PeerReceive \/ CloseInput

Spec == Init /\ [][Next]_vars

\* Some goroutine that can run does, or a timer fires: each has finitely many steps, so that none is
\* passed over for ever.  Nothing is assumed of the peer, nor of who
\* reads a stream.
Fairness ==
    /\ WF_vars(\E h \in Calls : CallStep(h) \/ Watch(h) \/ Expire(h))
    /\ WF_vars(ServerStep)
FairSpec == Spec /\ Fairness

-----------------------------------------------------------------------------
(* Properties.                                                             *)

\* A registered call has its channel open, under its own id: unregisterRpc, which runs in three
\* goroutines for the same call, never closes a channel twice (it would panic with the lock held).
RegisteredIsOpen ==
    \A id \in Ids : RpcMap[id] # Nobody => resOpen[RpcMap[id]] /\ Id(RpcMap[id]) = id

\* A caller reads the responses in the order in which the peer sent them, and none is missing between
\* two that it reads, though runServer gives up on a response whose channel stays full.
NoGaps == \A h \in Calls : \A i \in 1 .. Len(got[h]) : got[h][i] = i

\* A call that has returned is not registered any more, however it was ended, unless the send panicked;
\* but a stream may return before that: on the peer's error, which runServer has put into the channel and
\* is about to follow by the unregistration, and on a response that it cannot read.
NoLeak ==
    \A h \in Calls \ Commands : call[h] = "returned" /\ RpcMap[h] # Nobody =>
        \/ result[h] \in {"nil", "unreadable"}
        \/ result[h] = "failed" /\ h \in Streams /\ server.pc = "finish" /\ server.msg.to = h

\* What is registered will be unregistered, whoever has forgotten it: its goroutine waits for the end of
\* its context, or its id is in the queue of runServer, unless that has ended.
Watched ==
    \A id \in Ids : RpcMap[id] # Nobody =>
        \/ watcher[RpcMap[id]] = "running"
        \/ \E i \in 1 .. Len(CtxDoneCh) : CtxDoneCh[i] = id
        \/ ServerDone

\* The map holds the calls that wait, and for a while those that a stream's helper has left behind.
OnlyWaitingRegistered == RegisteredIsOpen /\ NoLeak /\ Watched

\* "timeout sending request" and EC-TIME are reported only to a call whose own deadline has passed, or
\* that was canceled.  Commands are excepted: the context of a command that has returned is over, and
\* unregisterRpc("") then cancels the one that took its place in the map.
TimeoutIsEarned ==
    \A h \in Calls \ Commands : result[h] \in {"unsent", "timeout"} =>
        ctx[h] = "expired" \/ (h \in Streams /\ cancel[h] # "none")

\* "closes outputCh when inputCh is closed/done" (MakeWshRpc): and only then, but for a stream that is
\* canceled: its channel may be closed between the lookup of runServer and its send.
ServerSurvives ==
    server.pc \in {"dying", "closed", "done"} =>
        ~inputOpen \/ \E h \in Streams : cancel[h] # "none"

\* SendComplexRequest returns a handler or an error.
HandlerOrError == \A h \in Calls : result[h] # "nil"

\* A stream that ends without an error, and was not canceled, has all its responses: one that was
\* failed is not taken for a complete one.
CutStreamFails ==
    \A h \in Streams : result[h] = "done" /\ cancel[h] = "none" =>
        peer[h].over /\ Len(got[h]) = peer[h].sent

\* While the client lives, a call that has begun returns: with an answer, an error or the timeout,
\* though the peer may never answer, nor even read the request; and in the end none is registered, those
\* included that returned before.  Only the helper of a stream may stay, for a reader that does not read.
Alive == server.pc \notin {"dying", "closed", "done"}
Unread(h) == h \in Streams /\ call[h] = "deliver" /\ respChan[h] = StreamChSize
CallsOfALiveClientReturn ==
    <>[](Alive => /\ \A h \in Calls : call[h] \in {"idle", "returned"} \/ Unread(h)
                  /\ \A id \in Ids : RpcMap[id] = Nobody)

\* "EC-TIME: timeout waiting for response": the deadline of a call ends it, whatever becomes of the client.
EveryCallReturns == \A h \in Calls : call[h] = "register" ~> call[h] = "returned"

=============================================================================
