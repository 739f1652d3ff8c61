---------------------------- MODULE WshRpcProofs ----------------------------
(***************************************************************************)
(* What the run of WshRpc shows of two calls over channels of one place,   *)
(* for any number of calls and every size of the channels.                 *)
(***************************************************************************)
EXTENDS WshRpc, SequenceTheorems, TLAPS

CtxStates  == {"none", "live", "expired", "canceled"}
CallStates == {"idle", "register", "send", "read", "poll", "deliver", "unregister", "returned"}
Results    == {"none", "data", "done", "closed", "timeout", "failed", "unreadable", "sent", "unsent",
               "refused", "nil"}
PeerStates == [has : BOOLEAN, sent : 0 .. MaxResponses, over : BOOLEAN]

-----------------------------------------------------------------------------
(* Queues.                                                                 *)

In(q, x) == \E i \in 1 .. Len(q) : q[i] = x

LEMMA AppendFacts ==
    ASSUME NEW S, NEW q \in Seq(S), NEW e \in S
    PROVE  /\ Append(q, e) \in Seq(S) /\ Len(Append(q, e)) = Len(q) + 1
           /\ \A x : In(Append(q, e), x) <=> In(q, x) \/ x = e
<1>1. /\ Append(q, e) \in Seq(S) /\ Len(Append(q, e)) = Len(q) + 1 /\ Len(q) \in Nat
      /\ \A i \in 1 .. Len(q) : Append(q, e)[i] = q[i]
      /\ Append(q, e)[Len(q) + 1] = e
  BY AppendProperties, LenProperties
<1>2. \A x : In(Append(q, e), x) => In(q, x) \/ x = e
  BY <1>1 DEF In
<1>3. \A x : In(q, x) \/ x = e => In(Append(q, e), x)
  <2> SUFFICES ASSUME NEW x, In(q, x) \/ x = e PROVE In(Append(q, e), x)
    OBVIOUS
  <2>1. CASE x = e
    <3>1. Len(q) + 1 \in 1 .. Len(Append(q, e))  BY <1>1
    <3> QED  BY <1>1, <2>1, <3>1 DEF In
  <2>2. CASE In(q, x)
    <3>1. PICK i \in 1 .. Len(q) : q[i] = x  BY <2>2 DEF In
    <3>2. i \in 1 .. Len(Append(q, e)) /\ Append(q, e)[i] = x  BY <1>1, <3>1
    <3> QED  BY <3>2 DEF In
  <2> QED  BY <2>1, <2>2
<1> QED  BY <1>1, <1>2, <1>3

LEMMA TailFacts ==
    ASSUME NEW S, NEW q \in Seq(S), q # <<>>
    PROVE  /\ Tail(q) \in Seq(S) /\ Len(Tail(q)) = Len(q) - 1 /\ Len(q) \in Nat
           /\ Head(q) \in S /\ In(q, Head(q))
           /\ \A x : In(Tail(q), x) => In(q, x)
<1>1. /\ Len(q) \in Nat \ {0} /\ Head(q) = q[1] /\ Head(q) \in S
      /\ Tail(q) \in Seq(S) /\ Len(Tail(q)) = Len(q) - 1
      /\ \A i \in 1 .. Len(Tail(q)) : Tail(q)[i] = q[i + 1]
  BY HeadTailProperties, EmptySeq, LenProperties, ElementOfSeq
<1>2. In(q, Head(q))
  BY <1>1 DEF In
<1>3. \A x : In(Tail(q), x) => In(q, x)
  BY <1>1 DEF In
<1> QED  BY <1>1, <1>2, <1>3

-----------------------------------------------------------------------------
(* The invariant.                                                          *)

\* What TypeOK leaves open: runServer holds a response when it is to deliver one, and the peer sends
\* at most MaxResponses of them, to calls that have an id of their own.
Holds(h) == server.pc \in {"send", "blocked", "finish"} /\ server.msg.to = h
PeerInv ==
    /\ server.pc \in {"send", "blocked", "finish"} => server.msg \in Responses
    /\ \A h \in Calls : /\ peer[h].has => h \in Requests \cup Streams
                        /\ ~peer[h].over => peer[h].sent < MaxResponses

\* A call is registered at most once: before, its channel is open and nothing knows of it.
NewInv ==
    \A h \in Calls : call[h] \in {"idle", "register"} =>
        resOpen[h] /\ ctx[h] = "none" /\ \A id \in Ids : RpcMap[id] # h

\* The error message of unregisterRpc is only in channels that it closed.
ErrorInv == \A h \in Calls : resOpen[h] => ~In(ResCh[h], TimeoutError)

\* Only the helper of a stream has a result before it returns: the error that it delivers.
ResultInv ==
    \A h \in Calls :
        /\ call[h] \notin {"deliver", "unregister", "returned"} => result[h] = "none"
        /\ call[h] = "deliver" =>
              h \in Streams /\ result[h] \in {"none", "timeout", "closed", "failed", "unreadable"}

\* The calls that return without having been unregistered, and those that have been by now.
Left(h) == result[h] = "nil" \/ (h \in Streams /\ result[h] \in {"unreadable", "failed"})
Ending(h) ==
    /\ h \notin Commands
    /\ (call[h] = "returned" /\ ~Left(h)) \/ (call[h] = "deliver" /\ result[h] \in {"timeout", "closed"})
GoneInv == \A h \in Calls : Ending(h) => RpcMap[h] = Nobody

TypeInv == TypeOK /\ PeerInv
RegInv  == RegisteredIsOpen /\ NewInv /\ ErrorInv /\ ResultInv /\ GoneInv

LEMMA Sizes == /\ RespChSize \in Nat \ {0} /\ StreamChSize \in Nat \ {0} /\ InputChSize \in Nat \ {0}
               /\ OutputChSize \in Nat \ {0} /\ CtxDoneChSize \in Nat \ {0}
               /\ MaxResponses \in Nat \ {0}
  BY SizesAssumption

LEMMA IdFacts ==
    ASSUME NEW h \in Calls
    PROVE  /\ Id(h) \in Ids /\ h # Nobody /\ h # NoId
           /\ h \notin Commands => Id(h) = h /\ h \in Requests \cup Streams
           /\ h \in Commands => Id(h) = NoId
  BY CallsAssumption DEF Id, Ids, Calls

\* Under an id of a call only that call is registered.
LEMMA RegisteredSelf ==
    ASSUME TypeOK, RegisteredIsOpen, NEW h \in Calls \ Commands, RpcMap[h] # Nobody
    PROVE  RpcMap[h] = h /\ resOpen[h]
<1>1. h \in Ids /\ h # NoId  BY IdFacts
<1>2. RpcMap[h] \in Calls /\ Id(RpcMap[h]) = h /\ resOpen[RpcMap[h]]
  BY <1>1 DEF TypeOK, RegisteredIsOpen
<1> QED  BY <1>1, <1>2, IdFacts

\* What unregisterRpc changes: the call that was registered under the id, and no other.
LEMMA Unregistered ==
    ASSUME TypeOK, NEW id \in Ids, NEW err \in BOOLEAN, unregisterRpc(id, err)
    PROVE  /\ RpcMap' = [RpcMap EXCEPT ![id] = Nobody]
           /\ ResCh' \in [Calls -> Seq(0 .. MaxResponses)]
           /\ \A h \in Calls : Len(ResCh'[h]) <= RespChSize
           /\ resOpen' \in [Calls -> BOOLEAN] /\ ctx' \in [Calls -> CtxStates]
           /\ \A h \in Calls :
                /\ RpcMap[id] # h => ResCh'[h] = ResCh[h] /\ resOpen'[h] = resOpen[h] /\ ctx'[h] = ctx[h]
                /\ RpcMap[id] = h =>
                     /\ ~resOpen'[h]
                     /\ ctx'[h] = IF ctx[h] = "live" THEN "canceled" ELSE ctx[h]
                     /\ ResCh'[h] # ResCh[h] => err /\ \A x : In(ResCh'[h], x) <=> In(ResCh[h], x) \/ x = TimeoutError
<1>1. CASE RpcMap[id] = Nobody
  <2>1. RpcMap' = [RpcMap EXCEPT ![id] = Nobody]
    BY <1>1 DEF TypeOK, unregisterRpc
  <2> QED  BY <1>1, <2>1, IdFacts DEF TypeOK, unregisterRpc, CtxStates
<1>2. CASE RpcMap[id] # Nobody
  <2>1. PICK h \in Calls : h = RpcMap[id]
    BY <1>2 DEF TypeOK
  <2>2. /\ RpcMap' = [RpcMap EXCEPT ![id] = Nobody]
        /\ resOpen' = [resOpen EXCEPT ![h] = FALSE]
        /\ ctx' = [ctx EXCEPT ![h] = IF ctx[h] = "live" THEN "canceled" ELSE ctx[h]]
        /\ ResCh' = IF err /\ Len(ResCh[h]) < RespChSize
                    THEN [ResCh EXCEPT ![h] = Append(ResCh[h], TimeoutError)] ELSE ResCh
    BY <1>2, <2>1 DEF unregisterRpc, CtxCanceled
  <2>3. ResCh[h] \in Seq(0 .. MaxResponses) /\ Len(ResCh[h]) <= RespChSize /\ TimeoutError \in 0 .. MaxResponses
    BY Sizes DEF TypeOK, TimeoutError
  <2>4. /\ Append(ResCh[h], TimeoutError) \in Seq(0 .. MaxResponses)
        /\ Len(Append(ResCh[h], TimeoutError)) = Len(ResCh[h]) + 1 /\ Len(ResCh[h]) \in Nat
        /\ \A x : In(Append(ResCh[h], TimeoutError), x) <=> In(ResCh[h], x) \/ x = TimeoutError
    BY <2>3, AppendFacts, LenProperties
  <2>5. ResCh' \in [Calls -> Seq(0 .. MaxResponses)] /\ \A k \in Calls \ {h} : ResCh'[k] = ResCh[k]
    BY <2>2, <2>3, <2>4 DEF TypeOK
  <2>6. /\ Len(ResCh'[h]) <= RespChSize
        /\ ResCh'[h] # ResCh[h] => err /\ \A x : In(ResCh'[h], x) <=> In(ResCh[h], x) \/ x = TimeoutError
    BY <2>2, <2>3, <2>4, Sizes DEF TypeOK
  <2>7. resOpen' \in [Calls -> BOOLEAN] /\ ctx' \in [Calls -> CtxStates]
    BY <2>2 DEF TypeOK, CtxStates
  <2>8. \A k \in Calls : RpcMap[id] # k => ResCh'[k] = ResCh[k] /\ resOpen'[k] = resOpen[k] /\ ctx'[k] = ctx[k]
    BY ZenonT(60), <2>1, <2>2, <2>5 DEF TypeOK
  <2>9. ~resOpen'[h] /\ ctx'[h] = IF ctx[h] = "live" THEN "canceled" ELSE ctx[h]
    BY <2>2 DEF TypeOK
  <2> QED  BY <2>1, <2>2, <2>5, <2>6, <2>7, <2>8, <2>9 DEF TypeOK
<1> QED  BY <1>1, <1>2

-----------------------------------------------------------------------------
(* Types.                                                                  *)

\* The conjuncts of TypeInv by the variables they speak of.
RpcTypes ==
    /\ RpcMap \in [Ids -> Calls \cup {Nobody}] /\ resOpen \in [Calls -> BOOLEAN]
    /\ ResCh \in [Calls -> Seq(0 .. MaxResponses)] /\ \A h \in Calls : Len(ResCh[h]) <= RespChSize
    /\ ctx \in [Calls -> CtxStates] /\ watcher \in [Calls -> {"none", "running", "over"}]
CallTypes ==
    /\ call \in [Calls -> CallStates] /\ result \in [Calls -> Results]
    /\ got \in [Calls -> Seq(1 .. MaxResponses)]
    /\ respChan \in [Streams -> 0 .. StreamChSize]
    /\ cancel \in [Streams -> {"none", "unregister", "over"}]
ServerTypes ==
    /\ server \in [pc : {"select", "send", "blocked", "giveup", "finish", "dying", "closed", "done"},
                   msg : Responses \cup {NoResponse}]
    /\ server.pc \in {"send", "blocked", "finish"} => server.msg \in Responses
    /\ outputOpen \in BOOLEAN /\ ServerDone \in BOOLEAN
InputTypes ==
    /\ InputCh \in Seq(Responses) /\ Len(InputCh) <= InputChSize /\ inputOpen \in BOOLEAN
    /\ peer \in [Calls -> PeerStates]
    /\ \A h \in Calls : /\ peer[h].has => h \in Requests \cup Streams
                        /\ ~peer[h].over => peer[h].sent < MaxResponses
OutputTypes == OutputCh \in Seq({"request", "cancel"} \X Ids) /\ Len(OutputCh) <= OutputChSize
CtxDoneTypes == CtxDoneCh \in Seq(Ids) /\ Len(CtxDoneCh) <= CtxDoneChSize

LEMMA TypeParts ==
    TypeInv <=> RpcTypes /\ CallTypes /\ ServerTypes /\ InputTypes /\ OutputTypes /\ CtxDoneTypes
  BY DEF TypeInv, TypeOK, PeerInv, RpcTypes, CallTypes, ServerTypes, InputTypes, OutputTypes, CtxDoneTypes,
         CtxStates, CallStates, Results, PeerStates

LEMMA TypePartsNext ==
    RpcTypes' /\ CallTypes' /\ ServerTypes' /\ InputTypes' /\ OutputTypes' /\ CtxDoneTypes' => TypeInv'
  BY DEF TypeInv, TypeOK, PeerInv, RpcTypes, CallTypes, ServerTypes, InputTypes, OutputTypes, CtxDoneTypes,
         CtxStates, CallStates, Results, PeerStates

\* A part whose variables a step leaves alone.
LEMMA Untouched ==
    /\ RpcTypes /\ UNCHANGED <<RpcMap, ResCh, resOpen, ctx, watcher>> => RpcTypes'
    /\ CallTypes /\ UNCHANGED <<callVars, cancel>> => CallTypes'
    /\ ServerTypes /\ UNCHANGED serverVars => ServerTypes'
    /\ InputTypes /\ UNCHANGED inputVars => InputTypes'
    /\ OutputTypes /\ UNCHANGED OutputCh => OutputTypes'
    /\ CtxDoneTypes /\ UNCHANGED CtxDoneCh => CtxDoneTypes'
  BY DEF RpcTypes, CallTypes, ServerTypes, InputTypes, OutputTypes, CtxDoneTypes, callVars, serverVars, inputVars

LEMMA TypeInit == Init => TypeInv
<1> SUFFICES ASSUME Init PROVE TypeInv
  OBVIOUS
<1>1. <<>> \in Seq(0 .. MaxResponses) /\ <<>> \in Seq(1 .. MaxResponses) /\ <<>> \in Seq(Responses)
      /\ <<>> \in Seq({"request", "cancel"} \X Ids) /\ <<>> \in Seq(Ids) /\ Len(<<>>) = 0
  BY EmptySeq
<1>2. RpcTypes /\ CallTypes
  BY <1>1, Sizes DEF Init, RpcTypes, CallTypes, CtxStates, CallStates, Results
<1>3. OutputTypes /\ CtxDoneTypes
  BY <1>1, Sizes DEF Init, OutputTypes, CtxDoneTypes
<1>4. InputTypes
  <2>1. [has |-> FALSE, sent |-> 0, over |-> FALSE] \in PeerStates
    BY Sizes DEF PeerStates
  <2>2. peer \in [Calls -> PeerStates] /\ \A h \in Calls : ~peer[h].has /\ peer[h].sent = 0
    BY <2>1 DEF Init
  <2> QED  BY <1>1, <2>2, Sizes DEF Init, InputTypes
<1>5. ServerTypes
  BY DEF Init, ServerTypes
<1> QED  BY <1>2, <1>3, <1>4, <1>5, TypeParts

LEMMA CtxCanceledType ==
    ASSUME TypeOK, NEW h \in Calls
    PROVE  CtxCanceled(h) \in [Calls -> CtxStates]
  BY DEF TypeOK, CtxCanceled, CtxStates

LEMMA TakeType ==
    ASSUME TypeOK, NEW h \in Calls, ResCh[h] # <<>>, Take(h)
    PROVE  /\ ResCh' \in [Calls -> Seq(0 .. MaxResponses)]
           /\ \A k \in Calls : Len(ResCh'[k]) <= RespChSize
           /\ \A k \in Calls : \A x : In(ResCh'[k], x) => In(ResCh[k], x)
           /\ Head(ResCh[h]) \in 0 .. MaxResponses /\ In(ResCh[h], Head(ResCh[h]))
<1>1. ResCh[h] \in Seq(0 .. MaxResponses) /\ Len(ResCh[h]) <= RespChSize
  BY DEF TypeOK
<1>2. ResCh' = [ResCh EXCEPT ![h] = Tail(ResCh[h])]
  BY DEF Take
<1>3. /\ Tail(ResCh[h]) \in Seq(0 .. MaxResponses) /\ Len(Tail(ResCh[h])) <= RespChSize
      /\ Head(ResCh[h]) \in 0 .. MaxResponses /\ In(ResCh[h], Head(ResCh[h]))
      /\ \A x : In(Tail(ResCh[h]), x) => In(ResCh[h], x)
  <2>1. /\ Tail(ResCh[h]) \in Seq(0 .. MaxResponses) /\ Len(ResCh[h]) \in Nat
        /\ Len(Tail(ResCh[h])) = Len(ResCh[h]) - 1
        /\ Head(ResCh[h]) \in 0 .. MaxResponses /\ In(ResCh[h], Head(ResCh[h]))
        /\ \A x : In(Tail(ResCh[h]), x) => In(ResCh[h], x)
    BY <1>1, TailFacts
  <2> QED  BY <1>1, <2>1, Sizes
<1> QED  BY <1>2, <1>3 DEF TypeOK

LEMMA GotType ==
    ASSUME TypeOK, NEW h \in Calls, NEW n \in 0 .. MaxResponses, n # TimeoutError
    PROVE  [got EXCEPT ![h] = Append(@, n)] \in [Calls -> Seq(1 .. MaxResponses)]
<1>1. got[h] \in Seq(1 .. MaxResponses) /\ n \in 1 .. MaxResponses
  BY DEF TypeOK, TimeoutError
<1>2. Append(got[h], n) \in Seq(1 .. MaxResponses)
  BY <1>1, AppendFacts
<1> QED  BY <1>2 DEF TypeOK

\* The steps of a call.
LEMMA CallStepTypes ==
    ASSUME TypeInv, NEW h \in Calls, CallStep(h)
    PROVE  TypeInv'
<1> USE DEF rpcVars, serverVars, callVars, inputVars
<1>0. /\ TypeOK /\ RpcTypes /\ CallTypes /\ ServerTypes /\ InputTypes /\ OutputTypes /\ CtxDoneTypes
      /\ Id(h) \in Ids
  BY TypeParts, IdFacts DEF TypeInv
<1>c. CtxCanceled(h) \in [Calls -> CtxStates]
  BY <1>0, CtxCanceledType
<1>f. ASSUME NEW res \in Results, Finalize(h, res)
      PROVE  ctx' \in [Calls -> CtxStates] /\ call' \in [Calls -> CallStates] /\ result' \in [Calls -> Results]
  BY <1>0, <1>c, <1>f DEF Finalize, GoTo, CallTypes, CallStates
<1>r. ASSUME NEW res \in Results, Return(h, res)
      PROVE  call' \in [Calls -> CallStates] /\ result' \in [Calls -> Results]
  BY <1>0, <1>r DEF Return, GoTo, CallTypes, CallStates
<1>g. ASSUME NEW p \in CallStates, GoTo(h, p)
      PROVE  call' \in [Calls -> CallStates]
  BY <1>0, <1>g DEF GoTo, CallTypes
<1>d. ASSUME NEW res \in Results, ToDeliver(h, res)
      PROVE  call' \in [Calls -> CallStates] /\ result' \in [Calls -> Results]
  BY <1>0, <1>d DEF ToDeliver, GoTo, CallTypes, CallStates
<1>1. CASE Begin(h)
  <2>1. CallTypes'
    BY <1>0, <1>1, <1>r, <1>g DEF Begin, CallTypes, CallStates, Results
  <2> QED  BY <1>0, <1>1, <2>1, Untouched, TypePartsNext DEF Begin
<1>2. CASE Register(h)
  <2>1. RpcTypes'
    BY <1>0, <1>2 DEF Register, registerRpc, RpcTypes, CtxStates
  <2>2. CallTypes'
    BY <1>0, <1>2, <1>g DEF Register, CallTypes, CallStates
  <2> QED  BY <1>0, <1>2, <2>1, <2>2, Untouched, TypePartsNext DEF Register, registerRpc
<1>3. CASE SendRequest(h)
  <2>1. OutputTypes'
    <3>1. <<"request", Id(h)>> \in {"request", "cancel"} \X Ids  BY <1>0
    <3> QED  BY <1>0, <1>3, <3>1, AppendFacts, LenProperties, Sizes DEF SendRequest, OutputTypes
  <2>2. ctx' \in [Calls -> CtxStates] /\ call' \in [Calls -> CallStates] /\ result' \in [Calls -> Results]
    BY <1>0, <1>3, <1>f, <1>g DEF SendRequest, CallTypes, RpcTypes, CallStates, Results
  <2>3. RpcTypes' /\ CallTypes'
    BY <1>0, <1>3, <2>2 DEF SendRequest, RpcTypes, CallTypes
  <2> QED  BY <1>0, <1>3, <2>1, <2>3, Untouched, TypePartsNext DEF SendRequest
<1>4. CASE SendTimesOut(h)
  <2>1. ctx' \in [Calls -> CtxStates] /\ call' \in [Calls -> CallStates] /\ result' \in [Calls -> Results]
    BY <1>0, <1>4, <1>f DEF SendTimesOut, Results
  <2>2. RpcTypes' /\ CallTypes'
    BY <1>0, <1>4, <2>1 DEF SendTimesOut, RpcTypes, CallTypes
  <2> QED  BY <1>0, <1>4, <2>2, Untouched, TypePartsNext DEF SendTimesOut
<1>5. CASE SendPanics(h)
  <2>1. CallTypes'
    BY <1>0, <1>5, <1>r DEF SendPanics, CallTypes, Results
  <2> QED  BY <1>0, <1>5, <2>1, Untouched, TypePartsNext DEF SendPanics
<1>6. CASE NextResponse(h)
  <2>1. /\ ctx' \in [Calls -> CtxStates] /\ call' \in [Calls -> CallStates] /\ result' \in [Calls -> Results]
    BY <1>0, <1>6, <1>f DEF NextResponse, Results
  <2>2. /\ ResCh' \in [Calls -> Seq(0 .. MaxResponses)]
        /\ \A k \in Calls : Len(ResCh'[k]) <= RespChSize
        /\ got' \in [Calls -> Seq(1 .. MaxResponses)]
    <3>1. CASE ResCh[h] # <<>> /\ Take(h) /\ UNCHANGED got
      BY <1>0, <3>1, TakeType DEF CallTypes
    <3>2. CASE /\ ResCh[h] # <<>> /\ Take(h) /\ Head(ResCh[h]) # TimeoutError
               /\ got' = [got EXCEPT ![h] = Append(@, Head(ResCh[h]))]
      BY <1>0, <3>2, TakeType, GotType
    <3>3. CASE UNCHANGED <<ResCh, got>>
      BY <1>0, <3>3 DEF RpcTypes, CallTypes
    <3> QED  BY <1>6, <3>1, <3>2, <3>3 DEF NextResponse
  <2>3. RpcTypes' /\ CallTypes'
    BY <1>0, <1>6, <2>1, <2>2 DEF NextResponse, RpcTypes, CallTypes
  <2> QED  BY <1>0, <1>6, <2>3, Untouched, TypePartsNext DEF NextResponse
<1>7. CASE ReadStream(h)
  <2>1. call' \in [Calls -> CallStates] /\ result' \in [Calls -> Results]
    BY <1>7, <1>d DEF ReadStream, Results
  <2>2. /\ ResCh' \in [Calls -> Seq(0 .. MaxResponses)]
        /\ \A k \in Calls : Len(ResCh'[k]) <= RespChSize
        /\ Head(ResCh[h]) \in 0 .. MaxResponses
    BY <1>0, <1>7, TakeType DEF ReadStream
  <2>3. got' \in [Calls -> Seq(1 .. MaxResponses)]
    <3>1. CASE got' = [got EXCEPT ![h] = Append(@, Head(ResCh[h]))] /\ Head(ResCh[h]) # TimeoutError
      BY <1>0, <2>2, <3>1, GotType
    <3>2. CASE UNCHANGED got
      BY <1>0, <3>2 DEF CallTypes
    <3> QED  BY <1>7, <3>1, <3>2 DEF ReadStream
  <2>4. RpcTypes' /\ CallTypes'
    BY <1>0, <1>7, <2>1, <2>2, <2>3 DEF ReadStream, RpcTypes, CallTypes
  <2> QED  BY <1>0, <1>7, <2>4, Untouched, TypePartsNext DEF ReadStream
<1>8. CASE PollStream(h) \/ StreamClosed(h)
  <2>1. CallTypes'
    BY <1>0, <1>8, <1>d, <1>r, <1>g DEF PollStream, StreamClosed, CallTypes, CallStates, Results
  <2> QED  BY <1>0, <1>8, <2>1, Untouched, TypePartsNext DEF PollStream, StreamClosed
<1>10. CASE Deliver(h)
  <2>0. h \in Streams
    BY <1>10 DEF Deliver
  <2>1. respChan' \in [Streams -> 0 .. StreamChSize]
    BY <1>0, <1>10, <2>0, Sizes DEF Deliver, CallTypes
  <2>2. call' \in [Calls -> CallStates]
    BY <1>10, <1>g DEF Deliver, CallStates
  <2>3. CallTypes'
    BY <1>0, <1>10, <2>1, <2>2 DEF Deliver, CallTypes
  <2> QED  BY <1>0, <1>10, <2>3, Untouched, TypePartsNext DEF Deliver
<1>9. CASE Unregister(h)
  <2>1. /\ RpcMap' = [RpcMap EXCEPT ![Id(h)] = Nobody]
        /\ ResCh' \in [Calls -> Seq(0 .. MaxResponses)] /\ \A k \in Calls : Len(ResCh'[k]) <= RespChSize
        /\ resOpen' \in [Calls -> BOOLEAN] /\ ctx' \in [Calls -> CtxStates]
    BY <1>0, <1>9, Unregistered DEF Unregister
  <2>2. RpcTypes'
    BY <1>0, <1>9, <2>1 DEF Unregister, RpcTypes
  <2>3. CallTypes'
    BY <1>0, <1>9, <1>g DEF Unregister, CallTypes, CallStates
  <2> QED  BY <1>0, <1>9, <2>2, <2>3, Untouched, TypePartsNext DEF Unregister
<1> QED  BY <1>1, <1>2, <1>3, <1>4, <1>5, <1>6, <1>7, <1>8, <1>9, <1>10 DEF CallStep

LEMMA PeerSent ==
    ASSUME NEW p \in PeerStates, NEW cont \in BOOLEAN, NEW q, q = [p EXCEPT !.sent = @ + 1, !.over = ~cont]
    PROVE  q = [has |-> p.has, sent |-> p.sent + 1, over |-> ~cont]
  BY DEF PeerStates

\* What the peer adds to the input channel.
LEMMA ResponseFacts ==
    ASSUME TypeInv, NEW h \in Calls, PeerRespond(h)
    PROVE  \E cont \in BOOLEAN :
             /\ cont => peer[h].sent + 1 < MaxResponses /\ h \in Streams
             /\ InputCh' = Append(InputCh, Response(h, peer[h].sent + 1, cont))
             /\ peer' = [peer EXCEPT ![h] = [has |-> @.has, sent |-> @.sent + 1, over |-> ~cont]]
             /\ Response(h, peer[h].sent + 1, cont) \in Responses
<1>1. PICK cont \in BOOLEAN :
         /\ cont => peer[h].sent + 1 < MaxResponses /\ h \in Streams
         /\ InputCh' = Append(InputCh, Response(h, peer[h].sent + 1, cont))
         /\ peer' = [peer EXCEPT ![h].sent = @ + 1, ![h].over = ~cont]
  BY DEF PeerRespond
<1>2. /\ peer \in [Calls -> PeerStates] /\ peer[h] \in PeerStates
      /\ h \in Requests \cup Streams /\ peer[h].sent < MaxResponses
  BY TypeParts DEF PeerRespond, InputTypes
<1>3. peer' = [peer EXCEPT ![h] = [peer[h] EXCEPT !.sent = @ + 1, !.over = ~cont]]
  BY <1>1, <1>2
<1>4. [peer[h] EXCEPT !.sent = @ + 1, !.over = ~cont]
        = [has |-> peer[h].has, sent |-> peer[h].sent + 1, over |-> ~cont]
  BY <1>2, PeerSent
<1>5. peer[h].sent + 1 \in 1 .. MaxResponses
  BY <1>2, Sizes DEF PeerStates
<1>6. Response(h, peer[h].sent + 1, cont) \in Responses
  BY <1>2, <1>5 DEF Response, Responses
<1> QED  BY <1>1, <1>3, <1>4, <1>6

\* The steps of the goroutines that wait for a context, of a canceller, of the peer and the transport.
LEMMA OtherStepTypes ==
    ASSUME TypeInv,
           \/ \E h \in Calls : Watch(h) \/ Expire(h) \/ PeerRespond(h)
           \/ \E h \in Streams : SendCancel(h) \/ CancelUnregister(h) \/ ReaderTakes(h)
           \/ PeerReceive \/ CloseInput
    PROVE  TypeInv'
<1> USE DEF rpcVars, serverVars, callVars, inputVars
<1>0. TypeOK /\ RpcTypes /\ CallTypes /\ ServerTypes /\ InputTypes /\ OutputTypes /\ CtxDoneTypes
  BY TypeParts DEF TypeInv
<1>1. ASSUME NEW h \in Calls, Watch(h) PROVE TypeInv'
  <2>1. CtxDoneTypes'
    BY <1>0, <1>1, IdFacts, AppendFacts, LenProperties, Sizes DEF Watch, CtxDoneTypes
  <2>2. RpcTypes'
    BY <1>0, <1>1 DEF Watch, RpcTypes
  <2> QED  BY <1>0, <1>1, <2>1, <2>2, Untouched, TypePartsNext DEF Watch
<1>2. ASSUME NEW h \in Calls, Expire(h) PROVE TypeInv'
  <2>1. RpcTypes'
    BY <1>0, <1>2 DEF Expire, RpcTypes, CtxStates
  <2> QED  BY <1>0, <1>2, <2>1, Untouched, TypePartsNext DEF Expire
<1>3. ASSUME NEW h \in Calls, PeerRespond(h) PROVE TypeInv'
  <2>1. PICK cont \in BOOLEAN :
           /\ cont => peer[h].sent + 1 < MaxResponses
           /\ InputCh' = Append(InputCh, Response(h, peer[h].sent + 1, cont))
           /\ peer' = [peer EXCEPT ![h] = [has |-> @.has, sent |-> @.sent + 1, over |-> ~cont]]
           /\ Response(h, peer[h].sent + 1, cont) \in Responses
    BY <1>3, ResponseFacts
  <2>2. peer[h] \in PeerStates /\ peer[h].has /\ h \in Requests \cup Streams
    BY <1>0, <1>3 DEF InputTypes, PeerRespond
  <2>3. peer[h].sent \in Nat /\ peer[h].sent + 1 \in 0 .. MaxResponses
    BY <1>0, <1>3, <2>2, Sizes DEF InputTypes, PeerRespond, PeerStates
  <2>5. InputCh' \in Seq(Responses) /\ Len(InputCh') <= InputChSize
    BY <1>0, <1>3, <2>1, AppendFacts, LenProperties, Sizes DEF PeerRespond, InputTypes
  <2>6. [has |-> peer[h].has, sent |-> peer[h].sent + 1, over |-> ~cont] \in PeerStates
    BY <2>2, <2>3 DEF PeerStates
  <2>7. peer' \in [Calls -> PeerStates]
    BY <1>0, <2>1, <2>6 DEF InputTypes
  <2>8. \A k \in Calls : /\ peer'[k].has => k \in Requests \cup Streams
                         /\ ~peer'[k].over => peer'[k].sent < MaxResponses
    BY <1>0, <2>1, <2>2 DEF InputTypes
  <2>9. InputTypes'
    BY <1>0, <1>3, <2>5, <2>7, <2>8 DEF InputTypes, PeerRespond
  <2> QED  BY <1>0, <1>3, <2>9, Untouched, TypePartsNext DEF PeerRespond
<1>4. ASSUME NEW h \in Streams, SendCancel(h) PROVE TypeInv'
  <2>0. h \in Calls /\ <<"cancel", h>> \in {"request", "cancel"} \X Ids
    BY DEF Calls, Ids
  <2>1. OutputTypes'
    BY SMTT(30), <1>0, <1>4, <2>0, AppendFacts, LenProperties, Sizes DEF SendCancel, OutputTypes
  <2>2. ctx' \in [Calls -> CtxStates]
    BY <1>0, <1>4, <2>0, CtxCanceledType DEF SendCancel, RpcTypes
  <2>3. RpcTypes' /\ CallTypes'
    BY <1>0, <1>4, <2>2 DEF SendCancel, RpcTypes, CallTypes
  <2> QED  BY <1>0, <1>4, <2>1, <2>3, Untouched, TypePartsNext DEF SendCancel
<1>5. ASSUME NEW h \in Streams, CancelUnregister(h) PROVE TypeInv'
  <2>0. h \in Ids
    BY DEF Ids
  <2>1. /\ RpcMap' = [RpcMap EXCEPT ![h] = Nobody]
        /\ ResCh' \in [Calls -> Seq(0 .. MaxResponses)] /\ \A k \in Calls : Len(ResCh'[k]) <= RespChSize
        /\ resOpen' \in [Calls -> BOOLEAN] /\ ctx' \in [Calls -> CtxStates]
    BY <1>0, <1>5, <2>0, Unregistered DEF CancelUnregister
  <2>2. RpcTypes'
    BY <1>0, <1>5, <2>1 DEF CancelUnregister, RpcTypes
  <2>3. CallTypes'
    BY <1>0, <1>5 DEF CancelUnregister, CallTypes
  <2> QED  BY <1>0, <1>5, <2>2, <2>3, Untouched, TypePartsNext DEF CancelUnregister
<1>6. CASE PeerReceive
  <2>1. /\ Tail(OutputCh) \in Seq({"request", "cancel"} \X Ids) /\ Len(Tail(OutputCh)) <= OutputChSize
        /\ Head(OutputCh) \in {"request", "cancel"} \X Ids
    <3>1. /\ Tail(OutputCh) \in Seq({"request", "cancel"} \X Ids) /\ Len(OutputCh) \in Nat
          /\ Len(Tail(OutputCh)) = Len(OutputCh) - 1
          /\ Head(OutputCh) \in {"request", "cancel"} \X Ids
      BY <1>0, <1>6, TailFacts DEF PeerReceive, OutputTypes
    <3> QED  BY <1>0, <3>1, Sizes DEF OutputTypes
  <2>2. OutputTypes'
    BY <1>6, <2>1 DEF PeerReceive, OutputTypes
  <2>3. InputTypes'
    <3>1. CASE UNCHANGED peer
      BY <1>0, <1>6, <3>1 DEF PeerReceive, InputTypes
    <3>2. ASSUME NEW id \in Requests \cup Streams, peer' = [peer EXCEPT ![id].has = TRUE]
          PROVE  InputTypes'
      <4>1. id \in Calls /\ peer[id] \in PeerStates
        BY <1>0 DEF InputTypes, Calls
      <4>2. [peer[id] EXCEPT !.has = TRUE] \in PeerStates
        BY <4>1 DEF PeerStates
      <4>3. peer' = [peer EXCEPT ![id] = [peer[id] EXCEPT !.has = TRUE]]
        BY <3>2
      <4>4. peer' \in [Calls -> PeerStates]
        BY <1>0, <4>1, <4>2, <4>3 DEF InputTypes
      <4>5. \A k \in Calls : peer'[k].sent = peer[k].sent /\ peer'[k].over = peer[k].over
        BY <1>0, <4>1, <4>3 DEF InputTypes, PeerStates
      <4>6. \A k \in Calls \ {id} : peer'[k] = peer[k]
        BY <1>0, <4>3 DEF InputTypes
      <4> QED  BY <1>0, <1>6, <3>2, <4>4, <4>5, <4>6 DEF InputTypes, PeerReceive
    <3>3. Head(OutputCh)[2] \in Ids
      BY <2>1
    <3> QED  BY <1>6, <3>1, <3>2, <3>3 DEF PeerReceive, Ids
  <2> QED  BY <1>0, <1>6, <2>2, <2>3, Untouched, TypePartsNext DEF PeerReceive
<1>7. CASE CloseInput
  <2>1. InputTypes'
    BY <1>0, <1>7 DEF CloseInput, InputTypes
  <2> QED  BY <1>0, <1>7, <2>1, Untouched, TypePartsNext DEF CloseInput
<1>8. ASSUME NEW h \in Streams, ReaderTakes(h) PROVE TypeInv'
  <2>1. respChan' \in [Streams -> 0 .. StreamChSize]
    BY <1>0, <1>8, Sizes DEF ReaderTakes, CallTypes
  <2>2. CallTypes'
    BY <1>0, <1>8, <2>1 DEF ReaderTakes, CallTypes
  <2> QED  BY <1>0, <1>8, <2>2, Untouched, TypePartsNext DEF ReaderTakes
<1> QED  BY <1>1, <1>2, <1>3, <1>4, <1>5, <1>6, <1>7, <1>8

\* The steps of runServer.
LEMMA ServerStepTypes ==
    ASSUME TypeInv, ServerStep
    PROVE  TypeInv'
<1> USE DEF rpcVars, serverVars, callVars, inputVars
<1>0. TypeOK /\ RpcTypes /\ CallTypes /\ ServerTypes /\ InputTypes /\ OutputTypes /\ CtxDoneTypes
  BY TypeParts DEF TypeInv
<1>a. ASSUME NEW pc \in {"select", "send", "blocked", "finish", "dying", "closed", "done"}, ServerAt(pc),
             pc \in {"send", "blocked", "finish"} => server.msg \in Responses,
             outputOpen' \in BOOLEAN, ServerDone' \in BOOLEAN
      PROVE  ServerTypes'
  <2>1. server' = [pc |-> pc, msg |-> server.msg]
    BY <1>0, <1>a DEF ServerAt, ServerTypes
  <2> QED  BY <1>0, <1>a, <2>1 DEF ServerTypes
<1>u. ASSUME NEW id \in Ids, NEW err \in BOOLEAN, unregisterRpc(id, err), watcher' = watcher
      PROVE  RpcTypes'
  <2>1. /\ RpcMap' = [RpcMap EXCEPT ![id] = Nobody]
        /\ ResCh' \in [Calls -> Seq(0 .. MaxResponses)] /\ \A k \in Calls : Len(ResCh'[k]) <= RespChSize
        /\ resOpen' \in [Calls -> BOOLEAN] /\ ctx' \in [Calls -> CtxStates]
    BY <1>0, <1>u, Unregistered
  <2> QED  BY <1>0, <1>u, <2>1 DEF RpcTypes
<1>m. server.pc \in {"send", "blocked", "finish"} =>
        /\ server.msg \in Responses /\ server.msg.to \in Calls /\ server.msg.to \in Ids
        /\ server.msg.n \in 0 .. MaxResponses /\ server.msg.n # TimeoutError
  BY <1>0, Sizes DEF ServerTypes, Responses, Calls, Ids, TimeoutError
<1>1. CASE ServerReceive
  <2>1. /\ Tail(InputCh) \in Seq(Responses) /\ Len(Tail(InputCh)) <= InputChSize
        /\ Head(InputCh) \in Responses
    <3>1. /\ Tail(InputCh) \in Seq(Responses) /\ Len(InputCh) \in Nat
          /\ Len(Tail(InputCh)) = Len(InputCh) - 1 /\ Head(InputCh) \in Responses
      BY <1>0, <1>1, TailFacts DEF ServerReceive, InputTypes
    <3> QED  BY <1>0, <3>1, Sizes DEF InputTypes
  <2>2. InputTypes'
    BY <1>0, <1>1, <2>1 DEF ServerReceive, InputTypes
  <2>3. ServerTypes'
    <3>1. CASE UNCHANGED server
      BY <1>0, <1>1, <3>1 DEF ServerReceive, ServerTypes
    <3>2. CASE server' = [pc |-> "send", msg |-> Head(InputCh)]
      BY <1>0, <1>1, <2>1, <3>2 DEF ServerReceive, ServerTypes
    <3> QED  BY <1>1, <3>1, <3>2 DEF ServerReceive
  <2> QED  BY <1>0, <1>1, <2>2, <2>3, Untouched, TypePartsNext DEF ServerReceive
<1>2. CASE ServerTimeout
  <2>1. /\ Tail(CtxDoneCh) \in Seq(Ids) /\ Len(Tail(CtxDoneCh)) <= CtxDoneChSize /\ Head(CtxDoneCh) \in Ids
    <3>1. /\ Tail(CtxDoneCh) \in Seq(Ids) /\ Len(CtxDoneCh) \in Nat
          /\ Len(Tail(CtxDoneCh)) = Len(CtxDoneCh) - 1 /\ Head(CtxDoneCh) \in Ids
      BY <1>0, <1>2, TailFacts DEF ServerTimeout, CtxDoneTypes
    <3> QED  BY <1>0, <3>1, Sizes DEF CtxDoneTypes
  <2>2. CtxDoneTypes' /\ RpcTypes'
    BY <1>2, <2>1, <1>u DEF ServerTimeout, CtxDoneTypes
  <2> QED  BY <1>0, <1>2, <2>2, Untouched, TypePartsNext DEF ServerTimeout
<1>3. CASE ServerSend
  <2> DEFINE h == server.msg.to
  <2>1. /\ ResCh' \in [Calls -> Seq(0 .. MaxResponses)]
        /\ \A k \in Calls : Len(ResCh'[k]) <= RespChSize
    <3>1. CASE Len(ResCh[h]) < RespChSize /\ ResCh' = [ResCh EXCEPT ![h] = Append(@, server.msg.n)]
      <4>1. ResCh[h] \in Seq(0 .. MaxResponses) /\ h \in Calls
        BY <1>0, <1>3, <1>m DEF ServerSend, RpcTypes
      <4>2. /\ Append(ResCh[h], server.msg.n) \in Seq(0 .. MaxResponses)
            /\ Len(Append(ResCh[h], server.msg.n)) <= RespChSize
        BY <1>3, <1>m, <3>1, <4>1, AppendFacts, LenProperties, Sizes DEF ServerSend
      <4> QED  BY <1>0, <3>1, <4>1, <4>2 DEF RpcTypes
    <3>2. CASE UNCHANGED ResCh
      BY <1>0, <3>2 DEF RpcTypes
    <3> QED  BY <1>3, <3>1, <3>2 DEF ServerSend
  <2>2. RpcTypes'
    BY <1>0, <1>3, <2>1 DEF ServerSend, RpcTypes
  <2>3. ServerTypes'
    BY <1>0, <1>3, <1>a, <1>m DEF ServerSend, Delivered, ServerTypes
  <2> QED  BY <1>0, <1>3, <2>2, <2>3, Untouched, TypePartsNext DEF ServerSend
<1>4. CASE ServerGiveUp
  <2>1. RpcTypes'
    BY <1>4, <1>m, <1>u DEF ServerGiveUp
  <2>2. ServerTypes'
    BY <1>0, <1>4, <1>a, <1>m DEF ServerGiveUp, Delivered, ServerTypes
  <2> QED  BY <1>0, <1>4, <2>1, <2>2, Untouched, TypePartsNext DEF ServerGiveUp
<1>5. CASE ServerFinish
  <2>1. RpcTypes'
    BY <1>5, <1>m, <1>u DEF ServerFinish
  <2>2. ServerTypes'
    BY <1>0, <1>5, <1>a DEF ServerFinish, ServerTypes
  <2> QED  BY <1>0, <1>5, <2>1, <2>2, Untouched, TypePartsNext DEF ServerFinish
<1>6. CASE ServerInputClosed
  <2>1. ServerTypes'
    BY <1>0, <1>6, <1>a DEF ServerInputClosed, ServerTypes
  <2> QED  BY <1>0, <1>6, <2>1, Untouched, TypePartsNext DEF ServerInputClosed
<1>7. CASE ServerCloseOutput
  <2>1. ServerTypes'
    BY <1>0, <1>7, <1>a DEF ServerCloseOutput, ServerTypes
  <2> QED  BY <1>0, <1>7, <2>1, Untouched, TypePartsNext DEF ServerCloseOutput
<1>8. CASE setServerDone
  <2>1. ServerTypes'
    BY <1>0, <1>8, <1>a DEF setServerDone, ServerTypes
  <2>2. InputTypes'
    BY <1>0, <1>8, EmptySeq, Sizes DEF setServerDone, InputTypes
  <2> QED  BY <1>0, <1>8, <2>1, <2>2, Untouched, TypePartsNext DEF setServerDone
<1> QED  BY <1>1, <1>2, <1>3, <1>4, <1>5, <1>6, <1>7, <1>8 DEF ServerStep

LEMMA TypeStep == TypeInv /\ [Next]_vars => TypeInv'
<1> SUFFICES ASSUME TypeInv, [Next]_vars PROVE TypeInv'
  OBVIOUS
<1>1. CASE UNCHANGED vars
  BY <1>1, TypeParts, Untouched, TypePartsNext
  DEF vars, rpcVars, serverVars, callVars, inputVars
<1>2. CASE Next
  BY <1>2, CallStepTypes, OtherStepTypes, ServerStepTypes DEF Next
<1> QED  BY <1>1, <1>2

\* The state of the client has its declared types, whatever the number of calls and the sizes of the
\* channels: no channel holds more than its capacity, and runServer delivers only responses.
THEOREM TypeCorrect == Spec => []TypeOK
<1>1. TypeInv => TypeOK
  BY DEF TypeInv
<1> QED  BY <1>1, TypeInit, TypeStep, PTL DEF Spec

-----------------------------------------------------------------------------
(* Registration.                                                           *)

LEMMA RegInit == Init => RegInv
<1> SUFFICES ASSUME Init PROVE RegInv
  OBVIOUS
<1>1. \A h \in Calls : h # Nobody /\ ResCh[h] = <<>> /\ ~In(<<>>, TimeoutError)
  BY CallsAssumption, EmptySeq DEF Init, In
<1> QED  BY <1>1 DEF Init, RegInv, RegisteredIsOpen, NewInv, ErrorInv, ResultInv, GoneInv, Ending

\* What a step may do to its calls: none becomes new again, one gets its result when it ends, and one
\* that returns is not registered afterwards, those excepted that are left behind.
CallsGoOn ==
    /\ ResultInv' /\ GoneInv'
    /\ \A h \in Calls : call'[h] \in {"idle", "register"} => call[h] \in {"idle", "register"}

LEMMA CallsSame ==
    ASSUME TypeOK, RegInv, UNCHANGED <<call, result>>,
           \A id \in Ids : RpcMap'[id] \in {RpcMap[id], Nobody}
    PROVE  CallsGoOn
<1>1. ResultInv'
  BY DEF RegInv, ResultInv
<1>2. GoneInv'
  <2> SUFFICES ASSUME NEW h \in Calls, Ending(h)' PROVE RpcMap'[h] = Nobody
    BY DEF GoneInv
  <2>1. Ending(h)
    BY DEF Ending, Left
  <2>2. RpcMap[h] = Nobody /\ h \in Ids
    BY <2>1, IdFacts DEF RegInv, GoneInv, Ending, Ids
  <2> QED  BY <2>2
<1> QED  BY <1>1, <1>2 DEF CallsGoOn

\* A step that neither registers nor unregisters, and adds no error message.
LEMMA RegQuiet ==
    ASSUME TypeOK, RegInv, UNCHANGED <<RpcMap, resOpen>>, CallsGoOn,
           \A h \in Calls : call'[h] \in {"idle", "register"} => ctx'[h] = ctx[h],
           \A h \in Calls : resOpen[h] /\ In(ResCh'[h], TimeoutError) => In(ResCh[h], TimeoutError)
    PROVE  RegInv'
<1>1. RegisteredIsOpen' /\ NewInv'
  BY DEF RegInv, RegisteredIsOpen, NewInv, CallsGoOn
<1>2. ErrorInv' /\ ResultInv' /\ GoneInv'
  BY DEF RegInv, ErrorInv, CallsGoOn
<1> QED  BY <1>1, <1>2 DEF RegInv

\* A call of unregisterRpc.
LEMMA RegUnregister ==
    ASSUME TypeOK, RegInv, NEW id \in Ids, NEW err \in BOOLEAN, unregisterRpc(id, err), CallsGoOn
    PROVE  RegInv'
<1>1. /\ RpcMap' = [RpcMap EXCEPT ![id] = Nobody]
      /\ \A h \in Calls : RpcMap[id] # h => ResCh'[h] = ResCh[h] /\ resOpen'[h] = resOpen[h] /\ ctx'[h] = ctx[h]
      /\ \A h \in Calls : RpcMap[id] = h => ~resOpen'[h]
  BY Unregistered
<1>2. RpcMap'[id] = Nobody /\ \A k \in Ids \ {id} : RpcMap'[k] = RpcMap[k]
  BY <1>1 DEF TypeOK
<1>3. RegisteredIsOpen'
  <2> SUFFICES ASSUME NEW k \in Ids, RpcMap'[k] # Nobody PROVE resOpen'[RpcMap'[k]] /\ Id(RpcMap'[k]) = k
    BY DEF RegisteredIsOpen
  <2>1. k # id /\ RpcMap'[k] = RpcMap[k] /\ RpcMap[k] \in Calls
    BY <1>2 DEF TypeOK
  <2>2. resOpen[RpcMap[k]] /\ Id(RpcMap[k]) = k
    BY <2>1 DEF RegInv, RegisteredIsOpen
  <2>3. RpcMap[id] # RpcMap[k]
    BY <2>1, <2>2 DEF RegInv, RegisteredIsOpen
  <2> QED  BY <1>1, <2>1, <2>2, <2>3
<1>4. NewInv'
  BY <1>1, <1>2, IdFacts DEF RegInv, NewInv, CallsGoOn
<1>5. ErrorInv'
  BY <1>1 DEF RegInv, ErrorInv
<1>6. ResultInv' /\ GoneInv'
  BY DEF CallsGoOn
<1> QED  BY <1>3, <1>4, <1>5, <1>6 DEF RegInv

LEMMA RegCallStep ==
    ASSUME TypeInv, RegInv, NEW h \in Calls, CallStep(h)
    PROVE  RegInv'
<1> USE DEF rpcVars
<1>0. /\ TypeOK /\ Id(h) \in Ids /\ h # Nobody /\ h # NoId
      /\ call \in [Calls -> CallStates] /\ result \in [Calls -> Results]
      /\ ResCh \in [Calls -> Seq(0 .. MaxResponses)] /\ ctx \in [Calls -> CtxStates]
  BY TypeParts, IdFacts DEF TypeInv, CallTypes, RpcTypes
\* The other calls stay as they are.
<1>o. ASSUME NEW f, NEW g, call' = [call EXCEPT ![h] = f], result' = [result EXCEPT ![h] = g],
             \A k \in Calls : RpcMap[k] = Nobody => RpcMap'[k] = Nobody,
             f \notin {"deliver", "unregister", "returned"} => g = "none",
             f = "deliver" => h \in Streams /\ g \in {"none", "timeout", "closed", "failed", "unreadable"},
             f \in {"idle", "register"} => call[h] \in {"idle", "register"},
             /\ h \notin Commands
             /\ \/ f = "returned" /\ ~(g = "nil" \/ (h \in Streams /\ g \in {"unreadable", "failed"}))
                \/ f = "deliver" /\ g \in {"timeout", "closed"}
             => RpcMap'[h] = Nobody
      PROVE  CallsGoOn
  <2>1. /\ call'[h] = f /\ result'[h] = g
        /\ \A k \in Calls \ {h} : call'[k] = call[k] /\ result'[k] = result[k]
    BY <1>0, <1>o
  <2>2. ResultInv'
    BY <1>o, <2>1 DEF RegInv, ResultInv
  <2>3. GoneInv'
    <3> SUFFICES ASSUME NEW k \in Calls, Ending(k)' PROVE RpcMap'[k] = Nobody
      BY DEF GoneInv
    <3>1. CASE k = h
      BY <1>o, <2>1, <3>1 DEF Ending, Left
    <3>2. CASE k # h
      <4>1. Ending(k)
        BY <2>1, <3>2 DEF Ending, Left
      <4> QED  BY <1>o, <4>1 DEF RegInv, GoneInv
    <3> QED  BY <3>1, <3>2
  <2> QED  BY <1>o, <2>1, <2>2, <2>3 DEF CallsGoOn
<1>e. result = [result EXCEPT ![h] = result[h]]
  BY <1>0
\* A call that goes on without a result.
<1>g. ASSUME NEW p \in {"register", "send", "read", "poll"}, GoTo(h, p), UNCHANGED <<RpcMap, result>>,
             result[h] = "none", p = "register" => call[h] = "idle"
      PROVE  CallsGoOn
  BY <1>e, <1>g, <1>o DEF GoTo
\* A call that is over, or nearly.
<1>r. ASSUME NEW p \in {"unregister", "returned"}, NEW res, GoTo(h, p), UNCHANGED RpcMap,
             result' = [result EXCEPT ![h] = res],
             h \notin Commands /\ p = "returned" /\ res # "nil" => RpcMap[h] = Nobody
      PROVE  CallsGoOn
  BY <1>r, <1>o DEF GoTo
\* A stream whose helper delivers a response or an error.
<1>d. ASSUME NEW res \in {"none", "timeout", "closed", "failed", "unreadable"}, ToDeliver(h, res), UNCHANGED RpcMap,
             h \in Streams, res \in {"timeout", "closed"} => RpcMap[h] = Nobody
      PROVE  CallsGoOn
  BY <1>d, <1>o DEF ToDeliver, GoTo
<1>f. ASSUME NEW res, Finalize(h, res), UNCHANGED RpcMap
      PROVE  CallsGoOn
  <2>1. CASE h \in Commands
    BY <1>r, <1>f, <2>1 DEF Finalize
  <2>2. CASE h \notin Commands
    BY <1>r, <1>f, <2>2 DEF Finalize
  <2> QED  BY <2>1, <2>2
<1>n. h \notin Commands /\ (~resOpen[h] \/ call[h] = "idle") => RpcMap[h] = Nobody
  <2>1. h \notin Commands /\ RpcMap[h] # Nobody => RpcMap[h] = h /\ resOpen[h] /\ h \in Ids
    BY <1>0, RegisteredSelf, IdFacts DEF RegInv
  <2> QED  BY <2>1 DEF RegInv, NewInv
<1>c. \A k \in Calls : ctx' = CtxCanceled(h) => (call[k] \in {"idle", "register"} => ctx'[k] = ctx[k])
  BY <1>0 DEF CtxCanceled, RegInv, NewInv
<1>t. Take(h) /\ ResCh[h] # <<>> => \A k \in Calls : \A x : In(ResCh'[k], x) => In(ResCh[k], x)
  BY <1>0, TakeType
<1>1. CASE Begin(h)
  <2>1. CallsGoOn
    BY <1>1, <1>g, <1>r, <1>n DEF Begin, Return, RegInv, ResultInv
  <2> QED  BY <1>0, <1>1, <2>1, RegQuiet DEF Begin
<1>2. CASE Register(h)
  <2>1. /\ RpcMap' = [RpcMap EXCEPT ![Id(h)] = h] /\ UNCHANGED <<ResCh, resOpen, result>>
        /\ call' = [call EXCEPT ![h] = "send"] /\ call[h] = "register"
        /\ \A k \in Calls \ {h} : ctx'[k] = ctx[k]
    BY <1>0, <1>2 DEF Register, registerRpc, GoTo
  <2>2. RpcMap'[Id(h)] = h /\ \A k \in Ids \ {Id(h)} : RpcMap'[k] = RpcMap[k]
    BY <1>0, <2>1 DEF TypeOK
  <2>3. call'[h] = "send" /\ \A k \in Calls \ {h} : call'[k] = call[k]
    BY <1>0, <2>1
  <2>4. resOpen[h] /\ result[h] = "none"
    BY <2>1 DEF RegInv, NewInv, ResultInv
  <2>5. RegisteredIsOpen'
    BY <2>1, <2>2, <2>4 DEF RegInv, RegisteredIsOpen
  <2>6. NewInv'
    BY <2>1, <2>2, <2>3 DEF RegInv, NewInv
  <2>7. ErrorInv' /\ ResultInv'
    BY <2>1, <2>3 DEF RegInv, ErrorInv, ResultInv
  <2>8. GoneInv'
    <3> SUFFICES ASSUME NEW k \in Calls, Ending(k)' PROVE RpcMap'[k] = Nobody
      BY DEF GoneInv
    <3>1. k # h /\ k \notin Commands
      BY <2>3 DEF Ending
    <3>2. Ending(k)
      BY <2>1, <2>3, <3>1 DEF Ending, Left
    <3>3. k \in Ids \ {Id(h)}
      BY <1>0, <3>1, IdFacts DEF Ids
    <3> QED  BY <2>2, <3>2, <3>3 DEF RegInv, GoneInv
  <2> QED  BY <2>5, <2>6, <2>7, <2>8 DEF RegInv
<1>3. CASE SendRequest(h)
  <2>1. CASE h \in Commands
    BY <1>0, <1>3, <1>c, <1>f, <2>1, RegQuiet DEF SendRequest, Finalize, CallsGoOn
  <2>2. CASE h \notin Commands
    BY <1>0, <1>3, <1>g, <2>2, RegQuiet DEF SendRequest, RegInv, ResultInv
  <2> QED  BY <2>1, <2>2
<1>4. CASE SendTimesOut(h)
  BY <1>0, <1>4, <1>c, <1>f, RegQuiet DEF SendTimesOut, Finalize, CallsGoOn
<1>5. CASE SendPanics(h)
  BY <1>0, <1>5, <1>r, RegQuiet DEF SendPanics, Return
<1>6. CASE NextResponse(h)
  <2>1. PICK res : Finalize(h, res)
    BY <1>6 DEF NextResponse
  <2>2. CallsGoOn /\ ctx' = CtxCanceled(h)
    BY <1>6, <1>f, <2>1 DEF NextResponse, Finalize
  <2>3. \A k \in Calls : \A x : In(ResCh'[k], x) => In(ResCh[k], x)
    BY <1>6, <1>t DEF NextResponse
  <2> QED  BY <1>0, <1>6, <1>c, <2>2, <2>3, RegQuiet DEF NextResponse, CallsGoOn
<1>7. CASE ReadStream(h)
  <2>0. Head(ResCh[h]) = TimeoutError => ~resOpen[h] /\ RpcMap[h] = Nobody
    <3>1. Head(ResCh[h]) = TimeoutError => ~resOpen[h]
      BY <1>0, <1>7, TakeType DEF ReadStream, RegInv, ErrorInv
    <3>2. h \notin Commands
      BY <1>7, CallsAssumption DEF ReadStream
    <3> QED  BY <1>n, <3>1, <3>2
  <2>1. PICK res \in {"none", "timeout", "failed", "unreadable"} :
           ToDeliver(h, res) /\ (res = "timeout" => Head(ResCh[h]) = TimeoutError)
    BY <1>7 DEF ReadStream
  <2>2. CallsGoOn
    BY <1>7, <1>d, <2>0, <2>1 DEF ReadStream
  <2> QED  BY <1>0, <1>7, <1>t, <2>2, RegQuiet DEF ReadStream
<1>8. CASE PollStream(h)
  <2>0. h \in Streams \/ h \notin Streams
    OBVIOUS
  <2>1. result[h] = "none"
    BY <1>8 DEF PollStream, RegInv, ResultInv
  <2>2. CallsGoOn
    BY <1>8, <1>g, <1>n, <1>r, <2>1 DEF PollStream, Return
  <2> QED  BY <1>0, <1>8, <2>2, RegQuiet DEF PollStream
<1>9. CASE StreamClosed(h)
  <2>1. h \in Streams /\ h \notin Commands
    BY <1>9, CallsAssumption DEF StreamClosed
  <2>2. CallsGoOn
    BY <1>9, <1>n, <1>d, <2>1 DEF StreamClosed, Closed
  <2> QED  BY <1>0, <1>9, <2>2, RegQuiet DEF StreamClosed
<1>11. CASE Deliver(h)
  <2>1. /\ call[h] = "deliver" /\ h \in Streams /\ h \notin Commands
        /\ result[h] \in {"none", "timeout", "closed", "failed", "unreadable"}
    BY <1>11, CallsAssumption DEF Deliver, RegInv, ResultInv
  <2>2. result[h] \in {"timeout", "closed"} => RpcMap[h] = Nobody
    BY <2>1 DEF RegInv, GoneInv, Ending
  <2>3. CallsGoOn
    <3>1. CASE result[h] = "none"
      BY <1>11, <1>g, <2>1, <3>1 DEF Deliver
    <3>2. CASE result[h] # "none"
      BY <1>11, <1>e, <1>o, <2>1, <2>2, <3>2 DEF Deliver, GoTo
    <3> QED  BY <3>1, <3>2
  <2> QED  BY <1>0, <1>11, <2>3, RegQuiet DEF Deliver
<1>10. CASE Unregister(h)
  <2>1. RpcMap' = [RpcMap EXCEPT ![Id(h)] = Nobody]
    BY <1>0, <1>10, Unregistered DEF Unregister
  <2>2. RpcMap'[Id(h)] = Nobody /\ \A k \in Ids : RpcMap[k] = Nobody => RpcMap'[k] = Nobody
    BY <1>0, <2>1 DEF TypeOK
  <2>3. call' = [call EXCEPT ![h] = "returned"] /\ result' = result
    BY <1>10 DEF Unregister, GoTo
  <2>5. \A k \in Calls : RpcMap[k] = Nobody => RpcMap'[k] = Nobody
    BY <1>0, <2>1, <2>2 DEF TypeOK
  <2>6. h \notin Commands => RpcMap'[h] = Nobody
    BY <2>2, IdFacts
  <2>4. CallsGoOn
    BY <1>e, <1>o, <2>3, <2>5, <2>6
  <2> QED  BY <1>0, <1>10, <2>4, RegUnregister DEF Unregister
<1> QED  BY <1>1, <1>2, <1>3, <1>4, <1>5, <1>6, <1>7, <1>8, <1>9, <1>10, <1>11 DEF CallStep

LEMMA RegOtherStep ==
    ASSUME TypeInv, RegInv,
           \/ \E h \in Calls : Watch(h) \/ Expire(h) \/ PeerRespond(h)
           \/ \E h \in Streams : SendCancel(h) \/ CancelUnregister(h) \/ ReaderTakes(h)
           \/ PeerReceive \/ CloseInput
    PROVE  RegInv'
<1> USE DEF rpcVars, callVars
<1>0. /\ TypeOK /\ ctx \in [Calls -> CtxStates]
  BY TypeParts DEF TypeInv, RpcTypes
<1>s. UNCHANGED <<call, result, RpcMap>> => CallsGoOn
  BY <1>0, CallsSame
<1>1. ASSUME NEW h \in Calls, Watch(h) PROVE RegInv'
  BY <1>0, <1>1, <1>s, RegQuiet DEF Watch
<1>2. ASSUME NEW h \in Calls, Expire(h) PROVE RegInv'
  <2>1. \A k \in Calls : call[k] \in {"idle", "register"} => ctx'[k] = ctx[k]
    BY <1>0, <1>2 DEF Expire, RegInv, NewInv
  <2> QED  BY <1>0, <1>2, <1>s, <2>1, RegQuiet DEF Expire
<1>3. ASSUME NEW h \in Calls, PeerRespond(h) PROVE RegInv'
  BY <1>0, <1>3, <1>s, RegQuiet DEF PeerRespond
<1>4. ASSUME NEW h \in Streams, SendCancel(h) PROVE RegInv'
  <2>1. \A k \in Calls : call[k] \in {"idle", "register"} => ctx'[k] = ctx[k]
    BY <1>0, <1>4 DEF SendCancel, CtxCanceled, RegInv, NewInv
  <2> QED  BY <1>0, <1>4, <1>s, <2>1, RegQuiet DEF SendCancel
<1>5. ASSUME NEW h \in Streams, CancelUnregister(h) PROVE RegInv'
  <2>1. h \in Ids  BY DEF Ids
  <2>2. \A id \in Ids : RpcMap'[id] \in {RpcMap[id], Nobody}
    BY ZenonT(60), <1>0, <1>5, <2>1, Unregistered DEF CancelUnregister, TypeOK
  <2> QED  BY <1>0, <1>5, <2>1, <2>2, CallsSame, RegUnregister DEF CancelUnregister
<1>6. CASE PeerReceive
  BY <1>0, <1>6, <1>s, RegQuiet DEF PeerReceive
<1>7. CASE CloseInput
  BY <1>0, <1>7, <1>s, RegQuiet DEF CloseInput
<1>8. ASSUME NEW h \in Streams, ReaderTakes(h) PROVE RegInv'
  BY <1>0, <1>8, <1>s, RegQuiet DEF ReaderTakes
<1> QED  BY <1>1, <1>2, <1>3, <1>4, <1>5, <1>6, <1>7, <1>8

LEMMA RegServerStep ==
    ASSUME TypeInv, RegInv, ServerStep
    PROVE  RegInv'
<1> USE DEF rpcVars, callVars
<1>0. /\ TypeOK /\ ServerTypes /\ CtxDoneTypes /\ ResCh \in [Calls -> Seq(0 .. MaxResponses)]
  BY TypeParts DEF TypeInv, RpcTypes
<1>s. UNCHANGED <<call, result, RpcMap>> => CallsGoOn
  BY <1>0, CallsSame
<1>m. server.pc \in {"send", "blocked", "finish"} =>
        /\ server.msg.to \in Calls /\ server.msg.to \in Ids
        /\ server.msg.n \in 0 .. MaxResponses /\ server.msg.n # TimeoutError
  BY <1>0, Sizes DEF ServerTypes, Responses, Calls, Ids, TimeoutError
<1>u. ASSUME NEW id \in Ids, NEW err \in BOOLEAN, unregisterRpc(id, err), UNCHANGED callVars
      PROVE  RegInv'
  <2>1. \A k \in Ids : RpcMap'[k] \in {RpcMap[k], Nobody}
    BY <1>0, <1>u, Unregistered DEF TypeOK
  <2> QED  BY <1>0, <1>u, <2>1, CallsSame, RegUnregister
<1>1. CASE ServerReceive
  BY <1>0, <1>1, <1>s, RegQuiet DEF ServerReceive
<1>2. CASE ServerTimeout
  <2>1. Head(CtxDoneCh) \in Ids
    BY <1>0, <1>2, TailFacts DEF ServerTimeout, CtxDoneTypes
  <2> QED  BY <1>2, <1>u, <2>1 DEF ServerTimeout
<1>3. CASE ServerSend
  <2>1. \A h \in Calls : In(ResCh'[h], TimeoutError) => In(ResCh[h], TimeoutError)
    <3>1. CASE ResCh' = [ResCh EXCEPT ![server.msg.to] = Append(@, server.msg.n)]
      <4>1. \A x : In(Append(ResCh[server.msg.to], server.msg.n), x) <=>
                     In(ResCh[server.msg.to], x) \/ x = server.msg.n
        <5>1. server.msg.n \in 0 .. MaxResponses /\ ResCh[server.msg.to] \in Seq(0 .. MaxResponses)
          BY <1>0, <1>3, <1>m DEF ServerSend
        <5>2. ASSUME NEW q \in Seq(0 .. MaxResponses), NEW n \in 0 .. MaxResponses
              PROVE  \A x : In(Append(q, n), x) <=> In(q, x) \/ x = n
          BY AppendFacts
        <5> QED  BY <5>1, <5>2
      <4> QED  BY <1>0, <1>3, <1>m, <3>1, <4>1 DEF ServerSend
    <3> QED  BY <1>3, <3>1 DEF ServerSend
  <2> QED  BY <1>0, <1>3, <1>s, <2>1, RegQuiet DEF ServerSend
<1>4. CASE ServerGiveUp
  BY <1>4, <1>m, <1>u DEF ServerGiveUp
<1>5. CASE ServerFinish
  BY <1>5, <1>m, <1>u DEF ServerFinish
<1>6. CASE ServerInputClosed
  BY <1>0, <1>6, <1>s, RegQuiet DEF ServerInputClosed
<1>7. CASE ServerCloseOutput
  BY <1>0, <1>7, <1>s, RegQuiet DEF ServerCloseOutput
<1>8. CASE setServerDone
  BY <1>0, <1>8, <1>s, RegQuiet DEF setServerDone
<1> QED  BY <1>1, <1>2, <1>3, <1>4, <1>5, <1>6, <1>7, <1>8 DEF ServerStep

LEMMA RegStep == TypeInv /\ RegInv /\ [Next]_vars => RegInv'
<1> SUFFICES ASSUME TypeInv, RegInv, [Next]_vars PROVE RegInv'
  OBVIOUS
<1>1. CASE UNCHANGED vars
  <2>1. CallsGoOn
    BY <1>1, CallsSame DEF vars, rpcVars, callVars, TypeInv
  <2> QED  BY <1>1, <2>1, RegQuiet DEF vars, rpcVars, callVars, TypeInv
<1>2. CASE Next
  BY <1>2, RegCallStep, RegOtherStep, RegServerStep DEF Next
<1> QED  BY <1>1, <1>2

-----------------------------------------------------------------------------
(* Timeouts.                                                               *)

Own      == Requests \cup Streams
Begun(h) == call[h] \notin {"idle", "register", "send"}
Sent(h)  == Begun(h) /\ result[h] \notin {"unsent", "refused", "nil"}

\* A request is known outside the call only after it was sent.
Incoming(h) == \E m \in Responses : In(InputCh, m) /\ m.to = h
KnownInv ==
    \A h \in Own :
        In(OutputCh, <<"request", h>>) \/ peer[h].has \/ Incoming(h) \/ Holds(h) => Sent(h)

\* The right to fail a call with a timeout.
Earned(h) == ctx[h] = "expired" \/ (h \in Streams /\ cancel[h] # "none")

\* How that right gets from the context to the error message: runServer is told of contexts that are
\* over; one that is over before its deadline belongs to a call that is canceled or on its way out.
DoneInv     == \A h \in Own : In(CtxDoneCh, h) => ctx[h] \in {"expired", "canceled"}
CanceledInv == \A h \in Own : ctx[h] = "canceled" =>
                   Earned(h) \/ (Begun(h) /\ (RpcMap[h] = Nobody \/ call[h] = "unregister"))
MessageInv  == \A h \in Own : In(ResCh[h], TimeoutError) =>
                   Earned(h) \/ call[h] \in {"unregister", "returned"}
TimeoutInv  == DoneInv /\ CanceledInv /\ MessageInv /\ TimeoutIsEarned

LEMMA OwnFacts ==
    /\ Own = Calls \ Commands /\ Own \subseteq Ids /\ Own \subseteq Calls /\ Streams \subseteq Own
    /\ NoId \notin Own /\ Nobody \notin Own
    /\ \A h \in Calls : (h \in Own => Id(h) = h) /\ (h \notin Own => Id(h) = NoId)
  BY CallsAssumption DEF Own, Calls, Ids, Id

LEMMA TimeoutInit == Init => KnownInv /\ TimeoutInv
<1> SUFFICES ASSUME Init PROVE KnownInv /\ TimeoutInv
  OBVIOUS
<1>1. \A x : ~In(<<>>, x)
  BY EmptySeq DEF In
<1> QED  BY <1>1, OwnFacts DEF Init, KnownInv, Incoming, Holds, TimeoutInv, DoneInv, CanceledInv, MessageInv,
         TimeoutIsEarned

\* A call that has sent its request has sent it for ever.
LEMMA BegunStays ==
    ASSUME TypeInv, [Next]_vars
    PROVE  \A k \in Calls : (Begun(k) => Begun(k)') /\ (Sent(k) => Sent(k)')
<1> USE DEF Sent
<1>0. call \in [Calls -> CallStates] /\ result \in [Calls -> Results]
  BY TypeParts DEF TypeInv, CallTypes
<1>1. ASSUME NEW h \in Calls, CallStep(h)
      PROVE  \A k \in Calls : (Begun(k) => Begun(k)') /\ (Sent(k) => Sent(k)')
  <2>1. CASE Begin(h) \/ Register(h)
    BY <1>0, <2>1 DEF Begun, Begin, Register, GoTo, Return
  <2>2. CASE SendRequest(h) \/ SendTimesOut(h) \/ SendPanics(h)
    BY <1>0, <2>2 DEF Begun, SendRequest, SendTimesOut, SendPanics, GoTo, Return, Finalize
  <2>3. CASE NextResponse(h) \/ PollStream(h) \/ Unregister(h)
    BY <1>0, <2>3 DEF Begun, NextResponse, PollStream, Unregister, GoTo, Return, Finalize
  <2>4. CASE ReadStream(h) \/ StreamClosed(h) \/ Deliver(h)
    BY <1>0, <2>4 DEF Begun, ReadStream, StreamClosed, Deliver, GoTo, ToDeliver
  <2> QED  BY <1>1, <2>1, <2>2, <2>3, <2>4 DEF CallStep
<1>2. CASE UNCHANGED <<call, result>>
  BY <1>2 DEF Begun
<1>3. ServerStep => UNCHANGED <<call, result>>
  BY DEF ServerStep, ServerReceive, ServerTimeout, ServerSend, ServerGiveUp, ServerFinish, ServerInputClosed,
     ServerCloseOutput, setServerDone, callVars
<1>4. (\E h \in Calls : Watch(h) \/ Expire(h) \/ PeerRespond(h)) => UNCHANGED <<call, result>>
  BY DEF Watch, Expire, PeerRespond, callVars
<1>5. \/ \E h \in Streams : SendCancel(h) \/ CancelUnregister(h) \/ ReaderTakes(h)
      \/ PeerReceive \/ CloseInput \/ UNCHANGED vars
      => UNCHANGED <<call, result>>
  BY DEF SendCancel, CancelUnregister, ReaderTakes, PeerReceive, CloseInput, vars, callVars
<1> QED  BY <1>1, <1>2, <1>3, <1>4, <1>5 DEF Next

LEMMA KnownStep ==
    ASSUME TypeInv, RegInv, KnownInv, [Next]_vars
    PROVE  KnownInv'
<1> USE DEF inputVars, serverVars
<1>0. /\ ServerTypes /\ InputTypes /\ OutputTypes /\ \A h \in Own : Sent(h) => Sent(h)'
  BY TypeParts, BegunStays, OwnFacts
\* What knows of a request afterwards knew of it before, or the call has sent it.
<1>k. ASSUME \A h \in Own : In(OutputCh, <<"request", h>>)' => In(OutputCh, <<"request", h>>) \/ Sent(h)',
             \A h \in Own : peer'[h].has => peer[h].has \/ Sent(h),
             \A h \in Own : Incoming(h)' => Incoming(h) \/ Sent(h),
             \A h \in Own : Holds(h)' => Holds(h) \/ Sent(h)
      PROVE  KnownInv'
  BY <1>0, <1>k DEF KnownInv
<1>i. UNCHANGED InputCh => \A h \in Own : Incoming(h)' => Incoming(h)
  BY DEF Incoming
<1>h. UNCHANGED server => \A h \in Own : Holds(h)' => Holds(h)
  BY DEF Holds
<1>o. UNCHANGED OutputCh => \A h \in Own : In(OutputCh, <<"request", h>>)' => In(OutputCh, <<"request", h>>)
  BY DEF In
<1>1. ASSUME NEW h \in Calls, SendRequest(h) PROVE KnownInv'
  <2>1. <<"request", Id(h)>> \in {"request", "cancel"} \X Ids
    BY IdFacts
  <2>2. \A x : In(OutputCh', x) <=> In(OutputCh, x) \/ x = <<"request", Id(h)>>
    BY <1>0, <1>1, <2>1, AppendFacts DEF SendRequest, OutputTypes
  <2>3. h \in Own => call' = [call EXCEPT ![h] = "read"] \/ call' = [call EXCEPT ![h] = "poll"]
    BY <1>1, OwnFacts DEF SendRequest, GoTo
  <2>4. h \in Own => Sent(h)'
    <3>1. h \in Own => result[h] = "none" /\ result'[h] = "none"
      BY <1>1, OwnFacts DEF SendRequest, RegInv, ResultInv
    <3> QED  BY <2>3, <3>1, TypeParts DEF Sent, Begun, CallTypes, TypeInv
  <2>5. \A k \in Own : In(OutputCh', <<"request", k>>) => In(OutputCh, <<"request", k>>) \/ Sent(k)'
    BY <2>2, <2>4, OwnFacts
  <2>6. \A k \in Own : In(OutputCh, <<"request", k>>)' <=> In(OutputCh', <<"request", k>>)
    BY DEF In
  <2> QED  BY <1>1, <1>k, <1>i, <1>h, <2>5, <2>6 DEF SendRequest
<1>2. ASSUME NEW h \in Calls, PeerRespond(h) PROVE KnownInv'
  <2>1. PICK m \in Responses : m.to = h /\ InputCh' = Append(InputCh, m)
    BY <1>2, ResponseFacts DEF Response
  <2>2. \A x : In(InputCh', x) <=> In(InputCh, x) \/ x = m
    BY <1>0, <2>1, AppendFacts DEF InputTypes
  <2>3. h \in Own /\ peer[h].has
    BY <1>0, <1>2 DEF PeerRespond, InputTypes, Own
  <2>4. \A k \in Own : Incoming(k)' => Incoming(k) \/ k = h
    BY <2>1, <2>2 DEF Incoming, In
  <2>5. \A k \in Own : Incoming(k)' => Incoming(k) \/ Sent(k)
    BY <2>3, <2>4 DEF KnownInv
  <2>6. \A k \in Own : peer'[k].has => peer[k].has \/ Sent(k)
    <3>1. \A k \in Calls \ {h} : peer'[k] = peer[k]
      BY <1>0, <1>2, ResponseFacts DEF InputTypes
    <3> QED  BY <2>3, <3>1, OwnFacts DEF KnownInv
  <2> QED  BY <1>2, <1>k, <1>h, <1>o, <2>5, <2>6 DEF PeerRespond
<1>3. CASE PeerReceive
  <2>1. /\ \A x : In(Tail(OutputCh), x) => In(OutputCh, x)
        /\ In(OutputCh, Head(OutputCh)) /\ Head(OutputCh) \in {"request", "cancel"} \X Ids
    BY <1>0, <1>3, TailFacts DEF PeerReceive, OutputTypes
  <2>2. \A k \in Own : In(OutputCh, <<"request", k>>)' => In(OutputCh, <<"request", k>>)
    BY <1>3, <2>1 DEF PeerReceive, In
  <2>3. \A k \in Own : peer'[k].has => peer[k].has \/ Head(OutputCh) = <<"request", k>>
    <3>1. CASE Head(OutputCh)[1] = "request" /\ peer' = [peer EXCEPT ![Head(OutputCh)[2]].has = TRUE]
      <4>1. \A k \in Own : k # Head(OutputCh)[2] => peer'[k] = peer[k]
        BY <1>0, <3>1, OwnFacts DEF InputTypes
      <4>2. Head(OutputCh) = <<"request", Head(OutputCh)[2]>>
        BY <2>1, <3>1
      <4> QED  BY <4>1, <4>2
    <3>2. CASE UNCHANGED peer
      BY <3>2
    <3> QED  BY <1>3, <3>1, <3>2 DEF PeerReceive
  <2>4. \A k \in Own : peer'[k].has => peer[k].has \/ Sent(k)
    BY <2>1, <2>3 DEF KnownInv
  <2> QED  BY <1>3, <1>k, <1>h, <1>i, <2>2, <2>4 DEF PeerReceive
<1>4. ASSUME NEW h \in Streams, SendCancel(h) PROVE KnownInv'
  <2>1. <<"cancel", h>> \in {"request", "cancel"} \X Ids
    BY OwnFacts
  <2>2. \A k \in Own : In(OutputCh', <<"request", k>>) => In(OutputCh, <<"request", k>>)
    <3>1. CASE OutputCh' = Append(OutputCh, <<"cancel", h>>)
      <4>1. \A x : In(Append(OutputCh, <<"cancel", h>>), x) <=> In(OutputCh, x) \/ x = <<"cancel", h>>
        BY <1>0, <2>1, AppendFacts DEF OutputTypes
      <4> QED  BY <3>1, <4>1
    <3> QED  BY <1>4, <3>1 DEF SendCancel
  <2>3. \A k \in Own : In(OutputCh, <<"request", k>>)' <=> In(OutputCh', <<"request", k>>)
    BY DEF In
  <2> QED  BY <1>4, <1>k, <1>h, <1>i, <2>2, <2>3 DEF SendCancel
<1>5. CASE ServerReceive
  <2>1. /\ \A x : In(Tail(InputCh), x) => In(InputCh, x)
        /\ In(InputCh, Head(InputCh)) /\ Head(InputCh) \in Responses
    BY <1>0, <1>5, TailFacts DEF ServerReceive, InputTypes
  <2>2. \A k \in Own : Incoming(k)' => Incoming(k)
    BY <1>5, <2>1 DEF ServerReceive, Incoming, In
  <2>3. \A k \in Own : Holds(k)' => Holds(k) \/ Incoming(k)
    BY <1>5, <2>1 DEF ServerReceive, Holds, Incoming
  <2> QED  BY <1>5, <1>k, <1>o, <2>2, <2>3 DEF ServerReceive, KnownInv
<1>6. CASE ServerStep /\ ~ServerReceive /\ ~setServerDone
  <2>1. UNCHANGED <<InputCh, OutputCh, peer>>
    BY <1>6 DEF ServerStep, ServerTimeout, ServerSend, ServerGiveUp, ServerFinish, ServerInputClosed, ServerCloseOutput
  <2>2. \A k \in Own : Holds(k)' => Holds(k)
    BY <1>0, <1>6 DEF ServerTypes, Holds, ServerAt, Delivered,
       ServerStep, ServerTimeout, ServerSend, ServerGiveUp, ServerFinish, ServerInputClosed, ServerCloseOutput
  <2> QED  BY <1>k, <1>i, <1>o, <2>1, <2>2
<1>7. CASE setServerDone
  <2>1. \A k \in Own : ~Incoming(k)' /\ ~Holds(k)'
    <3>1. server'.pc = "done" /\ Len(InputCh') = 0
      BY <1>0, <1>7, EmptySeq DEF setServerDone, ServerAt, ServerTypes
    <3> QED  BY <3>1 DEF Incoming, In, Holds
  <2> QED  BY <1>7, <1>k, <1>o, <2>1 DEF setServerDone
<1>8. CASE UNCHANGED <<InputCh, OutputCh, peer, server>>
  BY <1>8, <1>k, <1>i, <1>h, <1>o
<1>9. ASSUME NEW h \in Calls, CallStep(h), ~SendRequest(h) PROVE UNCHANGED <<InputCh, OutputCh, peer, server>>
  BY <1>9 DEF CallStep, Begin, Register, SendTimesOut, SendPanics, NextResponse, ReadStream, Deliver, PollStream,
     StreamClosed, Unregister
<1>10. \/ \E h \in Calls : Watch(h) \/ Expire(h)
       \/ \E h \in Streams : CancelUnregister(h) \/ ReaderTakes(h)
       \/ CloseInput \/ UNCHANGED vars
       => UNCHANGED <<InputCh, OutputCh, peer, server>>
  BY DEF Watch, Expire, CancelUnregister, ReaderTakes, CloseInput, vars
<1> QED  BY <1>1, <1>2, <1>3, <1>4, <1>5, <1>6, <1>7, <1>8, <1>9, <1>10 DEF Next

\* What stays as it is once it has happened to a call.
Stays(h) ==
    /\ Begun(h) => Begun(h)'
    /\ Earned(h) => Earned(h)'
    /\ ctx[h] \in {"expired", "canceled"} => ctx'[h] = ctx[h]
    /\ RpcMap[h] = Nobody /\ Begun(h) => RpcMap'[h] = Nobody
    /\ call[h] = "unregister" => call'[h] = "unregister" \/ RpcMap'[h] = Nobody
    /\ call[h] \in {"unregister", "returned"} => call'[h] \in {"unregister", "returned"}

\* unregisterRpc seen from a call with an id of its own.
LEMMA OwnUnregistered ==
    ASSUME TypeOK, RegInv, NEW id \in Ids, NEW err \in BOOLEAN, unregisterRpc(id, err), NEW h \in Own
    PROVE  /\ RpcMap'[h] = IF h = id THEN Nobody ELSE RpcMap[h]
           /\ h # id \/ RpcMap[h] = Nobody => ctx'[h] = ctx[h] /\ ResCh'[h] = ResCh[h]
           /\ h = id /\ RpcMap[h] # Nobody =>
                /\ ctx'[h] = IF ctx[h] = "live" THEN "canceled" ELSE ctx[h]
                /\ ~err => ResCh'[h] = ResCh[h]
                /\ In(ResCh'[h], TimeoutError) => err \/ In(ResCh[h], TimeoutError)
<1>0. h \in Calls /\ h \in Ids /\ Id(h) = h /\ h # Nobody
  BY OwnFacts
<1>1. RpcMap' = [RpcMap EXCEPT ![id] = Nobody]
  BY Unregistered
<1>2. /\ RpcMap[id] # h => ResCh'[h] = ResCh[h] /\ ctx'[h] = ctx[h]
      /\ RpcMap[id] = h => /\ ctx'[h] = IF ctx[h] = "live" THEN "canceled" ELSE ctx[h]
                           /\ ResCh'[h] # ResCh[h] => err
  BY <1>0, Unregistered
<1>3. RpcMap[id] = h => id = h
  BY <1>0 DEF RegInv, RegisteredIsOpen
<1>4. RpcMap[h] # Nobody => RpcMap[h] = h
  BY <1>0, OwnFacts, RegisteredSelf DEF RegInv
<1>5. RpcMap'[h] = IF h = id THEN Nobody ELSE RpcMap[h]
  BY <1>0, <1>1 DEF TypeOK
<1> QED  BY <1>0, <1>2, <1>3, <1>4, <1>5

LEMMA UnregisterStays ==
    ASSUME TypeOK, RegInv, NEW id \in Ids, NEW err \in BOOLEAN, unregisterRpc(id, err),
           UNCHANGED call, NEW h \in Own, cancel'[h] = cancel[h] \/ cancel'[h] # "none"
    PROVE  Stays(h)
<1>1. /\ RpcMap'[h] = IF h = id THEN Nobody ELSE RpcMap[h]
      /\ ctx[h] # "live" => ctx'[h] = ctx[h]
  BY OwnUnregistered
<1> QED  BY <1>1 DEF Stays, Begun, Earned

LEMMA Monotone ==
    ASSUME TypeInv, RegInv, [Next]_vars
    PROVE  \A h \in Own : Stays(h)
<1> SUFFICES ASSUME NEW h \in Own PROVE Stays(h)
  OBVIOUS
<1> USE DEF rpcVars, callVars
<1>0. /\ TypeOK /\ RpcTypes /\ CallTypes /\ ServerTypes /\ CtxDoneTypes
      /\ h \in Calls /\ h \in Ids /\ Id(h) = h /\ h # Nobody
      /\ Begun(h) => Begun(h)'
  BY TypeParts, OwnFacts, BegunStays DEF TypeInv
<1>1. ASSUME UNCHANGED <<RpcMap, call>>, ctx[h] # "live" => ctx'[h] = ctx[h],
             h \in Streams /\ cancel[h] # "none" => cancel'[h] # "none"
      PROVE  Stays(h)
  BY <1>1 DEF Stays, Begun, Earned
<1>2. ASSUME NEW k \in Calls, CallStep(k) PROVE Stays(h)
  <2>1. CASE Register(k)
    <3>1. k # h => ctx'[h] = ctx[h] /\ RpcMap'[h] = RpcMap[h] /\ call'[h] = call[h]
      <4>1. k # h => Id(k) # h
        BY <1>0, IdFacts, OwnFacts
      <4> QED  BY <1>0, <2>1, <4>1 DEF Register, registerRpc, GoTo, RpcTypes, CallTypes
    <3>2. k = h => ctx[h] = "none" /\ ~Begun(h) /\ call[h] = "register"
      BY <2>1 DEF Register, RegInv, NewInv, Begun
    <3>3. UNCHANGED cancel
      BY <2>1 DEF Register
    <3> QED  BY <3>1, <3>2, <3>3 DEF Stays, Earned, Begun
  <2>2. CASE Unregister(k)
    <3>1. Id(k) \in Ids /\ unregisterRpc(Id(k), FALSE) /\ UNCHANGED cancel
      BY <2>2, IdFacts DEF Unregister
    <3>2. /\ RpcMap'[h] = IF h = Id(k) THEN Nobody ELSE RpcMap[h]
          /\ ctx[h] # "live" => ctx'[h] = ctx[h]
      BY <1>0, <3>1, OwnUnregistered
    <3>3. call'[h] = IF h = k THEN "returned" ELSE call[h]
      BY <1>0, <2>2 DEF Unregister, GoTo, CallTypes
    <3> QED  BY <1>0, <3>1, <3>2, <3>3 DEF Stays, Earned
  <2>3. CASE ~Register(k) /\ ~Unregister(k)
    <3>1. UNCHANGED <<RpcMap, cancel>>
      BY <1>2, <2>3 DEF CallStep, Begin, SendRequest, SendTimesOut, SendPanics, NextResponse, ReadStream,
         Deliver, PollStream, StreamClosed
    <3>2. ctx[h] # "live" => ctx'[h] = ctx[h]
      BY <1>0, <1>2, <2>3 DEF CallStep, Begin, SendRequest, SendTimesOut, SendPanics, NextResponse, ReadStream,
         Deliver, PollStream, StreamClosed, Finalize, CtxCanceled, RpcTypes
    <3>3. call[h] \in {"unregister", "returned"} => call'[h] = call[h]
      BY <1>0, <1>2, <2>3 DEF CallStep, Begin, SendRequest, SendTimesOut, SendPanics, NextResponse, ReadStream,
         Deliver, PollStream, StreamClosed, Finalize, Return, ToDeliver, GoTo, CallTypes
    <3> QED  BY <1>0, <3>1, <3>2, <3>3 DEF Stays, Earned
  <2> QED  BY <2>1, <2>2, <2>3
<1>3. ASSUME NEW k \in Calls, Watch(k) \/ Expire(k) \/ PeerRespond(k) PROVE Stays(h)
  BY <1>0, <1>1, <1>3 DEF Watch, Expire, PeerRespond, RpcTypes
<1>4. ASSUME NEW k \in Streams, SendCancel(k) PROVE Stays(h)
  BY <1>0, <1>1, <1>4 DEF SendCancel, CtxCanceled, RpcTypes, CallTypes
<1>9. ASSUME NEW k \in Streams, ReaderTakes(k) PROVE Stays(h)
  BY <1>1, <1>9 DEF ReaderTakes
<1>5. ASSUME NEW k \in Streams, CancelUnregister(k) PROVE Stays(h)
  <2>1. k \in Ids /\ unregisterRpc(k, FALSE) /\ UNCHANGED call
    BY <1>5 DEF CancelUnregister, Ids
  <2>2. h \in Streams => cancel'[h] = cancel[h] \/ cancel'[h] # "none"
    BY <1>0, <1>5 DEF CancelUnregister, CallTypes
  <2>3. /\ RpcMap'[h] = IF h = k THEN Nobody ELSE RpcMap[h]
        /\ ctx[h] # "live" => ctx'[h] = ctx[h]
    BY <1>0, <2>1, OwnUnregistered
  <2> QED  BY <1>0, <2>1, <2>2, <2>3 DEF Stays, Earned
<1>6. CASE ServerTimeout \/ ServerGiveUp \/ ServerFinish
  <2>1. PICK id \in Ids, err \in BOOLEAN : unregisterRpc(id, err)
    <3>1. ServerTimeout => Head(CtxDoneCh) \in Ids
      BY <1>0, TailFacts DEF ServerTimeout, CtxDoneTypes
    <3>2. ServerGiveUp \/ ServerFinish => server.msg.to \in Ids
      BY <1>0 DEF ServerGiveUp, ServerFinish, ServerTypes, Responses, Ids
    <3> QED  BY <1>6, <3>1, <3>2 DEF ServerTimeout, ServerGiveUp, ServerFinish
  <2>2. UNCHANGED <<call, cancel>>
    BY <1>6 DEF ServerTimeout, ServerGiveUp, ServerFinish
  <2> QED  BY <1>0, <2>1, <2>2, UnregisterStays
<1>7. CASE ServerStep /\ ~(ServerTimeout \/ ServerGiveUp \/ ServerFinish)
  BY <1>1, <1>7 DEF ServerStep, ServerReceive, ServerSend, ServerInputClosed, ServerCloseOutput, setServerDone
<1>8. CASE PeerReceive \/ CloseInput \/ UNCHANGED vars
  BY <1>1, <1>8 DEF PeerReceive, CloseInput, vars
<1> QED  BY <1>2, <1>3, <1>4, <1>5, <1>6, <1>7, <1>8, <1>9 DEF Next

LEMMA TimeoutStep ==
    ASSUME TypeInv, RegInv, KnownInv, TimeoutInv, [Next]_vars
    PROVE  TimeoutInv'
<1> USE DEF rpcVars, callVars
<1>0. /\ TypeOK /\ RpcTypes /\ CallTypes /\ ServerTypes /\ CtxDoneTypes
      /\ \A h \in Own : Stays(h) /\ h \in Calls /\ h \in Ids /\ Id(h) = h
  BY TypeParts, OwnFacts, Monotone DEF TypeInv
\* It is enough to look at what is new.
<1>n. ASSUME \A h \in Own : In(CtxDoneCh', h) => In(CtxDoneCh, h) \/ ctx[h] \in {"expired", "canceled"},
             \A h \in Own : ctx'[h] = "canceled" /\ ctx[h] # "canceled" =>
                 Earned(h)' \/ (Begun(h)' /\ (RpcMap'[h] = Nobody \/ call'[h] = "unregister")),
             \A h \in Own : In(ResCh'[h], TimeoutError) =>
                 In(ResCh[h], TimeoutError) \/ Earned(h)' \/ call'[h] \in {"unregister", "returned"},
             \A h \in Own : result'[h] \in {"unsent", "timeout"} =>
                 result[h] \in {"unsent", "timeout"} \/ Earned(h)'
      PROVE  TimeoutInv'
  <2>1. \A h \in Own : In(CtxDoneCh, h)' <=> In(CtxDoneCh', h)
    BY DEF In
  <2>2. \A h \in Own : In(ResCh[h], TimeoutError)' <=> In(ResCh'[h], TimeoutError)
    BY DEF In
  <2>3. DoneInv'
    BY <1>0, <1>n, <2>1 DEF TimeoutInv, DoneInv, Stays
  <2>4. CanceledInv'
    BY <1>0, <1>n DEF TimeoutInv, CanceledInv, Stays
  <2>5. MessageInv'
    BY <1>0, <1>n, <2>2 DEF TimeoutInv, MessageInv, Stays
  <2>6. TimeoutIsEarned'
    <3>1. \A h \in Own : result[h] \in {"unsent", "timeout"} => Earned(h)
      BY OwnFacts DEF TimeoutInv, TimeoutIsEarned, Earned
    <3>2. \A h \in Own : result'[h] \in {"unsent", "timeout"} => Earned(h)'
      BY <1>0, <1>n, <3>1 DEF Stays
    <3> QED  BY <3>2, OwnFacts DEF TimeoutIsEarned, Earned
  <2> QED  BY <2>3, <2>4, <2>5, <2>6 DEF TimeoutInv
\* A call that is failed with a timeout while it waits: its context is over, hence the right is earned.
<1>e. ASSUME NEW h \in Own, ctx[h] \in {"expired", "canceled"}, ~Begun(h) \/ RpcMap[h] # Nobody
      PROVE  Earned(h) \/ call[h] = "unregister"
  BY <1>e DEF TimeoutInv, CanceledInv, Earned
<1>1. ASSUME NEW k \in Calls, CallStep(k) PROVE TimeoutInv'
  <2>1. CASE Unregister(k)
    <3>1. Id(k) \in Ids /\ unregisterRpc(Id(k), FALSE)
      BY <2>1, IdFacts DEF Unregister
    <3>2. ASSUME NEW h \in Own PROVE
            /\ ctx'[h] = "canceled" /\ ctx[h] # "canceled" => RpcMap'[h] = Nobody /\ h = Id(k)
            /\ In(ResCh'[h], TimeoutError) => In(ResCh[h], TimeoutError)
      BY <1>0, <3>1, OwnUnregistered
    <3>3. \A h \in Own : h = Id(k) => Begun(h) /\ Begun(h)'
      <4>1. \A h \in Own : h = Id(k) => h = k
        BY OwnFacts
      <4>2. Begun(k)
        BY <2>1 DEF Unregister, Begun
      <4> QED  BY <1>0, <4>1, <4>2 DEF Stays
    <3> QED  BY <1>0, <1>n, <2>1, <3>2, <3>3 DEF Unregister
  <2>2. CASE Begin(k) \/ SendPanics(k) \/ Deliver(k) \/ PollStream(k) \/ StreamClosed(k)
    <3>1. /\ UNCHANGED <<CtxDoneCh, ctx, ResCh>>
          /\ \A h \in Own : result'[h] \in {"unsent", "timeout"} => result[h] \in {"unsent", "timeout"}
      BY <1>0, <2>2 DEF Begin, SendPanics, Deliver, PollStream, StreamClosed, Return, ToDeliver, GoTo, CallTypes
    <3> QED  BY <1>n, <3>1
  <2>3. CASE Register(k)
    BY <1>0, <1>n, <2>3 DEF Register, registerRpc, RpcTypes
  <2>4. CASE SendRequest(k)
    <3>1. \A h \in Own : ctx'[h] = ctx[h]
      BY <1>0, <2>4, OwnFacts DEF SendRequest, Finalize, CtxCanceled, RpcTypes
    <3>2. \A h \in Own : result'[h] = result[h]
      BY <1>0, <2>4, OwnFacts DEF SendRequest, Finalize, CallTypes
    <3> QED  BY <1>n, <2>4, <3>1, <3>2 DEF SendRequest
  <2>5. CASE SendTimesOut(k)
    <3>1. UNCHANGED ctx
      BY <1>0, <2>5 DEF SendTimesOut, Finalize, CtxCanceled, RpcTypes
    <3>2. k \in Own => Earned(k)
      BY <1>e, <2>5 DEF SendTimesOut, Begun
    <3>3. \A h \in Own : h # k => result'[h] = result[h]
      BY <1>0, <2>5 DEF SendTimesOut, Finalize, CallTypes
    <3> QED  BY <1>0, <1>n, <2>5, <3>1, <3>2, <3>3 DEF SendTimesOut, Stays
  <2>6. CASE NextResponse(k)
    <3>1. PICK res \in Results : Finalize(k, res) /\ (res = "timeout" => ResCh[k] # <<>> /\ Head(ResCh[k]) = TimeoutError)
                                   /\ res # "unsent"
      BY <2>6 DEF NextResponse, Results
    <3>2. k \in Own /\ call[k] = "read"
      BY <2>6 DEF NextResponse, Own
    <3>3. \A h \in Own : ctx'[h] = "canceled" /\ ctx[h] # "canceled" => h = k
      BY <1>0, <3>1 DEF Finalize, CtxCanceled, RpcTypes
    <3>4. call'[k] = "unregister"
      BY <1>0, <3>1, <3>2, OwnFacts DEF Finalize, GoTo, CallTypes
    <3>5. \A h \in Own : In(ResCh'[h], TimeoutError) => In(ResCh[h], TimeoutError)
      BY <1>0, <2>6, TakeType DEF NextResponse
    <3>6. res = "timeout" => Earned(k)
      <4>1. res = "timeout" => In(ResCh[k], TimeoutError)
        BY <1>0, <2>6, <3>1, <3>2, TailFacts DEF RpcTypes
      <4> QED  BY <3>2, <4>1 DEF TimeoutInv, MessageInv
    <3>7. \A h \in Own : result'[h] = IF h = k THEN res ELSE result[h]
      BY <1>0, <3>1 DEF Finalize, CallTypes
    <3>8. UNCHANGED CtxDoneCh /\ Begun(k)'
      BY <2>6, <3>4 DEF NextResponse, Begun
    <3>9. \A h \in Own : result'[h] \in {"unsent", "timeout"} => result[h] \in {"unsent", "timeout"} \/ Earned(h)'
      BY <1>0, <3>1, <3>6, <3>7 DEF Stays
    <3> QED  BY <1>n, <3>3, <3>4, <3>5, <3>8, <3>9
  <2>7. CASE ReadStream(k)
    <3>1. k \in Own /\ UNCHANGED <<ctx, CtxDoneCh>> /\ call[k] \in {"poll", "read"}
      BY <2>7, OwnFacts DEF ReadStream
    <3>2. \A h \in Own : In(ResCh'[h], TimeoutError) => In(ResCh[h], TimeoutError)
      BY <1>0, <2>7, TakeType DEF ReadStream
    <3>3. Head(ResCh[k]) = TimeoutError => Earned(k)
      <4>1. Head(ResCh[k]) = TimeoutError => In(ResCh[k], TimeoutError)
        BY <1>0, <2>7, <3>1, TailFacts DEF RpcTypes, ReadStream
      <4> QED  BY <3>1, <4>1 DEF TimeoutInv, MessageInv
    <3>4. \A h \in Own : result'[h] \in {"unsent", "timeout"} =>
             result[h] \in {"unsent", "timeout"} \/ (h = k /\ Head(ResCh[k]) = TimeoutError)
      BY <1>0, <2>7 DEF ReadStream, ToDeliver, CallTypes
    <3> QED  BY <1>0, <1>n, <3>1, <3>2, <3>3, <3>4 DEF Stays
  <2> QED  BY <1>1, <2>1, <2>2, <2>3, <2>4, <2>5, <2>6, <2>7 DEF CallStep
<1>2. ASSUME NEW k \in Calls, Watch(k) PROVE TimeoutInv'
  <2>1. \A x : In(CtxDoneCh', x) => In(CtxDoneCh, x) \/ x = Id(k)
    <3>1. Id(k) \in Ids /\ CtxDoneCh \in Seq(Ids)
      BY <1>0, IdFacts DEF CtxDoneTypes
    <3>2. \A x : In(Append(CtxDoneCh, Id(k)), x) <=> In(CtxDoneCh, x) \/ x = Id(k)
      BY <3>1, AppendFacts
    <3> QED  BY <1>2, <3>2 DEF Watch
  <2>2. \A h \in Own : h = Id(k) => h = k
    BY OwnFacts
  <2> QED  BY <1>2, <1>n, <2>1, <2>2 DEF Watch
<1>3. ASSUME NEW k \in Calls, Expire(k) PROVE TimeoutInv'
  BY <1>0, <1>3, <1>n DEF Expire, RpcTypes
<1>4. ASSUME NEW k \in Calls, PeerRespond(k) PROVE TimeoutInv'
  BY <1>4, <1>n DEF PeerRespond
<1>11. ASSUME NEW k \in Streams, ReaderTakes(k) PROVE TimeoutInv'
  BY <1>11, <1>n DEF ReaderTakes
<1>5. ASSUME NEW k \in Streams, SendCancel(k) PROVE TimeoutInv'
  <2>1. \A h \in Own : ctx'[h] # ctx[h] => h = k /\ cancel'[k] # "none"
    BY <1>0, <1>5 DEF SendCancel, CtxCanceled, RpcTypes, CallTypes
  <2> QED  BY <1>5, <1>n, <2>1 DEF SendCancel, Earned
<1>6. ASSUME NEW k \in Streams, CancelUnregister(k) PROVE TimeoutInv'
  <2>1. k \in Ids /\ unregisterRpc(k, FALSE)
    BY <1>6 DEF CancelUnregister, Ids
  <2>2. ASSUME NEW h \in Own PROVE
          /\ ctx'[h] # ctx[h] => h = k
          /\ In(ResCh'[h], TimeoutError) => In(ResCh[h], TimeoutError)
    BY <1>0, <2>1, OwnUnregistered
  <2>3. cancel'[k] # "none"
    BY <1>0, <1>6 DEF CancelUnregister, CallTypes
  <2> QED  BY <1>6, <1>n, <2>2, <2>3 DEF CancelUnregister, Earned
<1>7. CASE ServerTimeout
  <2>1. /\ Head(CtxDoneCh) \in Ids /\ In(CtxDoneCh, Head(CtxDoneCh))
        /\ \A x : In(Tail(CtxDoneCh), x) => In(CtxDoneCh, x)
    BY <1>0, <1>7, TailFacts DEF ServerTimeout, CtxDoneTypes
  <2>2. UNCHANGED <<call, result, cancel>> /\ CtxDoneCh' = Tail(CtxDoneCh)
    BY <1>7 DEF ServerTimeout
  <2>3. ASSUME NEW h \in Own
        PROVE  /\ ctx'[h] = ctx[h]
               /\ In(ResCh'[h], TimeoutError) =>
                    In(ResCh[h], TimeoutError) \/ Earned(h) \/ call[h] = "unregister"
    <3>1. unregisterRpc(Head(CtxDoneCh), TRUE)
      BY <1>7 DEF ServerTimeout
    <3>2. CASE h # Head(CtxDoneCh) \/ RpcMap[h] = Nobody
      BY <1>0, <2>1, <3>1, <3>2, OwnUnregistered
    <3>3. CASE h = Head(CtxDoneCh) /\ RpcMap[h] # Nobody
      <4>1. ctx[h] \in {"expired", "canceled"}
        BY <2>1, <3>3 DEF TimeoutInv, DoneInv
      <4>2. ctx'[h] = ctx[h]
        BY <1>0, <2>1, <3>1, <3>3, <4>1, OwnUnregistered
      <4> QED  BY <1>e, <3>3, <4>1, <4>2
    <3> QED  BY <3>2, <3>3
  <2> QED  BY <1>0, <1>n, <2>1, <2>2, <2>3 DEF Stays
<1>8. CASE ServerGiveUp \/ ServerFinish
  <2>1. server.msg.to \in Ids /\ unregisterRpc(server.msg.to, FALSE) /\ UNCHANGED <<CtxDoneCh, result>>
    BY <1>0, <1>8 DEF ServerGiveUp, ServerFinish, ServerTypes, Responses, Ids
  <2>2. ASSUME NEW h \in Own PROVE
          /\ ctx'[h] # ctx[h] => h = server.msg.to /\ RpcMap'[h] = Nobody
          /\ In(ResCh'[h], TimeoutError) => In(ResCh[h], TimeoutError)
    BY <1>0, <2>1, OwnUnregistered
  <2>3. \A h \in Own : h = server.msg.to => Begun(h)'
    BY <1>0, <1>8 DEF ServerGiveUp, ServerFinish, KnownInv, Holds, Sent, Stays
  <2> QED  BY <1>n, <2>1, <2>2, <2>3
<1>9. CASE ServerSend
  <2>1. \A h \in Own : In(ResCh'[h], TimeoutError) => In(ResCh[h], TimeoutError)
    <3>1. CASE ResCh' = [ResCh EXCEPT ![server.msg.to] = Append(@, server.msg.n)]
      <4>1. /\ server.msg.to \in Calls /\ server.msg.n \in 0 .. MaxResponses /\ server.msg.n # TimeoutError
            /\ ResCh[server.msg.to] \in Seq(0 .. MaxResponses)
        BY <1>0, <1>9, Sizes DEF ServerSend, ServerTypes, RpcTypes, Responses, Calls, TimeoutError
      <4>2. ASSUME NEW q \in Seq(0 .. MaxResponses), NEW n \in 0 .. MaxResponses
            PROVE  \A x : In(Append(q, n), x) <=> In(q, x) \/ x = n
        BY AppendFacts
      <4>3. \A h \in Own : ResCh'[h] = IF h = server.msg.to THEN Append(ResCh[h], server.msg.n) ELSE ResCh[h]
        BY <1>0, <3>1 DEF RpcTypes
      <4> QED  BY <4>1, <4>2, <4>3
    <3> QED  BY <1>9, <3>1 DEF ServerSend
  <2> QED  BY <1>9, <1>n, <2>1 DEF ServerSend
<1>10. CASE \/ ServerReceive \/ ServerInputClosed \/ ServerCloseOutput \/ setServerDone
            \/ PeerReceive \/ CloseInput \/ UNCHANGED vars
  BY <1>10, <1>n DEF ServerReceive, ServerInputClosed, ServerCloseOutput, setServerDone, PeerReceive, CloseInput, vars
<1> QED  BY <1>1, <1>2, <1>3, <1>4, <1>5, <1>6, <1>7, <1>8, <1>9, <1>10, <1>11 DEF Next, ServerStep

\* A call is failed with a timeout only after its own deadline, or when it is canceled: the deadline of
\* another call, an answer that is late or a channel that is full never does it.
THEOREM TimeoutsAreEarned == Spec => []TimeoutIsEarned
<1>1. TimeoutInv => TimeoutIsEarned
  BY DEF TimeoutInv
<1>2. Init => TypeInv /\ RegInv /\ KnownInv /\ TimeoutInv
  BY TypeInit, RegInit, TimeoutInit
<1>3. TypeInv /\ RegInv /\ KnownInv /\ TimeoutInv /\ [Next]_vars
        => TypeInv' /\ RegInv' /\ KnownInv' /\ TimeoutInv'
  BY TypeStep, RegStep, KnownStep, TimeoutStep
<1> QED  BY <1>1, <1>2, <1>3, PTL DEF Spec

-----------------------------------------------------------------------------
(* What a call leaves behind.                                              *)

\* Whoever is registered is watched: registerRpc starts the goroutine, which hands the id to runServer.
LEMMA TailKeeps ==
    ASSUME NEW S, NEW q \in Seq(S), q # <<>>, NEW x, In(q, x), x # Head(q)
    PROVE  In(Tail(q), x)
<1>1. /\ Len(q) \in Nat \ {0} /\ Head(q) = q[1] /\ Len(Tail(q)) = Len(q) - 1
      /\ \A i \in 1 .. Len(Tail(q)) : Tail(q)[i] = q[i + 1]
  BY HeadTailProperties, EmptySeq, LenProperties
<1>2. PICK i \in 1 .. Len(q) : q[i] = x
  BY DEF In
<1>3. i - 1 \in 1 .. Len(Tail(q)) /\ Tail(q)[i - 1] = x
  BY <1>1, <1>2
<1> QED  BY <1>3 DEF In

LEMMA WatchedStep ==
    ASSUME TypeInv, RegInv, Watched, [Next]_vars
    PROVE  Watched'
<1> USE DEF rpcVars, serverVars
<1>0. /\ TypeOK /\ ServerTypes /\ CtxDoneTypes /\ RpcTypes
      /\ \A id \in Ids : RpcMap[id] # Nobody =>
           RpcMap[id] \in Calls /\ (watcher[RpcMap[id]] = "running" \/ In(CtxDoneCh, id) \/ ServerDone)
  BY TypeParts DEF TypeInv, RpcTypes, Watched, In
<1>k. ASSUME \A id \in Ids : RpcMap'[id] # Nobody =>
               \/ watcher'[RpcMap'[id]] = "running" \/ In(CtxDoneCh', id) \/ ServerDone'
      PROVE  Watched'
  BY <1>k DEF Watched, In
<1>s. ASSUME UNCHANGED <<watcher, CtxDoneCh>>, ServerDone => ServerDone',
             \A id \in Ids : RpcMap'[id] \in {RpcMap[id], Nobody}
      PROVE  Watched'
  BY <1>0, <1>k, <1>s
<1>u. ASSUME NEW id \in Ids, NEW err \in BOOLEAN, unregisterRpc(id, err)
      PROVE  RpcMap'[id] = Nobody /\ \A k \in Ids : RpcMap'[k] \in {RpcMap[k], Nobody}
  <2>1. RpcMap' = [RpcMap EXCEPT ![id] = Nobody]
    BY <1>0, <1>u, Unregistered
  <2> QED  BY <1>0, <2>1 DEF RpcTypes
<1>1. ASSUME NEW h \in Calls, CallStep(h) PROVE Watched'
  <2>1. CASE Register(h)
    <3>1. /\ RpcMap' = [RpcMap EXCEPT ![Id(h)] = h] /\ watcher' = [watcher EXCEPT ![h] = "running"]
          /\ UNCHANGED <<CtxDoneCh, ServerDone>>
      BY <2>1 DEF Register, registerRpc
    <3>2. \A id \in Ids : RpcMap'[id] = IF id = Id(h) THEN h ELSE RpcMap[id]
      BY <1>0, <3>1 DEF RpcTypes
    <3>3. \A k \in Calls : watcher'[k] = IF k = h THEN "running" ELSE watcher[k]
      BY <1>0, <3>1 DEF RpcTypes
    <3> QED  BY <1>0, <1>k, <3>1, <3>2, <3>3
  <2>2. CASE Unregister(h)
    BY <1>s, <1>u, <2>2, IdFacts DEF Unregister
  <2>3. CASE ~Register(h) /\ ~Unregister(h)
    BY <1>1, <1>s, <2>3 DEF CallStep, Begin, SendRequest, SendTimesOut, SendPanics, NextResponse, ReadStream,
       Deliver, PollStream, StreamClosed
  <2> QED  BY <2>1, <2>2, <2>3
<1>2. ASSUME NEW h \in Calls, Watch(h) PROVE Watched'
  <2>1. CASE ServerDone
    BY <1>2, <1>k, <2>1 DEF Watch
  <2>2. CASE ~ServerDone
    <3>1. Id(h) \in Ids /\ CtxDoneCh \in Seq(Ids)
      BY <1>0, IdFacts DEF CtxDoneTypes
    <3>2. \A x : In(Append(CtxDoneCh, Id(h)), x) <=> In(CtxDoneCh, x) \/ x = Id(h)
      BY <3>1, AppendFacts
    <3>3. \A x : In(CtxDoneCh', x) <=> In(CtxDoneCh, x) \/ x = Id(h)
      BY <1>2, <2>2, <3>2 DEF Watch
    <3>4. \A k \in Calls : k # h => watcher'[k] = watcher[k]
      BY <1>0, <1>2 DEF Watch, RpcTypes
    <3>5. \A id \in Ids : RpcMap[id] = h => id = Id(h)
      BY <1>0, IdFacts DEF RegInv, RegisteredIsOpen
    <3> QED  BY <1>0, <1>2, <1>k, <3>3, <3>4, <3>5 DEF Watch
  <2> QED  BY <2>1, <2>2
<1>3. ASSUME NEW h \in Streams, CancelUnregister(h) PROVE Watched'
  <2>1. h \in Ids /\ unregisterRpc(h, FALSE)
    BY <1>3 DEF CancelUnregister, Ids
  <2> QED  BY <1>3, <1>s, <1>u, <2>1 DEF CancelUnregister
<1>4. CASE ServerTimeout
  <2>1. CtxDoneCh \in Seq(Ids) /\ CtxDoneCh # <<>> /\ Head(CtxDoneCh) \in Ids
    BY <1>0, <1>4, TailFacts DEF ServerTimeout, CtxDoneTypes
  <2>2. /\ RpcMap'[Head(CtxDoneCh)] = Nobody
        /\ \A k \in Ids : RpcMap'[k] \in {RpcMap[k], Nobody}
    BY <1>4, <1>u, <2>1 DEF ServerTimeout
  <2>3. \A k \in Ids \ {Head(CtxDoneCh)} : In(CtxDoneCh, k) => In(CtxDoneCh', k)
    <3>1. CtxDoneCh' = Tail(CtxDoneCh)
      BY <1>4 DEF ServerTimeout
    <3> QED  BY <2>1, <3>1, TailKeeps
  <2>4. UNCHANGED <<watcher, ServerDone>>
    BY <1>4 DEF ServerTimeout
  <2> QED  BY <1>0, <1>k, <2>2, <2>3, <2>4
<1>5. CASE ServerGiveUp \/ ServerFinish
  <2>1. server.msg.to \in Ids /\ unregisterRpc(server.msg.to, FALSE) /\ UNCHANGED <<watcher, CtxDoneCh, ServerDone>>
    BY <1>0, <1>5 DEF ServerGiveUp, ServerFinish, ServerTypes, Responses, Ids
  <2> QED  BY <1>s, <1>u, <2>1
<1>6. CASE ServerStep /\ ~(ServerTimeout \/ ServerGiveUp \/ ServerFinish)
  BY <1>6, <1>s DEF ServerStep, ServerReceive, ServerSend, ServerInputClosed, ServerCloseOutput, setServerDone
<1>7. ASSUME \/ \E h \in Calls : Expire(h) \/ PeerRespond(h)
             \/ \E h \in Streams : SendCancel(h) \/ ReaderTakes(h)
             \/ PeerReceive \/ CloseInput \/ UNCHANGED vars
      PROVE  Watched'
  <2>1. UNCHANGED <<RpcMap, watcher, CtxDoneCh, ServerDone>>
    BY <1>7 DEF Expire, PeerRespond, SendCancel, ReaderTakes, PeerReceive, CloseInput, vars
  <2> QED  BY <1>s, <2>1
<1> QED  BY <1>1, <1>2, <1>3, <1>4, <1>5, <1>6, <1>7 DEF Next

\* The last response: no response follows it, and runServer unregisters its call as soon as it has
\* delivered it, whoever reads it first.
Flying(m) == In(InputCh, m) \/ (server.pc \in {"send", "blocked"} /\ server.msg = m)
SaidAll(h) == peer[h].over /\ (result[h] = "failed" \/ In(ResCh[h], peer[h].sent))
LastInv ==
    /\ \A h \in Calls : peer[h].over => peer[h].has
    /\ \A m \in Responses : Flying(m) =>
         m.n <= peer[m.to].sent /\ (m.cont /\ m.n = peer[m.to].sent => ~peer[m.to].over)
    /\ \A h \in Calls : \A x \in 0 .. MaxResponses : In(ResCh[h], x) => x <= peer[h].sent
    /\ \A h \in Streams : result[h] = "failed" => peer[h].over
    /\ \A h \in Streams : RpcMap[h] = h /\ SaidAll(h) => server.pc = "finish" /\ server.msg.to = h

LEMMA LeftInit == Init => Watched /\ LastInv
<1> SUFFICES ASSUME Init PROVE Watched /\ LastInv
  OBVIOUS
<1>1. \A x : ~In(<<>>, x)
  BY EmptySeq DEF In
<1> QED  BY <1>1, OwnFacts DEF Init, Watched, LastInv, Flying, SaidAll

\* A step that brings no response to the input or into a channel.
LEMMA LastKeeps ==
    ASSUME TypeInv, RegInv, LastInv, UNCHANGED peer,
           \A m \in Responses : Flying(m)' => Flying(m),
           \A h \in Calls : \A x \in 0 .. MaxResponses : In(ResCh'[h], x) =>
               In(ResCh[h], x) \/ (x = TimeoutError /\ (h \in Streams => RpcMap'[h] # h)),
           \A h \in Streams : result'[h] = "failed" => result[h] = "failed" \/ SaidAll(h),
           \A h \in Streams : RpcMap'[h] = h => RpcMap[h] = h \/ ~peer[h].over,
           \A h \in Streams : RpcMap'[h] = h /\ server.pc = "finish" /\ server.msg.to = h =>
               server'.pc = "finish" /\ server'.msg.to = h
    PROVE  LastInv'
<1>0. InputTypes /\ Streams \subseteq Calls
  BY TypeParts DEF Calls
<1>1. \A h \in Calls : peer[h].sent \in 0 .. MaxResponses
  BY <1>0 DEF InputTypes, PeerStates
<1>2. \A h \in Calls : \A x \in 0 .. MaxResponses : In(ResCh'[h], x) => x <= peer[h].sent
  BY <1>1 DEF LastInv, TimeoutError
<1>3. \A h \in Streams : result'[h] = "failed" => peer[h].over
  BY DEF LastInv, SaidAll
<1>4. \A h \in Streams : RpcMap'[h] = h /\ SaidAll(h)' => server'.pc = "finish" /\ server'.msg.to = h
  <2> SUFFICES ASSUME NEW h \in Streams, RpcMap'[h] = h, SaidAll(h)'
               PROVE  server'.pc = "finish" /\ server'.msg.to = h
    OBVIOUS
  <2>1. /\ peer[h].over /\ RpcMap[h] = h
        /\ result'[h] = "failed" \/ In(ResCh'[h], peer[h].sent)
    BY DEF SaidAll, In
  <2>2. SaidAll(h)
    BY <1>0, <1>1, <2>1 DEF SaidAll
  <2> QED  BY <2>1, <2>2 DEF LastInv
<1>5. \A h \in Calls : \A x : In(ResCh[h], x)' <=> In(ResCh'[h], x)
  BY DEF In
<1> QED  BY <1>2, <1>3, <1>4, <1>5 DEF LastInv

LEMMA LastStep ==
    ASSUME TypeInv, RegInv, KnownInv, LastInv, [Next]_vars
    PROVE  LastInv'
<1> USE DEF rpcVars, serverVars, callVars, inputVars
<1>0. /\ TypeOK /\ RpcTypes /\ CallTypes /\ ServerTypes /\ InputTypes /\ OutputTypes /\ CtxDoneTypes
      /\ Streams \subseteq Calls /\ Streams \subseteq Ids
  BY TypeParts DEF TypeInv, Calls, Ids
<1>f. UNCHANGED <<InputCh, server>> => \A m \in Responses : Flying(m)' => Flying(m)
  BY DEF Flying, In
\* A call of unregisterRpc, seen from a stream.
<1>u. ASSUME NEW id \in Ids, NEW err \in BOOLEAN, unregisterRpc(id, err)
      PROVE  /\ \A h \in Streams : RpcMap'[h] = h => RpcMap[h] = h /\ h # id
             /\ \A h \in Calls : \A x \in 0 .. MaxResponses : In(ResCh'[h], x) =>
                  In(ResCh[h], x) \/ (x = TimeoutError /\ (h \in Streams => RpcMap'[h] # h))
  <2>1. /\ RpcMap' = [RpcMap EXCEPT ![id] = Nobody]
        /\ \A h \in Calls : /\ RpcMap[id] # h => ResCh'[h] = ResCh[h]
                            /\ RpcMap[id] = h /\ ResCh'[h] # ResCh[h] =>
                                 \A x : In(ResCh'[h], x) <=> In(ResCh[h], x) \/ x = TimeoutError
    BY <1>0, <1>u, Unregistered
  <2>2. RpcMap'[id] = Nobody /\ \A k \in Ids \ {id} : RpcMap'[k] = RpcMap[k]
    BY <1>0, <2>1 DEF RpcTypes
  <2>3. \A h \in Streams : RpcMap[id] = h => h = id
    BY <1>0, OwnFacts DEF RegInv, RegisteredIsOpen
  <2>4. Nobody \notin Streams
    BY OwnFacts
  <2> QED  BY <1>0, <2>1, <2>2, <2>3, <2>4
<1>1. ASSUME NEW h \in Calls, CallStep(h) PROVE LastInv'
  <2>0. UNCHANGED <<InputCh, server, peer>>
    BY <1>1 DEF CallStep, Begin, Register, SendRequest, SendTimesOut, SendPanics, NextResponse, ReadStream, Deliver,
       PollStream, StreamClosed, Unregister
  <2>1. CASE Register(h)
    <3>1. \A k \in Streams : RpcMap'[k] = k => RpcMap[k] = k \/ k = h
      BY <1>0, <2>1 DEF Register, registerRpc, RpcTypes
    <3>2. h \in Streams => ~peer[h].over
      BY <1>0, <2>1, OwnFacts DEF Register, LastInv, KnownInv, Sent, Begun
    <3> QED  BY <1>f, <2>0, <2>1, <3>1, <3>2, LastKeeps DEF Register, registerRpc
  <2>2. CASE Unregister(h)
    <3>1. Id(h) \in Ids /\ unregisterRpc(Id(h), FALSE) /\ UNCHANGED result
      BY <2>2, IdFacts DEF Unregister
    <3> QED  BY <1>f, <1>u, <2>0, <3>1, LastKeeps
  <2>3. CASE ReadStream(h)
    <3>1. \A k \in Calls : \A x : In(ResCh'[k], x) => In(ResCh[k], x)
      BY <1>0, <2>3, TakeType DEF ReadStream
    <3>2. \A k \in Streams : result'[k] = "failed" => result[k] = "failed" \/ SaidAll(k)
      <4>1. CASE Head(ResCh[h]) = peer[h].sent /\ peer[h].over
        <5>1. SaidAll(h)
          BY <1>0, <2>3, <4>1, TakeType DEF ReadStream, SaidAll
        <5>2. \A k \in Calls \ {h} : result'[k] = result[k]
          BY <1>0, <2>3 DEF ReadStream, ToDeliver, CallTypes
        <5> QED  BY <1>0, <5>1, <5>2
      <4>2. CASE ~(Head(ResCh[h]) = peer[h].sent /\ peer[h].over)
        BY <1>0, <2>3, <4>2 DEF ReadStream, ToDeliver, CallTypes
      <4> QED  BY <4>1, <4>2
    <3>3. UNCHANGED RpcMap
      BY <2>3 DEF ReadStream
    <3> QED  BY <1>f, <2>0, <3>1, <3>2, <3>3, LastKeeps
  <2>4. CASE NextResponse(h)
    <3>1. \A k \in Calls : \A x : In(ResCh'[k], x) => In(ResCh[k], x)
      BY <1>0, <2>4, TakeType DEF NextResponse
    <3>2. h \notin Streams
      BY <2>4, CallsAssumption DEF NextResponse
    <3>3. \A k \in Streams : result'[k] = result[k]
      BY <1>0, <2>4, <3>2 DEF NextResponse, Finalize, CallTypes
    <3>4. UNCHANGED RpcMap
      BY <2>4 DEF NextResponse
    <3> QED  BY <1>f, <2>0, <3>1, <3>3, <3>4, LastKeeps
  <2>5. CASE Begin(h) \/ SendRequest(h) \/ SendTimesOut(h) \/ SendPanics(h) \/ Deliver(h) \/ PollStream(h)
               \/ StreamClosed(h)
    <3>1. \A k \in Streams : result'[k] = "failed" => result[k] = "failed"
      BY <1>0, <2>5 DEF Begin, SendRequest, SendTimesOut, SendPanics, Deliver, PollStream, StreamClosed,
         Finalize, Return, ToDeliver, CallTypes
    <3>2. UNCHANGED <<RpcMap, ResCh>>
      BY <2>5 DEF Begin, SendRequest, SendTimesOut, SendPanics, Deliver, PollStream, StreamClosed
    <3> QED  BY <1>f, <2>0, <3>1, <3>2, LastKeeps
  <2> QED  BY <1>1, <2>1, <2>2, <2>3, <2>4, <2>5 DEF CallStep
<1>2. ASSUME NEW h \in Calls, Watch(h) \/ Expire(h) PROVE LastInv'
  BY <1>2, <1>f, LastKeeps DEF Watch, Expire
<1>3. ASSUME NEW h \in Streams, SendCancel(h) \/ ReaderTakes(h) PROVE LastInv'
  BY <1>3, <1>f, LastKeeps DEF SendCancel, ReaderTakes
<1>4. ASSUME NEW h \in Streams, CancelUnregister(h) PROVE LastInv'
  <2>1. h \in Ids /\ unregisterRpc(h, FALSE) /\ UNCHANGED <<result, server, InputCh, peer>>
    BY <1>0, <1>4 DEF CancelUnregister
  <2> QED  BY <1>f, <1>u, <2>1, LastKeeps
<1>5. CASE ServerReceive
  <2>1. /\ \A x : In(Tail(InputCh), x) => In(InputCh, x)
        /\ In(InputCh, Head(InputCh)) /\ Head(InputCh) \in Responses
    BY <1>0, <1>5, TailFacts DEF ServerReceive, InputTypes
  <2>2. \A m \in Responses : Flying(m)' => Flying(m)
    BY <1>0, <1>5, <2>1 DEF ServerReceive, Flying, In
  <2> QED  BY <1>5, <2>2, LastKeeps DEF ServerReceive
<1>6. CASE ServerTimeout
  <2>1. Head(CtxDoneCh) \in Ids
    BY <1>0, <1>6, TailFacts DEF ServerTimeout, CtxDoneTypes
  <2> QED  BY <1>6, <1>f, <1>u, <2>1, LastKeeps DEF ServerTimeout
<1>7. CASE ServerGiveUp \/ ServerFinish
  <2>1. /\ server.msg.to \in Ids /\ unregisterRpc(server.msg.to, FALSE)
        /\ UNCHANGED <<result, InputCh, peer>>
    BY <1>0, <1>7 DEF ServerGiveUp, ServerFinish, ServerTypes, Responses, Ids
  <2>2. server' = [server EXCEPT !.pc = server'.pc] /\ server'.pc \in {"select", "finish"}
    BY <1>0, <1>7 DEF ServerGiveUp, ServerFinish, ServerAt, Delivered, ServerTypes
  <2>3. \A m \in Responses : Flying(m)' => Flying(m)
    BY <2>1, <2>2 DEF Flying, In
  <2>4. \A k \in Streams : RpcMap'[k] = k => RpcMap[k] = k /\ k # server.msg.to
    BY <1>u, <2>1
  <2> QED  BY <1>u, <2>1, <2>3, <2>4, LastKeeps
<1>8. CASE ServerSend
  <2> DEFINE m == server.msg
  <2>1. /\ m \in Responses /\ m.to \in Calls /\ m.n \in 0 .. MaxResponses /\ m.n # TimeoutError
        /\ Flying(m) /\ ResCh[m.to] \in Seq(0 .. MaxResponses)
    BY <1>0, <1>8, Sizes DEF ServerSend, ServerTypes, RpcTypes, Responses, Calls, TimeoutError, Flying
  <2>2. CASE UNCHANGED ResCh
    <3>1. server'.msg = m /\ server.pc # "finish" /\ (server'.pc = "blocked" => server.pc = "send")
      BY <1>0, <1>8, <2>2 DEF ServerSend, ServerAt, Delivered, ServerTypes
    <3>2. \A r \in Responses : Flying(r)' => Flying(r)
      BY <1>8, <3>1 DEF Flying, In, ServerSend
    <3> QED  BY <1>8, <2>2, <3>1, <3>2, LastKeeps DEF ServerSend
  <2>3. CASE ResCh' = [ResCh EXCEPT ![m.to] = Append(@, m.n)] /\ ServerAt(Delivered)
    <3>1. \A k \in Calls : \A x \in 0 .. MaxResponses : In(ResCh'[k], x) => In(ResCh[k], x) \/ (k = m.to /\ x = m.n)
      <4>1. ASSUME NEW q \in Seq(0 .. MaxResponses), NEW n \in 0 .. MaxResponses
            PROVE  \A x : In(Append(q, n), x) <=> In(q, x) \/ x = n
        BY AppendFacts
      <4>2. \A k \in Calls : ResCh'[k] = IF k = m.to THEN Append(ResCh[k], m.n) ELSE ResCh[k]
        BY <1>0, <2>3 DEF RpcTypes
      <4> QED  BY <2>1, <4>1, <4>2
    <3>2. UNCHANGED <<peer, result, RpcMap, InputCh>>
      BY <1>8 DEF ServerSend
    <3>3. server'.msg = m /\ server'.pc = IF m.cont THEN "select" ELSE "finish"
      BY <1>0, <2>3 DEF ServerAt, Delivered, ServerTypes
    <3>4. \A r \in Responses : Flying(r)' => Flying(r)
      BY <3>2, <3>3 DEF Flying, In
    <3>5. server.pc # "finish"
      BY <1>8 DEF ServerSend
    <3>6. m.n <= peer[m.to].sent /\ (m.cont /\ m.n = peer[m.to].sent => ~peer[m.to].over)
      BY <2>1 DEF LastInv
    <3>7. \A k \in Calls : \A x : In(ResCh[k], x)' <=> In(ResCh'[k], x)
      BY DEF In
    <3>8. \A k \in Calls : peer[k].sent \in 0 .. MaxResponses
      BY <1>0 DEF InputTypes, PeerStates
    <3>9. \A k \in Calls : \A x \in 0 .. MaxResponses : In(ResCh[k], x)' => x <= peer'[k].sent
      BY <3>1, <3>2, <3>6, <3>7 DEF LastInv
    <3>10. \A k \in Streams : RpcMap'[k] = k /\ SaidAll(k)' => server'.pc = "finish" /\ server'.msg.to = k
      <4> SUFFICES ASSUME NEW k \in Streams, RpcMap'[k] = k, SaidAll(k)'
                   PROVE  server'.pc = "finish" /\ server'.msg.to = k
        OBVIOUS
      <4>1. k \in Calls /\ RpcMap[k] = k /\ peer[k].over /\ (result[k] = "failed" \/ In(ResCh'[k], peer[k].sent))
        BY <1>0, <3>2, <3>7 DEF SaidAll
      <4>2. ~SaidAll(k)
        BY <3>5, <4>1 DEF LastInv
      <4>3. k = m.to /\ peer[k].sent = m.n
        BY <3>1, <3>8, <4>1, <4>2 DEF SaidAll
      <4>4. ~m.cont
        BY <3>6, <4>1, <4>3
      <4> QED  BY <3>3, <4>3, <4>4
    <3> QED  BY <3>2, <3>4, <3>9, <3>10 DEF LastInv
  <2> QED  BY <1>8, <2>2, <2>3 DEF ServerSend
<1>9. CASE ServerInputClosed \/ ServerCloseOutput
  <2>1. /\ UNCHANGED <<RpcMap, ResCh, result, peer, InputCh>> /\ server.pc # "finish"
        /\ server'.pc \in {"dying", "closed"}
    BY <1>0, <1>9 DEF ServerInputClosed, ServerCloseOutput, ServerAt, ServerTypes
  <2>2. \A m \in Responses : Flying(m)' => Flying(m)
    BY <2>1 DEF Flying, In
  <2> QED  BY <2>1, <2>2, LastKeeps
<1>10. CASE setServerDone
  <2>1. /\ UNCHANGED <<RpcMap, ResCh, result, peer>> /\ server.pc # "finish"
        /\ server'.pc = "done" /\ InputCh' = <<>>
    BY <1>0, <1>10 DEF setServerDone, ServerAt, ServerTypes
  <2>2. \A m \in Responses : ~Flying(m)'
    BY <2>1, EmptySeq DEF Flying, In
  <2> QED  BY <2>1, <2>2, LastKeeps
<1>11. ASSUME NEW h \in Calls, PeerRespond(h) PROVE LastInv'
  <2>1. PICK cont \in BOOLEAN :
           /\ InputCh' = Append(InputCh, Response(h, peer[h].sent + 1, cont))
           /\ peer' = [peer EXCEPT ![h] = [has |-> @.has, sent |-> @.sent + 1, over |-> ~cont]]
           /\ Response(h, peer[h].sent + 1, cont) \in Responses
    BY <1>11, ResponseFacts
  <2>2. /\ UNCHANGED <<RpcMap, ResCh, result, server>>
        /\ peer[h].has /\ ~peer[h].over
    BY <1>11 DEF PeerRespond
  <2>3. /\ peer'[h].has = peer[h].has /\ peer'[h].sent = peer[h].sent + 1 /\ peer'[h].over = ~cont
        /\ \A k \in Calls \ {h} : peer'[k] = peer[k]
        /\ \A k \in Calls : peer[k].sent \in Nat
    BY <1>0, <2>1 DEF InputTypes, PeerStates
  <2>4. \A m \in Responses : Flying(m)' => Flying(m) \/ m = Response(h, peer[h].sent + 1, cont)
    <3>1. \A x : In(InputCh', x) <=> In(InputCh, x) \/ x = Response(h, peer[h].sent + 1, cont)
      BY <1>0, <2>1, AppendFacts DEF InputTypes
    <3> QED  BY <2>2, <3>1 DEF Flying, In
  <2>5. \A m \in Responses : Flying(m)' =>
           m.n <= peer'[m.to].sent /\ (m.cont /\ m.n = peer'[m.to].sent => ~peer'[m.to].over)
    <3> SUFFICES ASSUME NEW m \in Responses, Flying(m)'
                 PROVE  m.n <= peer'[m.to].sent /\ (m.cont /\ m.n = peer'[m.to].sent => ~peer'[m.to].over)
      OBVIOUS
    <3>0. m.to \in Calls /\ m.n \in Nat
      BY Sizes DEF Responses, Calls
    <3>1. CASE m = Response(h, peer[h].sent + 1, cont)
      <4>1. m.to = h /\ m.n = peer[h].sent + 1 /\ m.cont = cont
        BY <3>1 DEF Response
      <4>2. h \in Calls /\ peer'[m.to].sent = peer[h].sent + 1 /\ peer'[m.to].over = ~cont /\ peer[h].sent \in Nat
        BY <2>3, <4>1
      <4>3. m.n <= peer'[m.to].sent
        BY <4>1, <4>2
      <4>4. m.cont => ~peer'[m.to].over
        BY <4>1, <4>2
      <4> QED  BY <4>3, <4>4
    <3>2. CASE Flying(m)
      BY <2>3, <3>0, <3>2 DEF LastInv
    <3> QED  BY <2>4, <3>1, <3>2
  <2>6. \A k \in Calls : \A x \in 0 .. MaxResponses : In(ResCh[k], x)' => x <= peer'[k].sent
    BY <2>2, <2>3 DEF LastInv, In
  <2>7. \A k \in Streams : result'[k] = "failed" => peer'[k].over
    BY <1>0, <2>2, <2>3 DEF LastInv
  <2>8. \A k \in Streams : RpcMap'[k] = k /\ SaidAll(k)' => server'.pc = "finish" /\ server'.msg.to = k
    <3> SUFFICES ASSUME NEW k \in Streams, RpcMap[k] = k, SaidAll(k)'
                 PROVE  server.pc = "finish" /\ server.msg.to = k
      BY <2>2
    <3>1. CASE k = h
      <4>1. result[h] # "failed"
        BY <2>2, <3>1 DEF LastInv
      <4>2. peer[h].sent + 1 \in 0 .. MaxResponses /\ In(ResCh[h], peer[h].sent + 1)
        <5>1. In(ResCh[h], peer[h].sent + 1)
          BY <2>2, <2>3, <3>1, <4>1 DEF SaidAll, In
        <5>2. peer[h].sent + 1 \in 0 .. MaxResponses
          BY <2>1, Sizes DEF Response, Responses
        <5> QED  BY <5>1, <5>2
      <4> QED  BY <2>3, <4>2 DEF LastInv
    <3>2. CASE k # h
      <4>1. SaidAll(k)
        BY <1>0, <2>2, <2>3, <3>2 DEF SaidAll, In
      <4> QED  BY <4>1 DEF LastInv
    <3> QED  BY <3>1, <3>2
  <2>9. \A k \in Calls : peer'[k].over => peer'[k].has
    BY <2>2, <2>3 DEF LastInv
  <2> QED  BY <2>5, <2>6, <2>7, <2>8, <2>9 DEF LastInv
<1>12. CASE PeerReceive
  <2>1. UNCHANGED <<RpcMap, ResCh, result, server, InputCh>>
    BY <1>12 DEF PeerReceive
  <2>2. \A k \in Calls : /\ peer'[k].sent = peer[k].sent /\ peer'[k].over = peer[k].over
                         /\ peer[k].has => peer'[k].has
    BY <1>0, <1>12 DEF PeerReceive, InputTypes, PeerStates
  <2>3. \A m \in Responses : m.to \in Calls /\ (Flying(m)' => Flying(m))
    BY <2>1 DEF Flying, In, Responses, Calls
  <2>4. \A m \in Responses : Flying(m)' =>
           m.n <= peer'[m.to].sent /\ (m.cont /\ m.n = peer'[m.to].sent => ~peer'[m.to].over)
    BY <2>2, <2>3 DEF LastInv
  <2>5. \A k \in Calls : \A x \in 0 .. MaxResponses : In(ResCh[k], x)' => x <= peer'[k].sent
    BY <2>1, <2>2 DEF LastInv, In
  <2>6. \A k \in Streams : /\ result'[k] = "failed" => peer'[k].over
                           /\ SaidAll(k)' => SaidAll(k)
    BY <1>0, <2>1, <2>2 DEF LastInv, SaidAll, In
  <2> QED  BY <1>0, <2>1, <2>2, <2>4, <2>5, <2>6 DEF LastInv
<1>13. CASE CloseInput \/ UNCHANGED vars
  BY <1>13, <1>f, LastKeeps DEF CloseInput, vars
<1> QED  BY <1>1, <1>2, <1>3, <1>4, <1>5, <1>6, <1>7, <1>8, <1>9, <1>10, <1>11, <1>12, <1>13 DEF Next, ServerStep

\* The map of the client holds the calls that wait, whoever ends them: a registered call has its channel
\* open, so that none is closed twice, and one that has returned has been unregistered by then.  Those
\* that the stream helper leaves behind are named: after an error of the peer runServer is at its
\* unregistration, after a response that cannot be read, or a panic, the watcher of the context has it
\* still to come.
THEOREM OnlyWaiting == Spec => []OnlyWaitingRegistered
<1>1. TypeInv /\ RegInv /\ Watched /\ LastInv => OnlyWaitingRegistered
  <2> SUFFICES ASSUME TypeInv, RegInv, LastInv, NEW h \in Calls \ Commands, call[h] = "returned", RpcMap[h] # Nobody
               PROVE  \/ result[h] \in {"nil", "unreadable"}
                      \/ result[h] = "failed" /\ h \in Streams /\ server.pc = "finish" /\ server.msg.to = h
    BY DEF OnlyWaitingRegistered, NoLeak, RegInv
  <2>1. Left(h)
    BY DEF RegInv, GoneInv, Ending
  <2>2. RpcMap[h] = h
    BY RegisteredSelf DEF RegInv, TypeInv
  <2>3. h \in Streams /\ result[h] = "failed" => server.pc = "finish" /\ server.msg.to = h
    BY <2>2 DEF LastInv, SaidAll
  <2> QED  BY <2>1, <2>3 DEF Left
<1>2. Init => TypeInv /\ RegInv /\ KnownInv /\ Watched /\ LastInv
  BY TypeInit, RegInit, TimeoutInit, LeftInit
<1>3. TypeInv /\ RegInv /\ KnownInv /\ Watched /\ LastInv /\ [Next]_vars
        => TypeInv' /\ RegInv' /\ KnownInv' /\ Watched' /\ LastInv'
  BY TypeStep, RegStep, KnownStep, WatchedStep, LastStep
<1> QED  BY <1>1, <1>2, <1>3, PTL DEF Spec

-----------------------------------------------------------------------------
(* The life of runServer.                                                  *)

Sending(h)  == server.pc \in {"send", "blocked"} /\ server.msg.to = h
Answered(h) == got[h] # <<>> \/ result[h] = "failed" \/ \E n \in 1 .. MaxResponses : In(ResCh[h], n)

\* The one response to a request is on its way, or being delivered to a call that waits, or has arrived:
\* while runServer delivers it, nobody has a reason to close the channel.
OneMessage ==
    \A h \in Requests, i \in 1 .. Len(InputCh), j \in 1 .. Len(InputCh) :
        InputCh[i].to = h /\ InputCh[j].to = h => i = j
OnceInv ==
    \A h \in Requests :
        /\ call[h] # "poll"
        /\ ~peer[h].over => ~Incoming(h) /\ ~Sending(h) /\ ~Answered(h)
        /\ Incoming(h) => ~Sending(h) /\ ~Answered(h)
        /\ Sending(h) => ~Answered(h) /\ resOpen[h] /\ call[h] = "read"
        /\ call[h] = "unregister" /\ resOpen[h] => Answered(h) \/ result[h] = "unsent"

\* A stream unregisters itself only when it could not send; else its channel is closed by runServer
\* itself or by a cancel.
StreamInv ==
    \A h \in Streams :
        /\ call[h] = "unregister" => result[h] = "unsent"
        /\ Sending(h) /\ ~resOpen[h] => cancel[h] # "none"

LifeInv == OneMessage /\ OnceInv /\ StreamInv /\ ServerSurvives

LEMMA LifeInit == Init => LifeInv
<1> SUFFICES ASSUME Init PROVE LifeInv
  OBVIOUS
<1>1. \A x : ~In(<<>>, x)
  BY EmptySeq DEF In
<1>2. Requests \subseteq Calls /\ Streams \subseteq Calls /\ Len(<<>>) = 0
  BY EmptySeq DEF Calls
<1>3. server.pc = "select" /\ InputCh = <<>> /\ \A h \in Calls : ~peer[h].has /\ call[h] = "idle"
          /\ got[h] = <<>> /\ ResCh[h] = <<>>
  BY DEF Init
<1>4. \A h \in Calls : ~Answered(h) /\ ~Sending(h) /\ ~Incoming(h)
  <2>1. \A h \in Calls : result[h] # "failed"
    BY DEF Init
  <2> QED  BY <1>1, <1>3, <2>1 DEF Answered, Sending, Incoming
<1> QED  BY <1>2, <1>3, <1>4 DEF LifeInv, OneMessage, OnceInv, StreamInv, ServerSurvives

\* Which channel a call of unregisterRpc closes, seen from a call with an id of its own.
LEMMA OwnClosed ==
    ASSUME TypeOK, RegInv, NEW id \in Ids, NEW err \in BOOLEAN, unregisterRpc(id, err), NEW h \in Own
    PROVE  /\ resOpen'[h] => resOpen[h]
           /\ h # id => resOpen'[h] = resOpen[h]
           /\ \A n \in 1 .. MaxResponses : In(ResCh'[h], n) <=> In(ResCh[h], n)
<1>0. h \in Calls /\ Id(h) = h /\ h # Nobody
  BY OwnFacts
<1>1. /\ RpcMap[id] # h => ResCh'[h] = ResCh[h] /\ resOpen'[h] = resOpen[h]
      /\ RpcMap[id] = h => ~resOpen'[h]
  BY <1>0, Unregistered
<1>4. ASSUME NEW x PROVE In(ResCh'[h], x) => In(ResCh[h], x) \/ x = TimeoutError
  BY <1>0, Unregistered
<1>5. ASSUME NEW x PROVE In(ResCh[h], x) => In(ResCh'[h], x)
  BY <1>0, Unregistered
<1>2. RpcMap[id] = h => id = h
  BY <1>0 DEF RegInv, RegisteredIsOpen
<1>3. \A n \in 1 .. MaxResponses : n # TimeoutError
  BY DEF TimeoutError
<1> QED  BY <1>1, <1>2, <1>3, <1>4, <1>5

\* A step that brings no response further.
LEMMA OnceKeeps ==
    ASSUME OnceInv,
           \A h \in Requests :
               /\ peer[h].over => peer'[h].over
               /\ Incoming(h)' => Incoming(h)
               /\ Sending(h)' => Sending(h) /\ resOpen'[h] /\ call'[h] = "read"
               /\ Answered(h)' => Answered(h)
               /\ call'[h] # "poll"
               /\ call'[h] = "unregister" /\ resOpen'[h] => Answered(h)' \/ result'[h] = "unsent"
    PROVE  OnceInv'
  BY DEF OnceInv

\* Nor does it touch the input channel or runServer.
LEMMA LifeKeeps ==
    ASSUME LifeInv, UNCHANGED <<InputCh, server>>, inputOpen' => inputOpen,
           \A h \in Requests :
               /\ peer[h].over => peer'[h].over
               /\ Sending(h) => resOpen'[h] /\ call'[h] = "read"
               /\ Answered(h)' => Answered(h)
               /\ call'[h] # "poll"
               /\ call'[h] = "unregister" /\ resOpen'[h] => Answered(h)' \/ result'[h] = "unsent",
           \A h \in Streams :
               /\ call'[h] = "unregister" => result'[h] = "unsent"
               /\ Sending(h) /\ resOpen[h] => resOpen'[h] \/ cancel'[h] # "none"
               /\ cancel[h] # "none" => cancel'[h] # "none"
    PROVE  LifeInv'
<1>1. \A h : (Incoming(h)' <=> Incoming(h)) /\ (Sending(h)' <=> Sending(h))
  BY DEF Incoming, Sending
<1>2. OneMessage'
  BY DEF LifeInv, OneMessage
<1>3. OnceInv'
  BY <1>1, OnceKeeps DEF LifeInv
<1>4. StreamInv' /\ ServerSurvives'
  BY <1>1 DEF LifeInv, StreamInv, ServerSurvives
<1> QED  BY <1>2, <1>3, <1>4 DEF LifeInv

LEMMA LifeCallStep ==
    ASSUME TypeInv, RegInv, KnownInv, LifeInv, NEW k \in Calls, CallStep(k)
    PROVE  LifeInv'
<1> USE DEF rpcVars, serverVars, callVars, inputVars
<1>0. /\ TypeOK /\ RpcTypes /\ CallTypes /\ ServerTypes
      /\ \A h \in Own : h \in Calls /\ h \in Ids /\ Id(h) = h
      /\ Requests \subseteq Own /\ Streams \subseteq Own /\ Requests \cap Streams = {}
      /\ k \in Own => Id(k) = k
  BY TypeParts, OwnFacts, CallsAssumption DEF TypeInv, Own
<1>u. UNCHANGED <<InputCh, server, peer, cancel, inputOpen>>
  BY DEF CallStep, Begin, Register, SendRequest, SendTimesOut, SendPanics, NextResponse, ReadStream, Deliver,
     PollStream, StreamClosed, Unregister
\* It is enough to look at the call itself, when no channel is closed.
<1>k. ASSUME UNCHANGED resOpen,
             \A h \in Own \ {k} : call'[h] = call[h] /\ result'[h] = result[h] /\ ResCh'[h] = ResCh[h] /\ got'[h] = got[h],
             k \in Requests =>
               /\ Sending(k) => resOpen[k] /\ call'[k] = "read"
               /\ Answered(k)' => Answered(k)
               /\ call'[k] # "poll"
               /\ call'[k] = "unregister" /\ resOpen[k] => Answered(k)' \/ result'[k] = "unsent",
             k \in Streams => (call'[k] = "unregister" => result'[k] = "unsent")
      PROVE  LifeInv'
  <2>1. \A h \in Own \ {k} : (Answered(h)' <=> Answered(h))
    BY <1>k DEF Answered, In
  <2>2. \A h \in Requests :
          /\ Sending(h) => resOpen'[h] /\ call'[h] = "read"
          /\ Answered(h)' => Answered(h)
          /\ call'[h] # "poll"
          /\ call'[h] = "unregister" /\ resOpen'[h] => Answered(h)' \/ result'[h] = "unsent"
    BY <1>0, <1>k, <2>1 DEF LifeInv, OnceInv
  <2>3. \A h \in Streams : call'[h] = "unregister" => result'[h] = "unsent"
    BY <1>0, <1>k DEF LifeInv, StreamInv
  <2> QED  BY <1>u, <1>k, <2>2, <2>3, LifeKeeps
<1>o. \A h \in Own \ {k} : ~Unregister(k) => /\ call'[h] = call[h] /\ result'[h] = result[h]
                                            /\ ResCh'[h] = ResCh[h] /\ got'[h] = got[h]
  <2>1. CASE Begin(k) \/ Register(k) \/ SendRequest(k) \/ SendTimesOut(k) \/ SendPanics(k)
    BY <1>0, <2>1 DEF Begin, Register, registerRpc, SendRequest, SendTimesOut, SendPanics, GoTo, Return, Finalize, CallTypes
  <2>2. CASE NextResponse(k) \/ PollStream(k)
    BY <1>0, <2>2 DEF NextResponse, PollStream, GoTo, Return, Finalize, Take, CallTypes, RpcTypes
  <2>3. CASE ReadStream(k) \/ Deliver(k) \/ StreamClosed(k)
    BY <1>0, <2>3 DEF ReadStream, Deliver, StreamClosed, GoTo, ToDeliver, Take, CallTypes, RpcTypes
  <2> QED  BY <2>1, <2>2, <2>3 DEF CallStep
<1>1. CASE Begin(k) \/ Register(k) \/ SendRequest(k) \/ SendTimesOut(k) \/ SendPanics(k)
  <2>1. ~Unregister(k) /\ UNCHANGED <<resOpen, ResCh, got>> /\ ~Begun(k)
    BY <1>1 DEF Begin, Register, registerRpc, SendRequest, SendTimesOut, SendPanics, Unregister, Begun
  <2>2. k \in Requests => ~Sending(k)
    BY <2>1 DEF LifeInv, OnceInv, Begun
  <2>3. Answered(k)' => Answered(k)
    <3>1. result'[k] = "failed" => result[k] = "failed"
      BY <1>0, <1>1 DEF Begin, Register, SendRequest, SendTimesOut, SendPanics, Return, Finalize, CallTypes
    <3> QED  BY <2>1, <3>1 DEF Answered, In
  <2>4. /\ k \in Requests => call'[k] # "poll"
        /\ k \in Own /\ call'[k] = "unregister" => result'[k] = "unsent"
    BY <1>0, <1>1, OwnFacts DEF Begin, Register, SendRequest, SendTimesOut, SendPanics, GoTo, Return, Finalize, CallTypes
  <2> QED  BY <1>0, <1>k, <1>o, <2>1, <2>2, <2>3, <2>4
<1>2. CASE NextResponse(k)
  <2>1. ~Unregister(k) /\ UNCHANGED resOpen /\ k \in Requests /\ k \in Own /\ k \notin Streams /\ k \notin Commands
    BY <1>0, <1>2, OwnFacts DEF NextResponse, Unregister
  <2>2. call'[k] = "unregister"
    BY <1>0, <1>2, <2>1 DEF NextResponse, Finalize, GoTo, CallTypes
  <2>3. CASE Head(ResCh[k]) # TimeoutError /\ ResCh[k] # <<>>
    <3>0. Take(k) /\ ResCh[k] # <<>>
      BY <1>2, <2>3 DEF NextResponse, Closed
    <3>1. Head(ResCh[k]) \in 1 .. MaxResponses /\ In(ResCh[k], Head(ResCh[k]))
      <4>1. Head(ResCh[k]) \in 0 .. MaxResponses /\ In(ResCh[k], Head(ResCh[k]))
        BY <1>0, <3>0, TakeType
      <4> QED  BY <2>3, <4>1 DEF TimeoutError
    <3>2. Answered(k)
      BY <3>1 DEF Answered
    <3>3. ASSUME result' = [result EXCEPT ![k] = "failed"] PROVE Answered(k)'
      <4>1. result'[k] = "failed"
        BY <1>0, <3>3 DEF CallTypes
      <4> QED  BY <4>1 DEF Answered
    <3>4. ASSUME got' = [got EXCEPT ![k] = Append(@, Head(ResCh[k]))] PROVE Answered(k)'
      <4>1. got'[k] = Append(got[k], Head(ResCh[k])) /\ got[k] \in Seq(1 .. MaxResponses)
        BY <1>0, <2>1, <3>4 DEF CallTypes
      <4>2. ASSUME NEW q \in Seq(1 .. MaxResponses), NEW n \in 1 .. MaxResponses PROVE Append(q, n) # <<>>
        BY AppendProperties
      <4>3. got'[k] # <<>>
        BY <3>1, <4>1, <4>2
      <4> QED  BY <4>3 DEF Answered
    <3>6. Answered(k)'
      <4>1. \/ result' = [result EXCEPT ![k] = "failed"]
            \/ got' = [got EXCEPT ![k] = Append(@, Head(ResCh[k]))]
        BY <1>2, <2>3 DEF NextResponse, Closed, Finalize
      <4> QED  BY <3>3, <3>4, <4>1
    <3>7. ~Sending(k)
      BY <2>1, <3>2 DEF LifeInv, OnceInv
    <3> QED  BY <1>k, <1>o, <2>1, <2>2, <3>2, <3>6, <3>7
  <2>4. CASE Head(ResCh[k]) = TimeoutError \/ ResCh[k] = <<>>
    <3>1. ~resOpen[k]
      <4>1. CASE ResCh[k] = <<>>
        BY <1>2, <4>1 DEF NextResponse, Closed
      <4>2. CASE ResCh[k] # <<>> /\ Head(ResCh[k]) = TimeoutError
        <5>1. In(ResCh[k], TimeoutError)
          BY <1>0, <2>1, <4>2, TailFacts DEF RpcTypes
        <5> QED  BY <1>0, <2>1, <5>1 DEF RegInv, ErrorInv
      <4> QED  BY <2>4, <4>1, <4>2
    <3>2. ~Sending(k)
      BY <2>1, <3>1 DEF LifeInv, OnceInv
    <3>3. /\ UNCHANGED got /\ \A x : In(ResCh'[k], x) => In(ResCh[k], x)
          /\ result'[k] # "failed"
      <4>0. result'[k] # "failed"
        BY <1>0, <1>2, <2>4 DEF NextResponse, Finalize, CallTypes
      <4>1. CASE ResCh[k] = <<>>
        <5>1. UNCHANGED <<ResCh, got>>
          BY <1>2, <4>1 DEF NextResponse
        <5> QED  BY <4>0, <5>1
      <4>2. CASE ResCh[k] # <<>> /\ Head(ResCh[k]) = TimeoutError
        <5>1. Take(k) /\ UNCHANGED got
          BY <1>2, <4>2 DEF NextResponse, Closed
        <5> QED  BY <1>0, <4>0, <4>2, <5>1, TakeType
      <4> QED  BY <2>4, <4>0, <4>1, <4>2
    <3>4. Answered(k)' => Answered(k)
      BY <3>3 DEF Answered, In
    <3> QED  BY <1>k, <1>o, <2>1, <2>2, <3>1, <3>2, <3>4
  <2> QED  BY <2>3, <2>4
<1>3. CASE ReadStream(k) \/ Deliver(k) \/ PollStream(k) \/ StreamClosed(k)
  <2>1. ~Unregister(k) /\ UNCHANGED resOpen /\ k \notin Requests
    BY <1>0, <1>3 DEF ReadStream, Deliver, PollStream, StreamClosed, Unregister, LifeInv, OnceInv
  <2>2. call'[k] # "unregister"
    BY <1>0, <1>3 DEF ReadStream, Deliver, PollStream, StreamClosed, Return, ToDeliver, GoTo, CallTypes
  <2> QED  BY <1>k, <1>o, <2>1, <2>2
<1>4. CASE Unregister(k)
  <2>1. Id(k) \in Ids /\ unregisterRpc(Id(k), FALSE) /\ call[k] = "unregister" /\ UNCHANGED <<result, got>>
    BY <1>4, IdFacts DEF Unregister
  <2>2. \A h \in Calls : call'[h] = IF h = k THEN "returned" ELSE call[h]
    BY <1>0, <1>4 DEF Unregister, GoTo, CallTypes
  <2>3. ASSUME NEW h \in Own
        PROVE  /\ resOpen'[h] => resOpen[h]
               /\ h # k => resOpen'[h] = resOpen[h]
               /\ Answered(h)' <=> Answered(h)
    <3>1. h # k => h # Id(k)
      BY <1>0, OwnFacts
    <3>2. /\ resOpen'[h] => resOpen[h]
          /\ h # Id(k) => resOpen'[h] = resOpen[h]
          /\ \A n \in 1 .. MaxResponses : In(ResCh'[h], n) <=> In(ResCh[h], n)
      BY <1>0, <2>1, OwnClosed
    <3>3. \A n : In(ResCh[h], n)' <=> In(ResCh'[h], n)
      BY DEF In
    <3> QED  BY <2>1, <3>1, <3>2, <3>3 DEF Answered
  <2>4. k \in Requests => ~Sending(k)
    BY <2>1 DEF LifeInv, OnceInv
  <2>5. k \in Streams => ~Sending(k)
    <3>1. k \in Streams => result[k] = "unsent"
      BY <2>1 DEF LifeInv, StreamInv
    <3> QED  BY <1>0, <3>1 DEF KnownInv, Sending, Holds, Sent
  <2>6. \A h \in Requests :
          /\ Sending(h) => resOpen'[h] /\ call'[h] = "read"
          /\ Answered(h)' => Answered(h)
          /\ call'[h] # "poll"
          /\ call'[h] = "unregister" /\ resOpen'[h] => Answered(h)' \/ result'[h] = "unsent"
    BY <1>0, <2>1, <2>2, <2>3, <2>4 DEF LifeInv, OnceInv
  <2>7. \A h \in Streams :
          /\ call'[h] = "unregister" => result'[h] = "unsent"
          /\ Sending(h) /\ resOpen[h] => resOpen'[h]
    BY <1>0, <2>1, <2>2, <2>3, <2>5 DEF LifeInv, StreamInv
  <2> QED  BY <1>u, <2>6, <2>7, LifeKeeps
<1> QED  BY <1>1, <1>2, <1>3, <1>4 DEF CallStep

\* A step that touches neither the channels nor the calls.
LEMMA LifeQuiet ==
    ASSUME LifeInv, UNCHANGED <<InputCh, server, ResCh, resOpen, call, result, got>>, inputOpen' => inputOpen,
           \A h \in Requests : peer[h].over => peer'[h].over,
           \A h \in Streams : cancel[h] # "none" => cancel'[h] # "none"
    PROVE  LifeInv'
<1>1. \A h : (Answered(h)' <=> Answered(h))
  BY DEF Answered, In
<1>2. \A h \in Requests :
        /\ Sending(h) => resOpen'[h] /\ call'[h] = "read"
        /\ Answered(h)' => Answered(h)
        /\ call'[h] # "poll"
        /\ call'[h] = "unregister" /\ resOpen'[h] => Answered(h)' \/ result'[h] = "unsent"
  BY <1>1 DEF LifeInv, OnceInv
<1>3. \A h \in Streams :
        /\ call'[h] = "unregister" => result'[h] = "unsent"
        /\ Sending(h) /\ resOpen[h] => resOpen'[h] \/ cancel'[h] # "none"
  BY DEF LifeInv, StreamInv
<1> QED  BY <1>2, <1>3, LifeKeeps

\* One response to a request, in a queue that grows and shrinks.
Once(q, h) == \A i \in 1 .. Len(q), j \in 1 .. Len(q) : q[i].to = h /\ q[j].to = h => i = j
Holding(q, h) == \E i \in 1 .. Len(q) : q[i].to = h

LEMMA OnceAppend ==
    ASSUME NEW q \in Seq(Responses), NEW m \in Responses, NEW h, Once(q, h), Holding(q, h) => m.to # h
    PROVE  /\ Once(Append(q, m), h)
           /\ Holding(Append(q, m), h) => Holding(q, h) \/ m.to = h
<1>1. /\ Len(Append(q, m)) = Len(q) + 1 /\ Len(q) \in Nat
      /\ \A i \in 1 .. Len(q) : Append(q, m)[i] = q[i]
      /\ Append(q, m)[Len(q) + 1] = m
  BY AppendProperties, LenProperties
<1>2. Once(Append(q, m), h)
  <2> SUFFICES ASSUME NEW i \in 1 .. Len(q) + 1, NEW j \in 1 .. Len(q) + 1,
                      Append(q, m)[i].to = h, Append(q, m)[j].to = h
               PROVE  i = j
    BY <1>1 DEF Once
  <2>1. CASE i \in 1 .. Len(q) /\ j \in 1 .. Len(q)
    BY <1>1, <2>1 DEF Once
  <2>2. CASE i = Len(q) + 1 /\ j \in 1 .. Len(q)
    BY <1>1, <2>2 DEF Holding
  <2>3. CASE i \in 1 .. Len(q) /\ j = Len(q) + 1
    BY <1>1, <2>3 DEF Holding
  <2> QED  BY <1>1, <2>1, <2>2, <2>3
<1>3. Holding(Append(q, m), h) => Holding(q, h) \/ m.to = h
  <2> SUFFICES ASSUME NEW i \in 1 .. Len(q) + 1, Append(q, m)[i].to = h PROVE Holding(q, h) \/ m.to = h
    BY <1>1 DEF Holding
  <2>1. CASE i \in 1 .. Len(q)
    BY <1>1, <2>1 DEF Holding
  <2>2. CASE i = Len(q) + 1
    BY <1>1, <2>2
  <2> QED  BY <1>1, <2>1, <2>2
<1> QED  BY <1>2, <1>3

LEMMA OnceTail ==
    ASSUME NEW q \in Seq(Responses), q # <<>>, NEW h, Once(q, h)
    PROVE  /\ Once(Tail(q), h)
           /\ Holding(Tail(q), h) => Holding(q, h) /\ Head(q).to # h
           /\ Head(q) \in Responses /\ Holding(q, Head(q).to)
<1>1. /\ Len(q) \in Nat \ {0} /\ Head(q) = q[1] /\ Head(q) \in Responses
      /\ Len(Tail(q)) = Len(q) - 1
      /\ \A i \in 1 .. Len(Tail(q)) : Tail(q)[i] = q[i + 1]
  BY HeadTailProperties, EmptySeq, LenProperties, ElementOfSeq
<1>2. Once(Tail(q), h)
  <2> SUFFICES ASSUME NEW i \in 1 .. Len(Tail(q)), NEW j \in 1 .. Len(Tail(q)),
                      Tail(q)[i].to = h, Tail(q)[j].to = h
               PROVE  i = j
    BY DEF Once
  <2>1. i + 1 \in 1 .. Len(q) /\ j + 1 \in 1 .. Len(q) /\ q[i + 1].to = h /\ q[j + 1].to = h
    BY <1>1
  <2>2. i + 1 = j + 1
    BY <2>1 DEF Once
  <2> QED  BY <1>1, <2>2
<1>3. ASSUME NEW i \in 1 .. Len(Tail(q)), Tail(q)[i].to = h PROVE Holding(q, h) /\ Head(q).to # h
  <2>1. i + 1 \in 1 .. Len(q) /\ q[i + 1].to = h /\ 1 \in 1 .. Len(q) /\ i + 1 # 1
    BY <1>1, <1>3
  <2> QED  BY <1>1, <2>1 DEF Once, Holding
<1>4. Holding(q, Head(q).to)
  BY <1>1 DEF Holding
<1> QED  BY <1>1, <1>2, <1>3, <1>4 DEF Holding

LEMMA IncomingHolding ==
    InputTypes => /\ OneMessage <=> \A h \in Requests : Once(InputCh, h)
                  /\ \A h : Incoming(h) <=> Holding(InputCh, h)
<1> SUFFICES ASSUME InputTypes
             PROVE  /\ OneMessage <=> \A h \in Requests : Once(InputCh, h)
                    /\ \A h : Incoming(h) <=> Holding(InputCh, h)
  OBVIOUS
<1>1. \A i \in 1 .. Len(InputCh) : InputCh[i] \in Responses
  BY ElementOfSeq DEF InputTypes
<1> QED  BY <1>1 DEF OneMessage, Once, Incoming, Holding, In

LEMMA IncomingHoldingNext ==
    InputTypes' => /\ OneMessage' <=> \A h \in Requests : Once(InputCh', h)
                   /\ \A h : Incoming(h)' <=> Holding(InputCh', h)
<1> SUFFICES ASSUME InputTypes'
             PROVE  /\ OneMessage' <=> \A h \in Requests : Once(InputCh', h)
                    /\ \A h : Incoming(h)' <=> Holding(InputCh', h)
  OBVIOUS
<1>1. \A i \in 1 .. Len(InputCh') : InputCh'[i] \in Responses
  BY ElementOfSeq DEF InputTypes
<1> QED  BY <1>1 DEF OneMessage, Once, Incoming, Holding, In

LEMMA LifeOtherStep ==
    ASSUME TypeInv, TypeInv', RegInv, KnownInv, LifeInv,
           \/ \E h \in Calls : Watch(h) \/ Expire(h) \/ PeerRespond(h)
           \/ \E h \in Streams : SendCancel(h) \/ CancelUnregister(h) \/ ReaderTakes(h)
           \/ PeerReceive \/ CloseInput
    PROVE  LifeInv'
<1> USE DEF rpcVars, serverVars, callVars, inputVars
<1>t. InputTypes'
  BY DEF TypeInv, TypeOK, PeerInv, InputTypes, PeerStates
<1>0. /\ TypeOK /\ CallTypes /\ InputTypes /\ InputTypes'
      /\ Requests \subseteq Own /\ Streams \subseteq Own /\ Requests \cap Streams = {}
      /\ Requests \subseteq Calls /\ Streams \subseteq Ids
  BY <1>t, TypeParts, CallsAssumption DEF TypeInv, Own, Calls, Ids
<1>1. ASSUME NEW k \in Calls, Watch(k) \/ Expire(k) PROVE LifeInv'
  BY <1>1, LifeQuiet DEF Watch, Expire
<1>7. ASSUME NEW k \in Streams, ReaderTakes(k) PROVE LifeInv'
  BY <1>7, LifeQuiet DEF ReaderTakes
<1>2. ASSUME NEW k \in Calls, PeerRespond(k) PROVE LifeInv'
  <2>1. PICK cont \in BOOLEAN :
          /\ cont => k \in Streams
          /\ InputCh' = Append(InputCh, Response(k, peer[k].sent + 1, cont))
          /\ peer' = [peer EXCEPT ![k] = [has |-> @.has, sent |-> @.sent + 1, over |-> ~cont]]
          /\ Response(k, peer[k].sent + 1, cont) \in Responses
    BY <1>2, ResponseFacts
  <2>2. PICK m \in Responses : InputCh' = Append(InputCh, m) /\ m.to = k
    BY <2>1 DEF Response
  <2>3. \A h \in Requests : h # k => peer'[h] = peer[h]
    BY <1>0, <2>1 DEF InputTypes
  <2>4. k \in Requests => peer'[k].over /\ ~peer[k].over
    BY <1>0, <1>2, <2>1 DEF InputTypes, PeerRespond
  <2>5. k \in Requests => ~Incoming(k) /\ ~Sending(k) /\ ~Answered(k)
    BY <2>4 DEF LifeInv, OnceInv
  <2>6. \A h \in Requests : Once(InputCh, h) /\ (Holding(InputCh, h) => m.to # h)
    BY <1>0, <2>2, <2>5, IncomingHolding DEF LifeInv
  <2>7. \A h \in Requests : Once(InputCh', h) /\ (Holding(InputCh', h) => Holding(InputCh, h) \/ h = k)
    <3>1. ASSUME NEW q \in Seq(Responses), NEW h, Once(q, h), Holding(q, h) => m.to # h
          PROVE  Once(Append(q, m), h) /\ (Holding(Append(q, m), h) => Holding(q, h) \/ m.to = h)
      BY <3>1, OnceAppend
    <3> QED  BY <1>0, <2>2, <2>6, <3>1 DEF InputTypes
  <2>8. OneMessage' /\ \A h \in Requests : Incoming(h)' => Incoming(h) \/ h = k
    BY <1>0, <2>7, IncomingHolding, IncomingHoldingNext
  <2>9. UNCHANGED <<server, ResCh, resOpen, call, result, got, cancel, inputOpen>>
    BY <1>2 DEF PeerRespond
  <2>10. \A h : (Sending(h)' <=> Sending(h)) /\ (Answered(h)' <=> Answered(h))
    BY <2>9 DEF Sending, Answered, In
  <2>11. OnceInv'
    BY <2>3, <2>4, <2>5, <2>8, <2>9, <2>10 DEF LifeInv, OnceInv
  <2>12. StreamInv' /\ ServerSurvives'
    BY <2>9, <2>10 DEF LifeInv, StreamInv, ServerSurvives
  <2> QED  BY <2>8, <2>11, <2>12 DEF LifeInv
<1>3. ASSUME NEW k \in Streams, SendCancel(k) PROVE LifeInv'
  <2>1. \A h \in Streams : cancel[h] # "none" => cancel'[h] # "none"
    BY <1>0, <1>3 DEF SendCancel, CallTypes
  <2> QED  BY <1>3, <2>1, LifeQuiet DEF SendCancel
<1>4. ASSUME NEW k \in Streams, CancelUnregister(k) PROVE LifeInv'
  <2>1. k \in Ids /\ unregisterRpc(k, FALSE)
    BY <1>0, <1>4 DEF CancelUnregister
  <2>2. ASSUME NEW h \in Own
        PROVE  /\ h # k => resOpen'[h] = resOpen[h]
               /\ resOpen'[h] => resOpen[h]
               /\ \A n \in 1 .. MaxResponses : In(ResCh'[h], n) <=> In(ResCh[h], n)
    BY <1>0, <2>1, OwnClosed
  <2>3. UNCHANGED <<call, result, got, server, InputCh, inputOpen, peer>>
    BY <1>4 DEF CancelUnregister
  <2>4. \A h \in Own : Answered(h)' <=> Answered(h)
    BY <2>2, <2>3 DEF Answered, In
  <2>5. \A h \in Streams : (h = k => cancel'[h] # "none") /\ (h # k => cancel'[h] = cancel[h])
    BY <1>0, <1>4 DEF CancelUnregister, CallTypes
  <2>6. \A h \in Requests :
          /\ Sending(h) => resOpen'[h] /\ call'[h] = "read"
          /\ Answered(h)' => Answered(h)
          /\ call'[h] # "poll"
          /\ call'[h] = "unregister" /\ resOpen'[h] => Answered(h)' \/ result'[h] = "unsent"
    BY <1>0, <2>2, <2>3, <2>4 DEF LifeInv, OnceInv
  <2>7. \A h \in Streams :
          /\ call'[h] = "unregister" => result'[h] = "unsent"
          /\ Sending(h) /\ resOpen[h] => resOpen'[h] \/ cancel'[h] # "none"
          /\ cancel[h] # "none" => cancel'[h] # "none"
    BY <1>0, <2>2, <2>3, <2>5 DEF LifeInv, StreamInv
  <2> QED  BY <2>3, <2>6, <2>7, LifeKeeps
<1>5. CASE PeerReceive
  <2>1. ASSUME NEW h \in Requests PROVE peer[h].over => peer'[h].over
    BY <1>0, <1>5 DEF PeerReceive, InputTypes, PeerStates
  <2> QED  BY <1>5, <2>1, LifeQuiet DEF PeerReceive
<1>6. CASE CloseInput
  BY <1>6, LifeQuiet DEF CloseInput
<1> QED  BY <1>1, <1>2, <1>3, <1>4, <1>5, <1>6, <1>7

LEMMA LifeServerStep ==
    ASSUME TypeInv, TypeInv', RegInv, KnownInv, LifeInv, ServerStep
    PROVE  LifeInv'
<1> USE DEF rpcVars, serverVars, callVars, inputVars
<1>0. /\ TypeOK /\ RpcTypes /\ CallTypes /\ ServerTypes /\ InputTypes /\ CtxDoneTypes
      /\ Requests \subseteq Own /\ Streams \subseteq Own /\ Requests \cap Streams = {}
      /\ \A h \in Own : h \in Calls /\ h \in Ids /\ h \notin Commands
  BY TypeParts, CallsAssumption DEF TypeInv, Own, Calls, Ids
<1>t. InputTypes'
  BY DEF TypeInv, TypeOK, PeerInv, InputTypes, PeerStates
<1>a. ASSUME NEW p, ServerAt(p) PROVE server'.pc = p /\ server'.msg = server.msg
  BY <1>0, <1>a DEF ServerAt, ServerTypes
<1>p. UNCHANGED <<call, result, got, cancel, peer, inputOpen>>
  BY DEF ServerStep, ServerReceive, ServerTimeout, ServerSend, ServerGiveUp, ServerFinish, ServerInputClosed,
         ServerCloseOutput, setServerDone
<1>m. server.pc \in {"send", "blocked", "finish"} => server.msg.to \in Own /\ server.msg.n \in 1 .. MaxResponses
  BY <1>0 DEF ServerTypes, Responses, Own
\* A step that closes no channel but that of a call it fails, and after which runServer delivers nothing.
<1>q. ASSUME UNCHANGED InputCh, \A h : ~Sending(h)', server'.pc \in {"dying", "closed", "done"} => ServerSurvives',
             \A h \in Own : (Answered(h)' => Answered(h)) /\ (resOpen'[h] => resOpen[h]),
             \A h \in Requests : Answered(h) => Answered(h)'
      PROVE  LifeInv'
  <2>1. \A h : Incoming(h)' <=> Incoming(h)
    BY <1>q DEF Incoming
  <2>2. OneMessage'
    BY <1>q DEF LifeInv, OneMessage
  <2>3. OnceInv'
    BY <1>0, <1>p, <1>q, <2>1, OnceKeeps DEF LifeInv, OnceInv
  <2>4. StreamInv'
    BY <1>p, <1>q DEF LifeInv, StreamInv
  <2>5. ServerSurvives'
    BY <1>q DEF ServerSurvives
  <2> QED  BY <2>2, <2>3, <2>4, <2>5 DEF LifeInv
\* What a call of unregisterRpc changes.
<1>u. ASSUME NEW id \in Ids, NEW err \in BOOLEAN, unregisterRpc(id, err), NEW h \in Own
      PROVE  (Answered(h)' <=> Answered(h)) /\ (resOpen'[h] => resOpen[h])
  <2>1. /\ resOpen'[h] => resOpen[h]
        /\ \A n \in 1 .. MaxResponses : In(ResCh'[h], n) <=> In(ResCh[h], n)
    BY <1>0, <1>u, OwnClosed
  <2> QED  BY <1>p, <2>1 DEF Answered, In
<1>1. CASE ServerReceive
  <2>1. server.pc = "select" /\ InputCh # <<>> /\ InputCh' = Tail(InputCh) /\ UNCHANGED <<RpcMap, ResCh, resOpen>>
    BY <1>1 DEF ServerReceive
  <2>2. \A h : ~Sending(h) /\ (Answered(h)' <=> Answered(h))
    BY <1>p, <2>1 DEF Sending, Answered, In
  <2>3. PICK m : m = Head(InputCh)
    OBVIOUS
  <2>4. m \in Responses /\ Holding(InputCh, m.to)
        /\ \A h \in Requests : Once(InputCh', h) /\ (Holding(InputCh', h) => Holding(InputCh, h) /\ m.to # h)
    <3>1. ASSUME NEW q \in Seq(Responses), q # <<>>, NEW h, Once(q, h)
          PROVE  /\ Once(Tail(q), h) /\ (Holding(Tail(q), h) => Holding(q, h) /\ Head(q).to # h)
      BY <3>1, OnceTail
    <3>2. ASSUME NEW q \in Seq(Responses), q # <<>>
          PROVE  Head(q) \in Responses /\ Holding(q, Head(q).to)
      BY <3>2, HeadTailProperties, EmptySeq, LenProperties, ElementOfSeq DEF Holding
    <3>3. \A h \in Requests : Once(InputCh, h)
      BY <1>0, IncomingHolding DEF LifeInv
    <3> QED  BY <1>0, <2>1, <2>3, <3>1, <3>2, <3>3 DEF InputTypes
  <2>5. OneMessage' /\ Incoming(m.to) /\ \A h \in Requests : Incoming(h)' => Incoming(h) /\ m.to # h
    BY <1>0, <1>t, <2>4, IncomingHolding, IncomingHoldingNext
  <2>6. m.to \in Own
    BY <2>4 DEF Responses, Own
  <2>7. CASE RpcMap[m.to] = Nobody
    <3>1. UNCHANGED server
      BY <1>1, <2>3, <2>7 DEF ServerReceive
    <3>2. \A h : ~Sending(h)'
      BY <2>1, <3>1 DEF Sending
    <3>3. OnceInv'
      BY <1>p, <2>1, <2>2, <2>5, <3>2, OnceKeeps DEF LifeInv, OnceInv
    <3>4. StreamInv' /\ ServerSurvives'
      BY <1>p, <2>1, <3>1, <3>2 DEF LifeInv, StreamInv, ServerSurvives
    <3> QED  BY <2>5, <3>3, <3>4 DEF LifeInv
  <2>8. CASE RpcMap[m.to] # Nobody
    <3>1. server'.pc = "send" /\ server'.msg = m
      BY <1>1, <2>3, <2>8 DEF ServerReceive
    <3>2. \A h : Sending(h)' <=> h = m.to
      BY <3>1 DEF Sending
    <3>3. RpcMap[m.to] = m.to /\ resOpen[m.to]
      BY <1>0, <2>6, <2>8, OwnFacts, RegisteredSelf DEF RegInv
    <3>4. Sent(m.to)
      BY <2>5, <2>6 DEF KnownInv
    <3>5. m.to \in Requests => ~Answered(m.to) /\ call[m.to] = "read" /\ peer[m.to].over
      <4> SUFFICES ASSUME m.to \in Requests PROVE ~Answered(m.to) /\ call[m.to] = "read" /\ peer[m.to].over
        OBVIOUS
      <4>1. ~Answered(m.to) /\ peer[m.to].over /\ call[m.to] \notin {"poll", "deliver"}
        BY <1>0, <2>5, <2>6 DEF LifeInv, OnceInv, RegInv, ResultInv
      <4>2. call[m.to] # "unregister"
        BY <3>3, <3>4, <4>1 DEF LifeInv, OnceInv, Sent
      <4>3. call[m.to] # "returned"
        BY <1>0, <2>6, <3>3, <3>4, OwnFacts DEF RegInv, GoneInv, Ending, Left, Sent
      <4>4. call[m.to] \in CallStates
        BY <1>0, <2>6 DEF CallTypes
      <4> QED  BY <3>4, <4>1, <4>2, <4>3, <4>4 DEF CallStates, Sent, Begun
    <3>6. OnceInv'
      BY <1>p, <2>1, <2>2, <2>5, <3>2, <3>3, <3>5 DEF LifeInv, OnceInv
    <3>7. StreamInv' /\ ServerSurvives'
      BY <1>p, <2>1, <3>1, <3>2, <3>3 DEF LifeInv, StreamInv, ServerSurvives
    <3> QED  BY <2>5, <3>6, <3>7 DEF LifeInv
  <2> QED  BY <2>7, <2>8
<1>2. CASE ServerTimeout
  <2>1. /\ Head(CtxDoneCh) \in Ids /\ unregisterRpc(Head(CtxDoneCh), TRUE)
        /\ server.pc = "select" /\ UNCHANGED <<server, InputCh>>
    BY <1>0, <1>2, TailFacts DEF ServerTimeout, CtxDoneTypes
  <2>2. \A h : ~Sending(h)'
    BY <2>1 DEF Sending
  <2> QED  BY <1>q, <1>u, <1>0, <2>1, <2>2
<1>3. CASE ServerSend
  <2>1. server.pc \in {"send", "blocked"} /\ UNCHANGED <<InputCh, resOpen>> /\ server.msg.to \in Own
    BY <1>3, <1>m DEF ServerSend
  <2>2. server.msg.to \in Requests =>
          /\ resOpen[server.msg.to] /\ call[server.msg.to] = "read" /\ peer[server.msg.to].over
          /\ ~Incoming(server.msg.to) /\ ~Answered(server.msg.to)
    BY <2>1 DEF Sending, LifeInv, OnceInv
  <2>3. CASE resOpen[server.msg.to] /\ server'.pc \in {"select", "finish"}
             /\ ResCh' = [ResCh EXCEPT ![server.msg.to] = Append(@, server.msg.n)]
    <3>1. \A h : ~Sending(h)'
      BY <2>3 DEF Sending
    <3>2. \A h \in Own \ {server.msg.to} : Answered(h)' <=> Answered(h)
      <4>1. \A h \in Own \ {server.msg.to} : ResCh'[h] = ResCh[h]
        BY <1>0, <2>3 DEF RpcTypes
      <4> QED  BY <1>p, <4>1 DEF Answered, In
    <3>3. \A h : Incoming(h)' <=> Incoming(h)
      BY <2>1 DEF Incoming
    <3>4. OnceInv'
      BY <1>0, <1>p, <2>1, <2>2, <3>1, <3>2, <3>3 DEF LifeInv, OnceInv
    <3>5. OneMessage' /\ StreamInv' /\ ServerSurvives'
      BY <1>p, <2>1, <2>3, <3>1 DEF LifeInv, OneMessage, StreamInv, ServerSurvives
    <3> QED  BY <3>4, <3>5 DEF LifeInv
  <2>4. CASE resOpen[server.msg.to] /\ server'.pc = "blocked" /\ server'.msg = server.msg /\ UNCHANGED ResCh
    <3>1. \A h : (Sending(h)' <=> Sending(h)) /\ (Answered(h)' <=> Answered(h)) /\ (Incoming(h)' <=> Incoming(h))
      BY <1>p, <2>1, <2>4 DEF Sending, Answered, Incoming, In
    <3> QED  BY <1>p, <2>1, <2>4, <3>1 DEF LifeInv, OneMessage, OnceInv, StreamInv, ServerSurvives
  <2>5. CASE ~resOpen[server.msg.to] /\ server'.pc = "dying" /\ UNCHANGED ResCh
    <3>1. server.msg.to \in Streams
      BY <2>1, <2>2, <2>5 DEF Own
    <3>2. cancel[server.msg.to] # "none"
      BY <2>1, <2>5, <3>1 DEF Sending, LifeInv, StreamInv
    <3>3. ServerSurvives'
      BY <1>p, <3>1, <3>2 DEF ServerSurvives
    <3>4. \A h : ~Sending(h)' /\ (Answered(h)' <=> Answered(h))
      BY <1>p, <2>5 DEF Sending, Answered, In
    <3> QED  BY <1>q, <2>1, <3>3, <3>4
  <2>6. Delivered \in {"select", "finish"}
    BY DEF Delivered
  <2> QED  BY <1>3, <1>a, <2>3, <2>4, <2>5, <2>6 DEF ServerSend
<1>4. CASE ServerGiveUp \/ ServerFinish
  <2>1. /\ server.pc \in {"blocked", "finish"} /\ unregisterRpc(server.msg.to, FALSE) /\ UNCHANGED InputCh
        /\ server'.pc \in {"select", "finish"}
    BY <1>4, <1>a DEF ServerGiveUp, ServerFinish, Delivered
  <2>2. \A h : ~Sending(h)'
    BY <2>1 DEF Sending
  <2>3. server.msg.to \in Ids
    BY <1>0, <1>m, <2>1
  <2> QED  BY <1>0, <1>q, <1>u, <2>1, <2>2, <2>3
<1>5. CASE ServerInputClosed \/ ServerCloseOutput
  <2>1. /\ UNCHANGED <<InputCh, ResCh, resOpen>> /\ server'.pc \in {"dying", "closed"}
        /\ ~inputOpen \/ server.pc = "dying"
    BY <1>5, <1>a DEF ServerInputClosed, ServerCloseOutput
  <2>2. \A h : ~Sending(h)' /\ (Answered(h)' <=> Answered(h))
    BY <1>p, <2>1 DEF Sending, Answered, In
  <2>3. ServerSurvives'
    BY <1>p, <2>1 DEF LifeInv, ServerSurvives
  <2> QED  BY <1>q, <2>1, <2>2, <2>3
<1>6. CASE setServerDone
  <2>1. /\ InputCh' = <<>> /\ UNCHANGED <<ResCh, resOpen>> /\ server'.pc = "done" /\ server.pc = "closed"
    BY <1>6, <1>a DEF setServerDone
  <2>2. \A h : ~Sending(h)' /\ (Answered(h)' <=> Answered(h))
    BY <1>p, <2>1 DEF Sending, Answered, In
  <2>3. OneMessage' /\ \A h : ~Incoming(h)'
    BY <2>1, EmptySeq DEF OneMessage, Incoming, In
  <2>4. OnceInv'
    BY <1>p, <2>1, <2>2, <2>3, OnceKeeps DEF LifeInv, OnceInv
  <2>5. StreamInv' /\ ServerSurvives'
    BY <1>p, <2>1, <2>2 DEF LifeInv, StreamInv, ServerSurvives
  <2> QED  BY <2>3, <2>4, <2>5 DEF LifeInv
<1> QED  BY <1>1, <1>2, <1>3, <1>4, <1>5, <1>6 DEF ServerStep

LEMMA LifeStep == TypeInv /\ TypeInv' /\ RegInv /\ KnownInv /\ LifeInv /\ [Next]_vars => LifeInv'
<1> SUFFICES ASSUME TypeInv, TypeInv', RegInv, KnownInv, LifeInv, [Next]_vars PROVE LifeInv'
  OBVIOUS
<1>1. CASE \E h \in Calls : CallStep(h)
  BY <1>1, LifeCallStep
<1>2. CASE \/ \E h \in Calls : Watch(h) \/ Expire(h) \/ PeerRespond(h)
           \/ \E h \in Streams : SendCancel(h) \/ CancelUnregister(h) \/ ReaderTakes(h)
           \/ PeerReceive \/ CloseInput
  BY <1>2, LifeOtherStep
<1>3. CASE ServerStep
  BY <1>3, LifeServerStep
<1>4. CASE UNCHANGED vars
  BY <1>4, LifeQuiet DEF vars, rpcVars, serverVars, callVars, inputVars
<1> QED  BY <1>1, <1>2, <1>3, <1>4 DEF Next

\* However calls, deadlines and late answers interleave, runServer does not panic on a closed channel,
\* and so the client lives as long as its input, unless a stream was canceled.
THEOREM ServerLives == Spec => []ServerSurvives
<1>1. LifeInv => ServerSurvives
  BY DEF LifeInv
<1>2. Init => TypeInv /\ RegInv /\ KnownInv /\ LifeInv
  BY TypeInit, RegInit, TimeoutInit, LifeInit
<1>3. TypeInv /\ RegInv /\ KnownInv /\ LifeInv /\ [Next]_vars => TypeInv' /\ RegInv' /\ KnownInv' /\ LifeInv'
  BY TypeStep, RegStep, KnownStep, LifeStep
<1> QED  BY <1>1, <1>2, <1>3, PTL DEF Spec

-----------------------------------------------------------------------------
(* The order of the responses.                                             *)

\* The responses to h in queue q are those from b + 1 to s, in this order.
Waiting(q, h, b, s) ==
    /\ \A i \in 1 .. Len(q) : q[i].to = h => q[i].n \in b + 1 .. s
    /\ \A i \in 1 .. Len(q), j \in 1 .. Len(q) : i < j /\ q[i].to = h /\ q[j].to = h => q[i].n < q[j].n
    /\ \A n \in b + 1 .. s : \E i \in 1 .. Len(q) : q[i].to = h /\ q[i].n = n

\* Of the responses to h: how many have come past the input channel.
Past(h) == Len(got[h]) + Len(ResCh[h]) + (IF Sending(h) THEN 1 ELSE 0)

\* The messages of channel c go on where those read, g, end; an error may be the last.
Follow(g, c) == \A i \in 1 .. Len(c) : c[i] = Len(g) + i \/ (c[i] = TimeoutError /\ i = Len(c))

\* What h has read, what is in its channel (perhaps with an error at the end) and, while the channel is
\* open, what runServer holds and what is in the input are consecutive.
ReadOk(h)    == \A i \in 1 .. Len(got[h]) : got[h][i] = i
ChannelOk(h) == Follow(got[h], ResCh[h])
ComingOk(h)  == resOpen[h] /\ server.pc # "done" =>
                    /\ Sending(h) => server.msg.n = Len(got[h]) + Len(ResCh[h]) + 1
                    /\ Past(h) <= peer[h].sent
                    /\ Waiting(InputCh, h, Past(h), peer[h].sent)
Gap(h)       == ReadOk(h) /\ ChannelOk(h) /\ ComingOk(h)

\* A call whose request is out is registered as long as its channel is open.
OpenInv == \A h \in Own : (call[h] = "send" \/ Sent(h)) /\ resOpen[h] => RpcMap[h] = h
\* The calls that have given their caller all that they took from the channel.
Whole   == {h \in Own : result[h] \notin {"failed", "unreadable"}}
GapInv  == (\A h \in Own : ReadOk(h)) /\ (\A h \in Whole : Gap(h)) /\ (\A h \in Commands : got[h] = <<>>)

LEMMA WaitingAppend ==
    ASSUME NEW q \in Seq(Responses), NEW m \in Responses, NEW h, NEW b \in Nat, NEW s \in Nat,
           Waiting(q, h, b, s), b <= s
    PROVE  /\ m.to # h => Waiting(Append(q, m), h, b, s)
           /\ m.to = h /\ m.n = s + 1 => Waiting(Append(q, m), h, b, s + 1)
<1>1. /\ Len(Append(q, m)) = Len(q) + 1 /\ Len(q) \in Nat
      /\ \A i \in 1 .. Len(q) : Append(q, m)[i] = q[i]
      /\ Append(q, m)[Len(q) + 1] = m
  BY AppendProperties, LenProperties
<1>2. \A i \in 1 .. Len(q) : q[i].n \in Nat
  <2>1. \A i \in 1 .. Len(q) : q[i] \in Responses
    BY ElementOfSeq
  <2> QED  BY <2>1, Sizes DEF Responses
<1>3. PICK p : p = Append(q, m)
  OBVIOUS
<1>4. /\ Len(p) = Len(q) + 1 /\ Len(q) \in Nat
      /\ \A i \in 1 .. Len(q) : p[i] = q[i] /\ i \in 1 .. Len(p)
      /\ p[Len(q) + 1] = m /\ Len(q) + 1 \in 1 .. Len(p)
      /\ \A i \in 1 .. Len(p) : i \in 1 .. Len(q) \/ i = Len(q) + 1
  BY <1>1, <1>3
<1>5. ASSUME m.to # h PROVE Waiting(p, h, b, s)
  BY <1>4, <1>5 DEF Waiting
<1>6. ASSUME m.to = h, m.n = s + 1 PROVE Waiting(p, h, b, s + 1)
  <2>1. \A i \in 1 .. Len(p) : p[i].to = h => p[i].n \in b + 1 .. s + 1
    <3> SUFFICES ASSUME NEW i \in 1 .. Len(p), p[i].to = h PROVE p[i].n \in b + 1 .. s + 1
      OBVIOUS
    <3>1. CASE i \in 1 .. Len(q)
      BY <1>4, <3>1 DEF Waiting
    <3>2. CASE i = Len(q) + 1
      BY <1>4, <1>6, <3>2
    <3> QED  BY <1>4, <3>1, <3>2
  <2>2. ASSUME NEW i \in 1 .. Len(p), NEW j \in 1 .. Len(p), i < j, p[i].to = h, p[j].to = h
        PROVE  p[i].n < p[j].n
    <3>1. i \in 1 .. Len(q)
      BY <1>4, <2>2
    <3>2. CASE j \in 1 .. Len(q)
      BY <1>4, <2>2, <3>1, <3>2 DEF Waiting
    <3>3. CASE j = Len(q) + 1
      <4>1. p[i] = q[i] /\ q[i].n \in b + 1 .. s
        BY <1>4, <2>2, <3>1 DEF Waiting
      <4> QED  BY <1>4, <1>6, <3>3, <4>1
    <3> QED  BY <1>4, <3>2, <3>3
  <2>3. ASSUME NEW n \in b + 1 .. s + 1 PROVE \E i \in 1 .. Len(p) : p[i].to = h /\ p[i].n = n
    <3>1. CASE n = s + 1
      BY <1>4, <1>6, <3>1
    <3>2. CASE n \in b + 1 .. s
      BY <1>4, <3>2 DEF Waiting
    <3> QED  BY <3>1, <3>2
  <2> QED  BY <2>1, <2>2, <2>3 DEF Waiting
<1> QED  BY <1>3, <1>5, <1>6

LEMMA WaitingTail ==
    ASSUME NEW q \in Seq(Responses), q # <<>>, NEW h, NEW b \in Nat, NEW s \in Nat, Waiting(q, h, b, s)
    PROVE  /\ Head(q).to # h => Waiting(Tail(q), h, b, s)
           /\ Head(q).to = h => Head(q).n = b + 1 /\ b + 1 <= s /\ Waiting(Tail(q), h, b + 1, s)
<1>1. /\ Len(q) \in Nat \ {0} /\ Head(q) = q[1]
      /\ Len(Tail(q)) = Len(q) - 1
      /\ \A i \in 1 .. Len(Tail(q)) : Tail(q)[i] = q[i + 1]
  BY HeadTailProperties, EmptySeq, LenProperties
<1>2. PICK p : p = Tail(q)
  OBVIOUS
<1>3. /\ Len(p) = Len(q) - 1 /\ Len(q) \in Nat \ {0}
      /\ \A i \in 1 .. Len(p) : p[i] = q[i + 1] /\ i + 1 \in 1 .. Len(q)
      /\ \A i \in 1 .. Len(q) : i = 1 \/ (i - 1 \in 1 .. Len(p) /\ p[i - 1] = q[i])
  BY <1>1, <1>2
<1>4. ASSUME NEW i \in 1 .. Len(p), NEW j \in 1 .. Len(p), i < j, p[i].to = h, p[j].to = h
      PROVE  p[i].n < p[j].n
  <2>1. i + 1 < j + 1 /\ p[i] = q[i + 1] /\ p[j] = q[j + 1] /\ i + 1 \in 1 .. Len(q) /\ j + 1 \in 1 .. Len(q)
    BY <1>3, <1>4
  <2> QED  BY <1>4, <2>1 DEF Waiting
<1>5. ASSUME q[1].to # h PROVE Waiting(p, h, b, s)
  <2>1. \A i \in 1 .. Len(p) : p[i].to = h => p[i].n \in b + 1 .. s
    BY <1>3 DEF Waiting
  <2>2. ASSUME NEW n \in b + 1 .. s PROVE \E i \in 1 .. Len(p) : p[i].to = h /\ p[i].n = n
    <3>1. PICK i \in 1 .. Len(q) : q[i].to = h /\ q[i].n = n
      BY DEF Waiting
    <3> QED  BY <1>3, <1>5, <3>1
  <2> QED  BY <1>4, <2>1, <2>2 DEF Waiting
<1>6. ASSUME q[1].to = h PROVE q[1].n = b + 1 /\ b + 1 <= s /\ Waiting(p, h, b + 1, s)
  <2>1. 1 \in 1 .. Len(q) /\ q[1].n \in b + 1 .. s
    BY <1>3, <1>6 DEF Waiting
  <2>2. b + 1 \in b + 1 .. s
    BY <2>1
  <2>3. PICK i \in 1 .. Len(q) : q[i].to = h /\ q[i].n = b + 1
    BY <2>2 DEF Waiting
  <2>4. i = 1 \/ 1 < i
    OBVIOUS
  <2>5. 1 < i => q[1].n < b + 1
    BY <1>6, <2>1, <2>3 DEF Waiting
  <2>6. q[1].n = b + 1
    BY <2>1, <2>3, <2>4, <2>5
  <2>7. ASSUME NEW k \in 1 .. Len(p), p[k].to = h PROVE p[k].n \in b + 2 .. s
    <3>1. p[k] = q[k + 1] /\ k + 1 \in 1 .. Len(q) /\ 1 < k + 1
      BY <1>3
    <3>2. q[1].n < q[k + 1].n /\ q[k + 1].n \in b + 1 .. s
      BY <1>6, <2>1, <2>7, <3>1 DEF Waiting
    <3> QED  BY <2>6, <3>1, <3>2
  <2>8. ASSUME NEW n \in b + 2 .. s PROVE \E k \in 1 .. Len(p) : p[k].to = h /\ p[k].n = n
    <3>1. PICK k \in 1 .. Len(q) : q[k].to = h /\ q[k].n = n
      BY DEF Waiting
    <3>2. k # 1
      BY <2>6, <3>1
    <3> QED  BY <1>3, <3>1, <3>2
  <2>9. \A k \in 1 .. Len(p) : p[k].to = h => p[k].n \in (b + 1) + 1 .. s
    BY <2>7
  <2>10. \A n \in (b + 1) + 1 .. s : \E k \in 1 .. Len(p) : p[k].to = h /\ p[k].n = n
    BY <2>8
  <2>11. Waiting(p, h, b + 1, s)
    BY <1>4, <2>9, <2>10, Zenon DEF Waiting
  <2> QED  BY <2>2, <2>6, <2>11
<1> QED  BY <1>1, <1>2, <1>5, <1>6

\* A channel from which one message is taken, and one to which a message is added.
LEMMA TakeOrder ==
    ASSUME NEW g \in Seq(1 .. MaxResponses), NEW c \in Seq(0 .. MaxResponses), c # <<>>,
           \A i \in 1 .. Len(g) : g[i] = i, Follow(g, c)
    PROVE  /\ Head(c) = TimeoutError => Follow(g, Tail(c))
           /\ Head(c) # TimeoutError =>
                /\ \A i \in 1 .. Len(Append(g, Head(c))) : Append(g, Head(c))[i] = i
                /\ Follow(Append(g, Head(c)), Tail(c))
                /\ Len(Append(g, Head(c))) + Len(Tail(c)) = Len(g) + Len(c)
<1>1. /\ Len(c) \in Nat \ {0} /\ Head(c) = c[1] /\ Len(Tail(c)) = Len(c) - 1 /\ Len(g) \in Nat
      /\ \A i \in 1 .. Len(Tail(c)) : Tail(c)[i] = c[i + 1]
  BY HeadTailProperties, EmptySeq, LenProperties
<1>2. 1 \in 1 .. Len(c)
  BY <1>1
<1>3. PICK x : x = Head(c)
  OBVIOUS
<1>4. PICK t : t = Tail(c)
  OBVIOUS
<1>5. x = c[1] /\ Len(t) = Len(c) - 1 /\ \A i \in 1 .. Len(t) : t[i] = c[i + 1] /\ i + 1 \in 1 .. Len(c)
  BY <1>1, <1>3, <1>4
<1>6. x \in 0 .. MaxResponses
  BY <1>2, <1>5, ElementOfSeq
<1>7. x = Len(g) + 1 \/ (x = TimeoutError /\ 1 = Len(c))
  BY <1>2, <1>5 DEF Follow
<1>8. ASSUME x = TimeoutError PROVE Follow(g, t)
  <2>1. Len(c) = 1
    BY <1>1, <1>7, <1>8 DEF TimeoutError
  <2>2. 1 .. Len(t) = {}
    BY <1>5, <2>1
  <2> QED  BY <2>2 DEF Follow
<1>9. ASSUME x # TimeoutError
      PROVE  /\ \A i \in 1 .. Len(Append(g, x)) : Append(g, x)[i] = i
             /\ Follow(Append(g, x), t)
             /\ Len(Append(g, x)) + Len(t) = Len(g) + Len(c)
  <2>1. x = Len(g) + 1 /\ x \in 1 .. MaxResponses
    BY <1>1, <1>6, <1>7, <1>9 DEF TimeoutError
  <2>2. PICK n : n = Append(g, x)
    OBVIOUS
  <2>3. Len(n) = Len(g) + 1 /\ n[Len(g) + 1] = x /\ \A i \in 1 .. Len(g) : n[i] = g[i]
    BY <2>1, <2>2, AppendProperties
  <2>4. \A i \in 1 .. Len(n) : n[i] = i
    BY <1>1, <2>1, <2>3
  <2>5. ASSUME NEW i \in 1 .. Len(t) PROVE t[i] = Len(n) + i \/ (t[i] = TimeoutError /\ i = Len(t))
    <3>1. t[i] = c[i + 1] /\ i + 1 \in 1 .. Len(c)
      BY <1>5
    <3>2. c[i + 1] = Len(g) + (i + 1) \/ (c[i + 1] = TimeoutError /\ i + 1 = Len(c))
      BY <3>1 DEF Follow
    <3>3. ASSUME NEW lg \in Nat, NEW lc \in Nat, NEW j \in Nat
          PROVE  lg + (j + 1) = (lg + 1) + j /\ (j + 1 = lc => j = lc - 1)
      OBVIOUS
    <3>4. Len(g) \in Nat /\ Len(c) \in Nat /\ i \in Nat /\ Len(n) = Len(g) + 1 /\ Len(t) = Len(c) - 1
      BY <1>1, <1>5, <2>3
    <3>5. Len(g) + (i + 1) = Len(n) + i /\ (i + 1 = Len(c) => i = Len(t))
      BY <3>3, <3>4
    <3> QED  BY <3>1, <3>2, <3>5
  <2>6. Follow(n, t)
    BY <2>5 DEF Follow
  <2>7. Len(n) + Len(t) = Len(g) + Len(c)
    <3>1. ASSUME NEW lg \in Nat, NEW lc \in Nat PROVE (lg + 1) + (lc - 1) = lg + lc
      OBVIOUS
    <3>2. Len(g) \in Nat /\ Len(c) \in Nat /\ Len(n) = Len(g) + 1 /\ Len(t) = Len(c) - 1
      BY <1>1, <1>5, <2>3
    <3> QED  BY <3>1, <3>2
  <2> QED  BY <2>2, <2>4, <2>6, <2>7
<1> QED  BY <1>3, <1>4, <1>8, <1>9

LEMMA AddOrder ==
    ASSUME NEW g \in Seq(1 .. MaxResponses), NEW c \in Seq(0 .. MaxResponses), NEW n \in 0 .. MaxResponses,
           Follow(g, c), ~In(c, TimeoutError), n = Len(g) + Len(c) + 1 \/ n = TimeoutError
    PROVE  Follow(g, Append(c, n)) /\ Len(Append(c, n)) = Len(c) + 1
<1>1. PICK d : d = Append(c, n)
  OBVIOUS
<1>2. /\ Len(d) = Len(c) + 1 /\ d[Len(c) + 1] = n /\ \A i \in 1 .. Len(c) : d[i] = c[i]
      /\ Len(c) \in Nat /\ Len(g) \in Nat
  BY <1>1, AppendProperties, LenProperties
<1>3. \A i \in 1 .. Len(c) : c[i] = Len(g) + i
  BY DEF Follow, In
<1>4. ASSUME NEW i \in 1 .. Len(d) PROVE d[i] = Len(g) + i \/ (d[i] = TimeoutError /\ i = Len(d))
  <2>1. CASE i \in 1 .. Len(c)
    BY <1>2, <1>3, <2>1
  <2>2. CASE i = Len(c) + 1
    BY <1>2, <2>2
  <2> QED  BY <1>2, <2>1, <2>2
<1> QED  BY <1>1, <1>2, <1>4 DEF Follow

\* The number of responses that have come, by whether runServer is delivering one of them.
LEMMA PastFacts ==
    ASSUME NEW h, Len(got[h]) \in Nat, Len(ResCh[h]) \in Nat
    PROVE  /\ Past(h) \in Nat
           /\ Sending(h) => Past(h) = Len(got[h]) + Len(ResCh[h]) + 1
           /\ ~Sending(h) => Past(h) = Len(got[h]) + Len(ResCh[h])
<1>1. ASSUME NEW x \in Nat, NEW y \in Nat PROVE x + y + 0 = x + y /\ x + y \in Nat /\ x + y + 1 \in Nat
  OBVIOUS
<1>2. /\ Len(got[h]) + Len(ResCh[h]) + 0 = Len(got[h]) + Len(ResCh[h])
      /\ Len(got[h]) + Len(ResCh[h]) \in Nat /\ Len(got[h]) + Len(ResCh[h]) + 1 \in Nat
  BY <1>1
<1>3. Past(h) = Len(got[h]) + Len(ResCh[h]) + (IF Sending(h) THEN 1 ELSE 0)
  BY Zenon DEF Past
<1>4. ASSUME Sending(h) PROVE Past(h) = Len(got[h]) + Len(ResCh[h]) + 1
  <2>1. (IF Sending(h) THEN 1 ELSE 0) = 1
    BY <1>4, Zenon
  <2> QED  BY <1>3, <2>1, Zenon
<1>5. ASSUME ~Sending(h) PROVE Past(h) = Len(got[h]) + Len(ResCh[h]) + 0
  <2>1. (IF Sending(h) THEN 1 ELSE 0) = 0
    BY <1>5, Zenon
  <2> QED  BY <1>3, <2>1, Zenon
<1> QED  BY <1>2, <1>4, <1>5, Zenon

LEMMA PastNext ==
    ASSUME NEW h, Len(got'[h]) \in Nat, Len(ResCh'[h]) \in Nat
    PROVE  /\ Past(h)' \in Nat
           /\ Sending(h)' => Past(h)' = Len(got'[h]) + Len(ResCh'[h]) + 1
           /\ ~Sending(h)' => Past(h)' = Len(got'[h]) + Len(ResCh'[h])
<1>1. ASSUME NEW x \in Nat, NEW y \in Nat PROVE x + y + 0 = x + y /\ x + y \in Nat /\ x + y + 1 \in Nat
  OBVIOUS
<1>2. /\ Len(got'[h]) + Len(ResCh'[h]) + 0 = Len(got'[h]) + Len(ResCh'[h])
      /\ Len(got'[h]) + Len(ResCh'[h]) \in Nat /\ Len(got'[h]) + Len(ResCh'[h]) + 1 \in Nat
  BY <1>1
<1>3. Past(h)' = Len(got'[h]) + Len(ResCh'[h]) + (IF Sending(h)' THEN 1 ELSE 0)
  BY Zenon DEF Past
<1>4. ASSUME Sending(h)' PROVE Past(h)' = Len(got'[h]) + Len(ResCh'[h]) + 1
  <2>1. (IF Sending(h)' THEN 1 ELSE 0) = 1
    BY <1>4, Zenon
  <2> QED  BY <1>3, <2>1, Zenon
<1>5. ASSUME ~Sending(h)' PROVE Past(h)' = Len(got'[h]) + Len(ResCh'[h]) + 0
  <2>1. (IF Sending(h)' THEN 1 ELSE 0) = 0
    BY <1>5, Zenon
  <2> QED  BY <1>3, <2>1, Zenon
<1> QED  BY <1>2, <1>4, <1>5, Zenon

LEMMA GapInit == Init => OpenInv /\ GapInv
<1> SUFFICES ASSUME Init PROVE OpenInv /\ GapInv
  OBVIOUS
<1>1. Len(<<>>) = 0
  BY EmptySeq
<1>2. OpenInv
  BY OwnFacts DEF Init, OpenInv, Sent, Begun
<1>3. ASSUME NEW h \in Own PROVE Gap(h)
  <2>1. h \in Calls /\ got[h] = <<>> /\ ResCh[h] = <<>> /\ peer[h].sent = 0 /\ InputCh = <<>> /\ server.pc = "select"
    BY OwnFacts DEF Init
  <2>2. ~Sending(h) /\ Past(h) = 0
    BY <1>1, <2>1 DEF Sending, Past
  <2>3. Waiting(InputCh, h, 0, 0)
    BY <1>1, <2>1 DEF Waiting
  <2>4. ReadOk(h) /\ ChannelOk(h)
    BY <1>1, <2>1 DEF ReadOk, ChannelOk, Follow
  <2>5. ComingOk(h)
    BY <2>1, <2>2, <2>3 DEF ComingOk
  <2> QED  BY <2>4, <2>5 DEF Gap
<1>4. \A h \in Commands : got[h] = <<>>
  BY DEF Init, Calls
<1> QED  BY <1>2, <1>3, <1>4 DEF GapInv, Whole, Gap

LEMMA OpenStep == TypeInv /\ RegInv /\ KnownInv /\ OpenInv /\ [Next]_vars => OpenInv'
<1> SUFFICES ASSUME TypeInv, RegInv, KnownInv, OpenInv, [Next]_vars PROVE OpenInv'
  OBVIOUS
<1> USE DEF rpcVars, serverVars, callVars, inputVars
<1>0. /\ TypeOK /\ RpcTypes /\ CallTypes /\ ServerTypes /\ CtxDoneTypes
      /\ \A h \in Own : h \in Calls /\ h \in Ids /\ Id(h) = h /\ h # Nobody
  BY TypeParts, OwnFacts DEF TypeInv
<1> DEFINE NoneBegins == \A h \in Own : call'[h] = "send" \/ Sent(h)' => call[h] = "send" \/ Sent(h)
<1>q. NoneBegins /\ UNCHANGED <<RpcMap, resOpen>> => OpenInv'
  BY DEF OpenInv
<1>u. ASSUME NEW id \in Ids, NEW err \in BOOLEAN, unregisterRpc(id, err), NoneBegins PROVE OpenInv'
  <2>1. ASSUME NEW h \in Own, resOpen'[h], RpcMap[h] = h \/ ~resOpen[h] PROVE RpcMap'[h] = h
    <3>1. /\ RpcMap' = [RpcMap EXCEPT ![id] = Nobody]
          /\ RpcMap[id] # h => resOpen'[h] = resOpen[h]
          /\ RpcMap[id] = h => ~resOpen'[h]
      BY <1>0, <1>u, Unregistered
    <3>2. RpcMap[id] # h /\ resOpen[h]
      BY <2>1, <3>1
    <3> QED  BY <1>0, <2>1, <3>1, <3>2 DEF RpcTypes
  <2> QED  BY <1>u, <2>1 DEF OpenInv
<1>n. UNCHANGED <<call, result>> => NoneBegins
  BY DEF Sent, Begun
<1>1. ASSUME NEW k \in Calls, CallStep(k) PROVE OpenInv'
  <2>1. \A h \in Own \ {k} : call'[h] = call[h] /\ result'[h] = result[h]
    <3>1. CASE Begin(k) \/ Register(k) \/ SendRequest(k) \/ SendTimesOut(k) \/ SendPanics(k)
      BY <1>0, <3>1 DEF Begin, Register, SendRequest, SendTimesOut, SendPanics, GoTo, Return, Finalize, CallTypes
    <3>2. CASE NextResponse(k) \/ PollStream(k) \/ Unregister(k)
      BY <1>0, <3>2 DEF NextResponse, PollStream, Unregister, GoTo, Return, Finalize, CallTypes
    <3>3. CASE ReadStream(k) \/ Deliver(k) \/ StreamClosed(k)
      BY <1>0, <3>3 DEF ReadStream, Deliver, StreamClosed, GoTo, ToDeliver, CallTypes
    <3> QED  BY <1>1, <3>1, <3>2, <3>3 DEF CallStep
  <2>2. (k \in Own /\ (call[k] = "send" \/ Sent(k))) \/ (k \in Own => ~(call'[k] = "send" \/ Sent(k)')) => NoneBegins
    BY <2>1 DEF Sent, Begun
  <2>3. CASE Begin(k)
    <3>1. call'[k] = "register" \/ (call'[k] = "returned" /\ result'[k] = "refused")
      BY <1>0, <2>3 DEF Begin, GoTo, Return, CallTypes
    <3> QED  BY <1>q, <2>2, <2>3, <3>1 DEF Begin, Sent, Begun
  <2>4. CASE Register(k)
    <3>1. RpcMap' = [RpcMap EXCEPT ![Id(k)] = k] /\ UNCHANGED resOpen
      BY <2>4 DEF Register, registerRpc
    <3>2. k \in Own => RpcMap'[k] = k
      BY <1>0, <3>1 DEF RpcTypes
    <3>3. \A h \in Own \ {k} : RpcMap'[h] = RpcMap[h]
      <4>1. \A h \in Own \ {k} : h # Id(k)
        BY OwnFacts
      <4> QED  BY <1>0, <3>1, <4>1 DEF RpcTypes
    <3> QED  BY <2>1, <3>1, <3>2, <3>3 DEF OpenInv, Sent, Begun
  <2>5. CASE SendRequest(k) \/ SendTimesOut(k) \/ SendPanics(k)
    <3>1. call[k] = "send" /\ UNCHANGED <<RpcMap, resOpen>>
      BY <2>5 DEF SendRequest, SendTimesOut, SendPanics
    <3> QED  BY <1>q, <2>1, <3>1 DEF Sent, Begun
  <2>6. CASE NextResponse(k) \/ ReadStream(k) \/ Deliver(k) \/ PollStream(k) \/ StreamClosed(k)
    <3>1. call[k] \in {"poll", "read", "deliver"} /\ UNCHANGED <<RpcMap, resOpen>>
      BY <2>6 DEF NextResponse, ReadStream, Deliver, PollStream, StreamClosed
    <3>2. Sent(k)
      BY <3>1 DEF RegInv, ResultInv, Sent, Begun
    <3> QED  BY <1>q, <2>1, <3>1, <3>2 DEF Sent, Begun
  <2>7. CASE Unregister(k)
    <3>1. Id(k) \in Ids /\ unregisterRpc(Id(k), FALSE) /\ call[k] = "unregister" /\ UNCHANGED result
      BY <2>7, IdFacts DEF Unregister
    <3>2. call'[k] = "returned"
      BY <1>0, <2>7 DEF Unregister, GoTo, CallTypes
    <3>3. NoneBegins
      BY <2>1, <3>1, <3>2 DEF Sent, Begun
    <3> QED  BY <1>u, <3>1, <3>3
  <2> QED  BY <1>1, <2>3, <2>4, <2>5, <2>6, <2>7 DEF CallStep
<1>2. ASSUME NEW k \in Calls, Watch(k) \/ Expire(k) \/ PeerRespond(k) PROVE OpenInv'
  BY <1>2, <1>q, <1>n DEF Watch, Expire, PeerRespond
<1>3. ASSUME NEW k \in Streams, SendCancel(k) PROVE OpenInv'
  BY <1>3, <1>q, <1>n DEF SendCancel
<1>8. ASSUME NEW k \in Streams, ReaderTakes(k) PROVE OpenInv'
  BY <1>8, <1>q, <1>n DEF ReaderTakes
<1>4. ASSUME NEW k \in Streams, CancelUnregister(k) PROVE OpenInv'
  <2>1. k \in Ids /\ unregisterRpc(k, FALSE) /\ UNCHANGED <<call, result>>
    BY <1>4 DEF CancelUnregister, Ids
  <2> QED  BY <1>n, <1>u, <2>1
<1>5. CASE ServerTimeout
  <2>1. Head(CtxDoneCh) \in Ids /\ unregisterRpc(Head(CtxDoneCh), TRUE) /\ UNCHANGED <<call, result>>
    BY <1>0, <1>5, TailFacts DEF ServerTimeout, CtxDoneTypes
  <2> QED  BY <1>n, <1>u, <2>1
<1>6. CASE ServerGiveUp \/ ServerFinish
  <2>1. server.msg.to \in Ids /\ unregisterRpc(server.msg.to, FALSE) /\ UNCHANGED <<call, result>>
    BY <1>0, <1>6 DEF ServerGiveUp, ServerFinish, ServerTypes, Responses, Ids
  <2> QED  BY <1>n, <1>u, <2>1
<1>7. CASE \/ ServerReceive \/ ServerSend \/ ServerInputClosed \/ ServerCloseOutput \/ setServerDone
           \/ PeerReceive \/ CloseInput \/ UNCHANGED vars
  BY <1>7, <1>q, <1>n DEF ServerReceive, ServerSend, ServerInputClosed, ServerCloseOutput, setServerDone,
     PeerReceive, CloseInput, vars
<1> QED  BY <1>1, <1>2, <1>3, <1>4, <1>5, <1>6, <1>7, <1>8 DEF Next, ServerStep

\* What unregisterRpc does to a channel of a call with an id of its own.
LEMMA OwnChannel ==
    ASSUME TypeOK, RegInv, NEW id \in Ids, NEW err \in BOOLEAN, unregisterRpc(id, err), NEW h \in Own
    PROVE  /\ resOpen'[h] => resOpen[h]
           /\ \/ ResCh'[h] = ResCh[h]
              \/ err /\ ResCh'[h] = Append(ResCh[h], TimeoutError) /\ resOpen[h] /\ ~resOpen'[h]
           /\ RpcMap[id] = h => ~resOpen'[h]
<1>0. h \in Calls
  BY OwnFacts
<1>1. CASE RpcMap[id] # h
  BY <1>0, <1>1, Unregistered
<1>2. CASE RpcMap[id] = h
  <2>1. resOpen[h] /\ ~resOpen'[h]
    BY <1>0, <1>2, Unregistered, IdFacts DEF RegInv, RegisteredIsOpen
  <2>2. ResCh' = IF err /\ Len(ResCh[h]) < RespChSize THEN [ResCh EXCEPT ![h] = Append(@, TimeoutError)] ELSE ResCh
    BY <1>0, <1>2, IdFacts DEF unregisterRpc
  <2>3. ResCh'[h] = ResCh[h] \/ (err /\ ResCh'[h] = Append(ResCh[h], TimeoutError))
    BY <1>0, <2>2 DEF TypeOK
  <2> QED  BY <2>1, <2>3
<1> QED  BY <1>1, <1>2

\* A step that does not concern h, but that it may close its channel.
LEMMA GapSame ==
    ASSUME NEW h, Gap(h), got'[h] = got[h], ResCh'[h] = ResCh[h], resOpen'[h] => resOpen[h],
           Sending(h)' <=> Sending(h), Sending(h) => server'.msg = server.msg,
           server'.pc # "done" => server.pc # "done", UNCHANGED InputCh, peer'[h].sent = peer[h].sent
    PROVE  Gap(h)'
<1>1. Past(h)' = Past(h)
  BY DEF Past
<1>2. ReadOk(h)' /\ ChannelOk(h)'
  BY DEF Gap, ReadOk, ChannelOk
<1>3. ComingOk(h)'
  BY <1>1 DEF Gap, ComingOk, Waiting
<1> QED  BY <1>2, <1>3 DEF Gap

LEMMA GapCallStep ==
    ASSUME TypeInv, RegInv, GapInv, NEW k \in Calls, CallStep(k)
    PROVE  GapInv'
<1> USE DEF rpcVars, serverVars, callVars, inputVars
<1>0. /\ TypeOK /\ RpcTypes /\ CallTypes
      /\ \A h \in Own : h \in Calls /\ h \in Ids /\ h \notin Commands
      /\ Commands \subseteq Calls /\ Requests \subseteq Own /\ Streams \subseteq Own
  BY TypeParts, OwnFacts DEF TypeInv, Own, Calls
<1>u. UNCHANGED <<InputCh, server, peer>>
  BY DEF CallStep, Begin, Register, SendRequest, SendTimesOut, SendPanics, NextResponse, ReadStream, Deliver,
     PollStream, StreamClosed, Unregister
\* A call that has thrown a response away reads no other.
<1>w. Whole' \subseteq Whole /\ Whole \subseteq Own
  <2> SUFFICES ASSUME NEW h \in Own, result[h] \in {"failed", "unreadable"} PROVE result'[h] = result[h]
    BY DEF Whole
  <2>1. call[h] \in {"deliver", "unregister", "returned"}
    BY <1>0 DEF RegInv, ResultInv
  <2>2. CASE Begin(k) \/ Register(k) \/ SendRequest(k) \/ SendTimesOut(k) \/ SendPanics(k)
    BY <1>0, <2>1, <2>2 DEF Begin, Register, SendRequest, SendTimesOut, SendPanics, Return, Finalize, CallTypes
  <2>3. CASE NextResponse(k) \/ PollStream(k) \/ Unregister(k)
    BY <1>0, <2>1, <2>3 DEF NextResponse, PollStream, Unregister, Return, Finalize, CallTypes
  <2>4. CASE ReadStream(k) \/ Deliver(k) \/ StreamClosed(k)
    BY <1>0, <2>1, <2>4 DEF ReadStream, Deliver, StreamClosed, ToDeliver, CallTypes
  <2> QED  BY <2>2, <2>3, <2>4 DEF CallStep
<1>s. \A h : Sending(h)' <=> Sending(h)
  BY <1>u DEF Sending
<1>q. ASSUME UNCHANGED got, \A h \in Own : ResCh'[h] = ResCh[h] /\ (resOpen'[h] => resOpen[h])
      PROVE  GapInv'
  <2>1. \A h \in Own : ReadOk(h)'
    BY <1>q DEF GapInv, ReadOk
  <2>2. \A h \in Whole : Gap(h)'
    BY <1>u, <1>s, <1>w, <1>q, GapSame DEF GapInv
  <2> QED  BY <1>q, <1>w, <2>1, <2>2 DEF GapInv
<1>1. CASE Begin(k) \/ Register(k) \/ SendRequest(k) \/ SendTimesOut(k) \/ SendPanics(k) \/ Deliver(k) \/ PollStream(k) \/ StreamClosed(k)
  BY <1>1, <1>q DEF Begin, Register, registerRpc, SendRequest, SendTimesOut, SendPanics, Deliver, PollStream, StreamClosed
<1>2. CASE NextResponse(k) /\ Closed(k) /\ UNCHANGED <<ResCh, got>>
  BY <1>2, <1>q DEF NextResponse
<1>3. CASE /\ k \in Whole /\ ResCh[k] # <<>> /\ Take(k) /\ UNCHANGED resOpen
           /\ \/ Head(ResCh[k]) = TimeoutError /\ UNCHANGED got
              \/ k \notin Whole' /\ UNCHANGED got
              \/ Head(ResCh[k]) # TimeoutError /\ got' = [got EXCEPT ![k] = Append(@, Head(ResCh[k]))]
  <2>0. k \in Own /\ \A h \in Own \ {k} : ResCh'[h] = ResCh[h] /\ got'[h] = got[h]
    BY <1>0, <1>3, <1>w DEF Take, RpcTypes, CallTypes
  <2>1. ASSUME NEW h \in Whole \ {k} PROVE Gap(h)'
    <3>1. ResCh'[h] = ResCh[h] /\ got'[h] = got[h]
      BY <1>w, <2>0
    <3> QED  BY <1>3, <1>u, <1>s, <3>1, GapSame DEF GapInv
  <2>7. \A h \in Own \ {k} : ReadOk(h)'
    BY <2>0 DEF GapInv, ReadOk
  <2>2. \A h \in Commands : got'[h] = <<>>
    BY <1>0, <1>3, <2>0 DEF GapInv, CallTypes
  <2>3. /\ got[k] \in Seq(1 .. MaxResponses) /\ ResCh[k] \in Seq(0 .. MaxResponses)
        /\ Gap(k) /\ Follow(got[k], ResCh[k]) /\ \A i \in 1 .. Len(got[k]) : got[k][i] = i
    BY <1>0, <1>3, <2>0 DEF CallTypes, RpcTypes, GapInv, Gap, ReadOk, ChannelOk
  <2>4. ResCh'[k] = Tail(ResCh[k])
    BY <1>0, <1>3, <2>0 DEF Take, RpcTypes
  <2>5. CASE Head(ResCh[k]) = TimeoutError /\ UNCHANGED got
    <3>1. Follow(got[k], Tail(ResCh[k]))
      BY <1>3, <2>3, <2>5, TakeOrder
    <3>2. ~resOpen[k]
      <4>1. In(ResCh[k], TimeoutError)
        BY <1>0, <1>3, <2>0, <2>5, TakeType
      <4> QED  BY <1>0, <1>3, <2>0, <4>1 DEF RegInv, ErrorInv
    <3>3. Gap(k)'
      BY <1>3, <2>3, <2>4, <2>5, <3>1, <3>2 DEF Gap, ReadOk, ChannelOk, ComingOk
    <3>4. ReadOk(k)'
      BY <3>3 DEF Gap
    <3> QED  BY <1>w, <2>1, <2>2, <2>7, <3>3, <3>4 DEF GapInv
  <2>6. CASE Head(ResCh[k]) # TimeoutError /\ got' = [got EXCEPT ![k] = Append(@, Head(ResCh[k]))]
    <3>1. got'[k] = Append(got[k], Head(ResCh[k]))
      BY <1>0, <1>3, <2>0, <2>6 DEF CallTypes
    <3>2. /\ \A i \in 1 .. Len(got'[k]) : got'[k][i] = i
          /\ Follow(got'[k], ResCh'[k])
          /\ Len(got'[k]) + Len(ResCh'[k]) = Len(got[k]) + Len(ResCh[k])
      BY <1>3, <2>3, <2>4, <2>6, <3>1, TakeOrder
    <3>3. Past(k)' = Past(k)
      BY <1>s, <3>2 DEF Past
    <3>4. ReadOk(k)' /\ ChannelOk(k)'
      BY <3>2 DEF ReadOk, ChannelOk, Follow
    <3>5. ComingOk(k)'
      BY <1>3, <1>u, <1>s, <2>3, <3>2, <3>3 DEF Gap, ComingOk
    <3> QED  BY <1>w, <2>1, <2>2, <2>7, <3>4, <3>5 DEF GapInv, Gap
  <2>8. CASE k \notin Whole' /\ UNCHANGED got
    <3>1. ReadOk(k)'
      BY <2>0, <2>8 DEF GapInv, ReadOk
    <3> QED  BY <1>w, <2>1, <2>2, <2>7, <2>8, <3>1 DEF GapInv
  <2> QED  BY <1>3, <2>5, <2>6, <2>8
<1>4. CASE NextResponse(k)
  <2>1. k \in Whole /\ k \in Calls /\ UNCHANGED resOpen
    BY <1>0, <1>4 DEF NextResponse, RegInv, ResultInv, Whole
  <2>2. Finalize(k, "failed") => k \notin Whole'
    BY <1>0, <2>1 DEF Finalize, Whole, CallTypes
  <2> QED  BY <1>2, <1>3, <1>4, <2>1, <2>2 DEF NextResponse
<1>5. CASE ReadStream(k)
  <2>1. k \in Whole /\ k \in Calls /\ UNCHANGED resOpen
    BY <1>0, <1>5 DEF ReadStream, RegInv, ResultInv, Whole
  <2>2. ToDeliver(k, "failed") \/ ToDeliver(k, "unreadable") => k \notin Whole'
    BY <1>0, <2>1 DEF ToDeliver, Whole, CallTypes
  <2> QED  BY <1>3, <1>5, <2>1, <2>2 DEF ReadStream
<1>6. CASE Unregister(k)
  <2>1. Id(k) \in Ids /\ unregisterRpc(Id(k), FALSE) /\ UNCHANGED got
    BY <1>6, IdFacts DEF Unregister
  <2>2. \A h \in Own : ResCh'[h] = ResCh[h] /\ (resOpen'[h] => resOpen[h])
    BY <1>0, <2>1, OwnChannel
  <2> QED  BY <1>q, <2>1, <2>2
<1> QED  BY <1>1, <1>4, <1>5, <1>6 DEF CallStep

LEMMA GapOtherStep ==
    ASSUME TypeInv, RegInv, GapInv,
           \/ \E h \in Calls : Watch(h) \/ Expire(h) \/ PeerRespond(h)
           \/ \E h \in Streams : SendCancel(h) \/ CancelUnregister(h) \/ ReaderTakes(h)
           \/ PeerReceive \/ CloseInput \/ UNCHANGED vars
    PROVE  GapInv'
<1> USE DEF rpcVars, serverVars, callVars, inputVars
<1>0. /\ TypeOK /\ RpcTypes /\ CallTypes /\ InputTypes
      /\ \A h \in Own : h \in Calls /\ h \in Ids
      /\ Streams \subseteq Ids
  BY TypeParts, OwnFacts DEF TypeInv, Ids
<1>w. UNCHANGED result /\ Whole' = Whole /\ Whole \subseteq Own
  BY DEF Watch, Expire, PeerRespond, SendCancel, CancelUnregister, ReaderTakes, PeerReceive, CloseInput, vars, Whole
<1>q. ASSUME UNCHANGED <<InputCh, server, got>>, \A h \in Own : ResCh'[h] = ResCh[h] /\ (resOpen'[h] => resOpen[h]),
             \A h \in Own : peer'[h].sent = peer[h].sent
      PROVE  GapInv'
  <2>1. \A h : Sending(h)' <=> Sending(h)
    BY <1>q DEF Sending
  <2>2. \A h \in Whole : Gap(h)'
    BY <1>q, <1>w, <2>1, GapSame DEF GapInv
  <2>3. \A h \in Own : ReadOk(h)'
    BY <1>q DEF GapInv, ReadOk
  <2> QED  BY <1>q, <1>w, <2>2, <2>3 DEF GapInv
<1>1. ASSUME NEW k \in Calls, Watch(k) \/ Expire(k) PROVE GapInv'
  BY <1>1, <1>q DEF Watch, Expire
<1>2. ASSUME NEW k \in Calls, PeerRespond(k) PROVE GapInv'
  <2>1. PICK cont \in BOOLEAN :
          /\ InputCh' = Append(InputCh, Response(k, peer[k].sent + 1, cont))
          /\ peer' = [peer EXCEPT ![k] = [has |-> @.has, sent |-> @.sent + 1, over |-> ~cont]]
          /\ Response(k, peer[k].sent + 1, cont) \in Responses
    BY <1>2, ResponseFacts
  <2>2. PICK m \in Responses : InputCh' = Append(InputCh, m) /\ m.to = k /\ m.n = peer[k].sent + 1
    BY <2>1 DEF Response
  <2>3. UNCHANGED <<server, ResCh, resOpen, got>>
    BY <1>2 DEF PeerRespond
  <2>4. \A h : Past(h)' = Past(h) /\ (Sending(h)' <=> Sending(h))
    BY <2>3 DEF Past, Sending
  <2>5. ASSUME NEW h \in Whole, resOpen[h], server.pc # "done"
        PROVE  Past(h) <= peer'[h].sent /\ Waiting(InputCh', h, Past(h), peer'[h].sent)
    <3>1. Past(h) <= peer[h].sent /\ Waiting(InputCh, h, Past(h), peer[h].sent)
      BY <2>5 DEF GapInv, Gap, ComingOk
    <3>0. h \in Own
      BY <1>w
    <3>2. peer[h].sent \in Nat /\ Past(h) \in Nat /\ InputCh \in Seq(Responses)
      <4>1. peer[h] \in PeerStates
        BY <1>0, <3>0 DEF InputTypes
      <4>2. Len(got[h]) \in Nat /\ Len(ResCh[h]) \in Nat
        BY <1>0, <3>0, LenProperties DEF CallTypes, RpcTypes
      <4>3. Past(h) \in Nat
        BY <4>2, PastFacts
      <4> QED  BY <1>0, <4>1, <4>3, Sizes DEF InputTypes, PeerStates
    <3>3. ASSUME NEW q \in Seq(Responses), NEW b \in Nat, NEW s \in Nat, Waiting(q, h, b, s), b <= s
          PROVE  /\ m.to # h => Waiting(Append(q, m), h, b, s)
                 /\ m.to = h /\ m.n = s + 1 => Waiting(Append(q, m), h, b, s + 1)
      BY <3>3, WaitingAppend
    <3>4. CASE h = k
      <4>1. peer'[h].sent = peer[h].sent + 1
        BY <1>0, <2>1, <3>0, <3>4 DEF InputTypes
      <4>2. Waiting(Append(InputCh, m), h, Past(h), peer[h].sent + 1)
        BY <2>2, <3>1, <3>2, <3>3, <3>4
      <4> QED  BY <2>2, <3>1, <3>2, <4>1, <4>2
    <3>5. CASE h # k
      <4>1. peer'[h].sent = peer[h].sent
        BY <1>0, <2>1, <3>0, <3>5 DEF InputTypes
      <4>2. Waiting(Append(InputCh, m), h, Past(h), peer[h].sent)
        BY <2>2, <3>1, <3>2, <3>3, <3>5
      <4> QED  BY <2>2, <3>1, <4>1, <4>2
    <3> QED  BY <3>4, <3>5
  <2>6. ASSUME NEW h \in Whole PROVE Gap(h)'
    <3>1. ReadOk(h)' /\ ChannelOk(h)'
      BY <2>3 DEF GapInv, Gap, ReadOk, ChannelOk, Follow
    <3>2. ComingOk(h)'
      <4>1. ComingOk(h)
        BY DEF GapInv, Gap
      <4>2. (resOpen[h] /\ server.pc # "done")' <=> resOpen[h] /\ server.pc # "done"
        BY <2>3
      <4>3. Waiting(InputCh, h, Past(h), peer[h].sent)' <=> Waiting(InputCh', h, Past(h), peer'[h].sent)
        BY <2>4 DEF Waiting
      <4> QED  BY <2>3, <2>4, <2>5, <4>1, <4>2, <4>3 DEF ComingOk
    <3> QED  BY <3>1, <3>2 DEF Gap
  <2>7. \A h \in Own : ReadOk(h)'
    BY <2>3 DEF GapInv, ReadOk
  <2> QED  BY <1>w, <2>3, <2>6, <2>7 DEF GapInv
<1>7. ASSUME NEW k \in Streams, ReaderTakes(k) PROVE GapInv'
  BY <1>7, <1>q DEF ReaderTakes
<1>3. ASSUME NEW k \in Streams, SendCancel(k) PROVE GapInv'
  BY <1>3, <1>q DEF SendCancel
<1>4. ASSUME NEW k \in Streams, CancelUnregister(k) PROVE GapInv'
  <2>1. k \in Ids /\ unregisterRpc(k, FALSE) /\ UNCHANGED <<InputCh, server, got, peer>>
    BY <1>0, <1>4 DEF CancelUnregister
  <2>2. \A h \in Own : ResCh'[h] = ResCh[h] /\ (resOpen'[h] => resOpen[h])
    BY <1>0, <2>1, OwnChannel
  <2> QED  BY <1>q, <2>1, <2>2
<1>5. CASE PeerReceive
  <2>1. ASSUME NEW h \in Own PROVE peer'[h].sent = peer[h].sent
    BY <1>0, <1>5 DEF PeerReceive, InputTypes, PeerStates
  <2> QED  BY <1>5, <1>q, <2>1 DEF PeerReceive
<1>6. CASE CloseInput \/ UNCHANGED vars
  BY <1>6, <1>q DEF CloseInput, vars
<1> QED  BY <1>1, <1>2, <1>3, <1>4, <1>5, <1>6, <1>7

LEMMA GapServerStep ==
    ASSUME TypeInv, RegInv, KnownInv, OpenInv, GapInv, ServerStep
    PROVE  GapInv'
<1> USE DEF rpcVars, serverVars, callVars, inputVars
<1>0. /\ TypeOK /\ RpcTypes /\ CallTypes /\ ServerTypes /\ InputTypes /\ CtxDoneTypes
      /\ \A h \in Own : h \in Calls /\ h \in Ids
      /\ Whole \subseteq Own
  BY TypeParts, OwnFacts DEF TypeInv, Whole
<1>a. ASSUME NEW p, ServerAt(p) PROVE server'.pc = p /\ server'.msg = server.msg
  BY <1>0, <1>a DEF ServerAt, ServerTypes
<1>p. UNCHANGED <<got, peer, result>>
  BY DEF ServerStep, ServerReceive, ServerTimeout, ServerSend, ServerGiveUp, ServerFinish, ServerInputClosed,
         ServerCloseOutput, setServerDone
<1>g. ASSUME \A h \in Whole : Gap(h)' PROVE GapInv'
  BY <1>p, <1>g DEF GapInv, Whole, ReadOk
<1>n. ASSUME NEW h \in Whole
      PROVE  /\ got[h] \in Seq(1 .. MaxResponses) /\ ResCh[h] \in Seq(0 .. MaxResponses)
             /\ Len(got[h]) \in Nat /\ Len(ResCh[h]) \in Nat /\ peer[h].sent \in Nat /\ Past(h) \in Nat
             /\ Gap(h) /\ Follow(got[h], ResCh[h])
  <2>1. got[h] \in Seq(1 .. MaxResponses) /\ ResCh[h] \in Seq(0 .. MaxResponses) /\ peer[h] \in PeerStates
    BY <1>0 DEF CallTypes, RpcTypes, InputTypes
  <2>2. Len(got[h]) \in Nat /\ Len(ResCh[h]) \in Nat /\ peer[h].sent \in Nat
    BY <2>1, LenProperties, Sizes DEF PeerStates
  <2>3. Gap(h) /\ Follow(got[h], ResCh[h])
    BY DEF GapInv, Gap, ChannelOk
  <2> QED  BY <2>1, <2>2, <2>3, PastFacts
\* The channel of h is closed and perhaps has got an error message; nothing else concerns h any more.
<1>c. ASSUME NEW h \in Whole, ~resOpen'[h] \/ server'.pc = "done", Follow(got[h], ResCh'[h]) PROVE Gap(h)'
  BY <1>n, <1>p, <1>c DEF Gap, ReadOk, ChannelOk, ComingOk, Follow
<1>1. CASE ServerReceive
  <2>1. /\ server.pc = "select" /\ InputCh # <<>> /\ InputCh' = Tail(InputCh) /\ UNCHANGED <<RpcMap, ResCh, resOpen>>
        /\ InputCh \in Seq(Responses)
    BY <1>0, <1>1 DEF ServerReceive, InputTypes
  <2>2. PICK m : m = Head(InputCh)
    OBVIOUS
  <2>3. m \in Responses /\ Incoming(m.to)
    <3>1. Head(InputCh) \in Responses /\ In(InputCh, Head(InputCh))
      BY <2>1, TailFacts
    <3> QED  BY <2>2, <3>1 DEF Incoming
  <2>4. m.to \in Own
    BY <2>3 DEF Responses, Own
  <2>5. \/ RpcMap[m.to] = Nobody /\ UNCHANGED server
        \/ RpcMap[m.to] # Nobody /\ server'.pc = "send" /\ server'.msg = m
    BY <1>1, <2>2 DEF ServerReceive
  <2>6. \A h : ~Sending(h) /\ (Sending(h)' => h = m.to /\ server'.msg = m)
    BY <2>1, <2>5 DEF Sending
  <2>7. ASSUME NEW h \in Whole, resOpen[h]
        PROVE  /\ Past(h) <= peer[h].sent
               /\ m.to # h => Waiting(InputCh', h, Past(h), peer[h].sent)
               /\ m.to = h => /\ m.n = Past(h) + 1 /\ Past(h) + 1 <= peer[h].sent
                              /\ Waiting(InputCh', h, Past(h) + 1, peer[h].sent)
    <3>1. Past(h) <= peer[h].sent /\ Waiting(InputCh, h, Past(h), peer[h].sent)
      BY <1>n, <2>1, <2>7 DEF Gap, ComingOk
    <3>2. ASSUME NEW q \in Seq(Responses), q # <<>>, NEW b \in Nat, NEW s \in Nat, Waiting(q, h, b, s)
          PROVE  /\ Head(q).to # h => Waiting(Tail(q), h, b, s)
                 /\ Head(q).to = h => Head(q).n = b + 1 /\ b + 1 <= s /\ Waiting(Tail(q), h, b + 1, s)
      BY <3>2, WaitingTail
    <3> QED  BY <1>n, <2>1, <2>2, <3>1, <3>2
  <2>8. ASSUME NEW h \in Whole, resOpen[h], m.to = h PROVE Sending(h)'
    <3>0. h \in Own
      BY <1>0
    <3>1. RpcMap[h] = h
      BY <2>3, <3>0, <2>8 DEF KnownInv, OpenInv
    <3>2. h # Nobody
      BY <1>0, OwnFacts
    <3> QED  BY <2>5, <2>8, <3>1, <3>2 DEF Sending
  <2>9. ASSUME NEW h \in Whole PROVE Gap(h)'
    <3>1. ReadOk(h)' /\ ChannelOk(h)'
      BY <1>n, <1>p, <2>1 DEF Gap, ReadOk, ChannelOk, Follow
    <3>2. Past(h) = Len(got[h]) + Len(ResCh[h])
      BY <1>n, <2>6, PastFacts
    <3>3. ASSUME resOpen[h], m.to = h PROVE ComingOk(h)'
      <4>1. Past(h)' = Past(h) + 1
        BY <1>n, <1>p, <2>1, <2>8, <3>2, <3>3, PastNext
      <4>2. server'.msg.n = Len(got[h]) + Len(ResCh[h]) + 1
        BY <2>6, <2>7, <2>8, <3>2, <3>3
      <4> QED  BY <1>p, <2>1, <2>7, <3>3, <4>1, <4>2 DEF ComingOk, Waiting
    <3>4. ASSUME resOpen[h], m.to # h PROVE ComingOk(h)'
      <4>1. ~Sending(h)' /\ Past(h)' = Past(h)
        BY <1>p, <2>1, <2>6, <3>4 DEF Past
      <4> QED  BY <1>p, <2>1, <2>7, <3>4, <4>1 DEF ComingOk, Waiting
    <3>5. ASSUME ~resOpen[h] PROVE ComingOk(h)'
      BY <2>1, <3>5 DEF ComingOk
    <3> QED  BY <3>1, <3>3, <3>4, <3>5 DEF Gap
  <2> QED  BY <1>g, <2>9
<1>2. CASE ServerTimeout
  <2>1. /\ Head(CtxDoneCh) \in Ids /\ unregisterRpc(Head(CtxDoneCh), TRUE) /\ UNCHANGED <<server, InputCh>>
    BY <1>0, <1>2, TailFacts DEF ServerTimeout, CtxDoneTypes
  <2>2. ASSUME NEW h \in Whole PROVE Gap(h)'
    <3>1. /\ resOpen'[h] => resOpen[h]
          /\ \/ ResCh'[h] = ResCh[h]
             \/ ResCh'[h] = Append(ResCh[h], TimeoutError) /\ resOpen[h] /\ ~resOpen'[h]
      BY <1>0, <2>1, OwnChannel
    <3>2. CASE ResCh'[h] = ResCh[h]
      <4>1. Sending(h)' <=> Sending(h)
        BY <2>1 DEF Sending
      <4> QED  BY <1>n, <1>p, <2>1, <3>1, <3>2, <4>1, GapSame
    <3>3. CASE ResCh'[h] = Append(ResCh[h], TimeoutError) /\ resOpen[h] /\ ~resOpen'[h]
      <4>1. ~In(ResCh[h], TimeoutError) /\ TimeoutError \in 0 .. MaxResponses
        BY <1>0, <3>3, Sizes DEF RegInv, ErrorInv, TimeoutError
      <4>2. Follow(got[h], Append(ResCh[h], TimeoutError))
        BY <1>n, <4>1, AddOrder
      <4> QED  BY <1>c, <3>3, <4>2
    <3> QED  BY <3>1, <3>2, <3>3
  <2> QED  BY <1>g, <2>2
<1>3. CASE ServerSend
  <2>1. /\ server.pc \in {"send", "blocked"} /\ UNCHANGED <<InputCh, resOpen>>
        /\ server.msg.to \in Own /\ server.msg.n \in 1 .. MaxResponses
    BY <1>0, <1>3 DEF ServerSend, ServerTypes, Responses, Own
  <2>2. ASSUME NEW h \in Whole, h # server.msg.to, server'.pc # "done", ResCh'[h] = ResCh[h],
               server'.msg = server.msg
        PROVE  Gap(h)'
    <3>1. ~Sending(h) /\ ~Sending(h)'
      BY <2>2 DEF Sending
    <3> QED  BY <1>n, <1>p, <2>1, <2>2, <3>1, GapSame
  <2>3. PICK k \in Own : k = server.msg.to
    BY <2>1
  <2>4. CASE resOpen[k] /\ ResCh' = [ResCh EXCEPT ![k] = Append(@, server.msg.n)] /\ ServerAt(Delivered)
    <3>1. server'.pc \in {"select", "finish"} /\ server'.msg = server.msg
      BY <1>a, <2>4 DEF Delivered
    <3>2. /\ \A h \in Own \ {k} : ResCh'[h] = ResCh[h]
          /\ ResCh'[k] = Append(ResCh[k], server.msg.n)
      BY <1>0, <2>4 DEF RpcTypes
    <3>10. ASSUME NEW h \in Whole \ {k} PROVE Gap(h)'
      BY <1>0, <2>2, <2>3, <3>1, <3>2
    <3>11. CASE k \notin Whole
      BY <1>g, <3>10, <3>11
    <3> SUFFICES ASSUME k \in Whole PROVE GapInv'
      BY <3>11
    <3>3. Sending(k) /\ ~Sending(k)'
      BY <2>1, <2>3, <3>1 DEF Sending
    <3>4. /\ server.msg.n = Len(got[k]) + Len(ResCh[k]) + 1
          /\ Past(k) <= peer[k].sent /\ Waiting(InputCh, k, Past(k), peer[k].sent)
      BY <1>n, <2>1, <2>4, <3>3 DEF Gap, ComingOk
    <3>5. ~In(ResCh[k], TimeoutError) /\ server.msg.n \in 0 .. MaxResponses
      BY <1>0, <2>1, <2>4 DEF RegInv, ErrorInv
    <3>6. Follow(got[k], ResCh'[k]) /\ Len(ResCh'[k]) = Len(ResCh[k]) + 1
      <4>1. ASSUME NEW g \in Seq(1 .. MaxResponses), NEW c \in Seq(0 .. MaxResponses), NEW n \in 0 .. MaxResponses,
                   Follow(g, c), ~In(c, TimeoutError), n = Len(g) + Len(c) + 1
            PROVE  Follow(g, Append(c, n)) /\ Len(Append(c, n)) = Len(c) + 1
        BY <4>1, AddOrder
      <4>2. got[k] \in Seq(1 .. MaxResponses) /\ ResCh[k] \in Seq(0 .. MaxResponses) /\ Follow(got[k], ResCh[k])
        BY <1>n
      <4> QED  BY ZenonT(60), <3>2, <3>4, <3>5, <4>1, <4>2
    <3>7. Past(k)' = Past(k)
      <4>1. Past(k) = Len(got[k]) + Len(ResCh[k]) + 1
        BY <1>n, <3>3, PastFacts
      <4>2. got'[k] = got[k] /\ Len(ResCh'[k]) \in Nat
        BY <1>n, <1>p, <3>6
      <4>3. Past(k)' = Len(got'[k]) + Len(ResCh'[k])
        BY <1>n, <3>3, <4>2, PastNext
      <4>4. ASSUME NEW x \in Nat, NEW y \in Nat PROVE x + (y + 1) = x + y + 1
        OBVIOUS
      <4>5. Len(got[k]) \in Nat /\ Len(ResCh[k]) \in Nat /\ Len(ResCh'[k]) = Len(ResCh[k]) + 1
        BY <1>n, <3>6
      <4> QED  BY <4>1, <4>2, <4>3, <4>4, <4>5
    <3>8. ReadOk(k)' /\ ChannelOk(k)'
      BY <1>n, <1>p, <3>6 DEF Gap, ReadOk, ChannelOk, Follow
    <3>9. ComingOk(k)'
      BY <1>p, <2>1, <3>3, <3>4, <3>7 DEF ComingOk, Waiting
    <3> QED  BY <1>g, <3>8, <3>9, <3>10 DEF Gap
  <2>5. CASE server'.pc = "blocked" /\ server'.msg = server.msg /\ UNCHANGED ResCh
    <3>1. \A h : Sending(h)' <=> Sending(h)
      BY <2>1, <2>5 DEF Sending
    <3>2. ASSUME NEW h \in Whole PROVE Gap(h)'
      BY <1>n, <1>p, <2>1, <2>5, <3>1, GapSame
    <3> QED  BY <1>g, <3>2
  <2>6. CASE ~resOpen[k] /\ server'.pc = "dying" /\ server'.msg = server.msg /\ UNCHANGED ResCh
    <3>1. k \in Whole => Gap(k)'
      BY <1>c, <1>n, <2>1, <2>6
    <3> QED  BY <1>0, <1>g, <2>2, <2>3, <2>6, <3>1
  <2> QED  BY <1>3, <1>a, <2>3, <2>4, <2>5, <2>6 DEF ServerSend
<1>4. CASE ServerGiveUp \/ ServerFinish
  <2>1. /\ server.pc \in {"blocked", "finish"} /\ unregisterRpc(server.msg.to, FALSE) /\ UNCHANGED InputCh
        /\ server'.pc \in {"select", "finish"} /\ server'.msg = server.msg
        /\ server.msg.to \in Own
    BY <1>0, <1>4, <1>a DEF ServerGiveUp, ServerFinish, Delivered, ServerTypes, Responses, Own
  <2>2. ASSUME NEW h \in Whole PROVE Gap(h)'
    <3>1. /\ ResCh'[h] = ResCh[h] /\ (resOpen'[h] => resOpen[h])
          /\ RpcMap[server.msg.to] = h => ~resOpen'[h]
      BY <1>0, <2>1, OwnChannel
    <3>2. CASE h # server.msg.to
      <4>1. ~Sending(h) /\ ~Sending(h)'
        BY <2>1, <3>2 DEF Sending
      <4> QED  BY <1>n, <1>p, <2>1, <3>1, <4>1, GapSame
    <3>3. CASE h = server.msg.to
      <4>1. Sent(h)
        BY <2>1, <3>3 DEF KnownInv, Holds
      <4>2. ~resOpen'[h]
        BY <1>0, <3>1, <3>3, <4>1 DEF OpenInv
      <4> QED  BY <1>c, <1>n, <3>1, <4>2
    <3> QED  BY <3>2, <3>3
  <2> QED  BY <1>g, <2>2
<1>5. CASE ServerInputClosed \/ ServerCloseOutput \/ setServerDone
  <2>1. /\ UNCHANGED <<ResCh, resOpen>> /\ server'.msg = server.msg
        /\ server.pc \in {"select", "dying", "closed"} /\ server'.pc \in {"dying", "closed", "done"}
        /\ server'.pc = "done" \/ UNCHANGED InputCh
    BY <1>5, <1>a DEF ServerInputClosed, ServerCloseOutput, setServerDone
  <2>2. \A h : ~Sending(h) /\ ~Sending(h)'
    BY <2>1 DEF Sending
  <2>3. ASSUME NEW h \in Whole PROVE Gap(h)'
    <3>1. CASE server'.pc = "done"
      BY <1>c, <1>n, <2>1, <3>1
    <3>2. CASE server'.pc # "done"
      BY <1>n, <1>p, <2>1, <2>2, <3>2, GapSame
    <3> QED  BY <3>1, <3>2
  <2> QED  BY <1>g, <2>3
<1> QED  BY <1>1, <1>2, <1>3, <1>4, <1>5 DEF ServerStep

LEMMA GapStep == TypeInv /\ RegInv /\ KnownInv /\ OpenInv /\ GapInv /\ [Next]_vars => GapInv'
<1> SUFFICES ASSUME TypeInv, RegInv, KnownInv, OpenInv, GapInv, [Next]_vars PROVE GapInv'
  OBVIOUS
<1>1. CASE \E h \in Calls : CallStep(h)
  BY <1>1, GapCallStep
<1>2. CASE \/ \E h \in Calls : Watch(h) \/ Expire(h) \/ PeerRespond(h)
           \/ \E h \in Streams : SendCancel(h) \/ CancelUnregister(h) \/ ReaderTakes(h)
           \/ PeerReceive \/ CloseInput \/ UNCHANGED vars
  BY <1>2, GapOtherStep
<1>3. CASE ServerStep
  BY <1>3, GapServerStep
<1> QED  BY <1>1, <1>2, <1>3 DEF Next

\* A caller reads the peer's responses from the first on, in order and without a gap, although runServer
\* drops responses to calls that are gone and gives up on one whose channel stays full.
THEOREM OrderedReads == Spec => []NoGaps
<1>1. GapInv => NoGaps
  <2> SUFFICES ASSUME GapInv PROVE NoGaps
    OBVIOUS
  <2>1. \A h \in Own : \A i \in 1 .. Len(got[h]) : got[h][i] = i
    BY DEF GapInv, ReadOk
  <2>2. \A h \in Commands : Len(got[h]) = 0
    BY EmptySeq DEF GapInv
  <2> QED  BY <2>1, <2>2 DEF NoGaps, Calls, Own
<1>2. Init => TypeInv /\ RegInv /\ KnownInv /\ OpenInv /\ GapInv
  BY TypeInit, RegInit, TimeoutInit, GapInit
<1>3. TypeInv /\ RegInv /\ KnownInv /\ OpenInv /\ GapInv /\ [Next]_vars
        => TypeInv' /\ RegInv' /\ KnownInv' /\ OpenInv' /\ GapInv'
  BY TypeStep, RegStep, KnownStep, OpenStep, GapStep
<1> QED  BY <1>1, <1>2, <1>3, PTL DEF Spec

=============================================================================
