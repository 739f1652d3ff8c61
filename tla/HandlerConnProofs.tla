------------------------- MODULE HandlerConnProofs --------------------------
(***************************************************************************)
(* Proofs about RpcHandler, for any requests, any number of items and any  *)
(* size of the output channel, and about SshConn, for any callers, clients,*)
(* listeners and sessions.  The two share no variable; what both have is   *)
(* named for the connection in its part.                                   *)
(***************************************************************************)
EXTENDS RpcHandler, SshConn, SequenceTheorems, TLAPS

-----------------------------------------------------------------------------
(* RpcHandler                                                              *)

main(r)  == at[Main(r)]
timer(r) == at[Timer(r)]

-----------------------------------------------------------------------------
(* The inductive invariant.                                                *)

\* How far the threads of r can be: who finalizes has nothing but a last response to send, the timer only
\* finalizes, a call has no timer, and it is the main thread that unregisters the handler.
Shape(r) ==
    /\ \A t \in {Main(r), Timer(r)} :
         /\ at[t].finalizing => at[t].msg = Final
         /\ at[t].pc = "finalize" => at[t].finalizing
         /\ at[t].pc \in {"close", "done"} => at[t].msg = Final
    /\ main(r).pc # "wait" /\ timer(r).pc # "produce"
    /\ timer(r).pc \in {"check", "select", "close", "done"} => timer(r).finalizing
    /\ main(r).pc = "over" => main(r).finalizing
    /\ main(r).pc = "idle" => ctx[r] = "none"
    /\ r \in Calls => timer(r).pc \in {"idle", "over"} /\ main(r).msg = Final
    /\ main(r).finalizing /\ main(r).pc # "finalize" => r \notin ResponseHandlerMap

\* Before a stream is late, its timer is woken only by a close of the main thread, which then sets done or
\* has set it: the main thread has sent its last response by then.
Alone(r) ==
    ~LateStream(r) =>
        /\ \/ ctx[r] = "canceled"
           \/ r \in Streams /\ timer(r).pc \in {"finalize", "check", "select", "close", "done", "over"}
           => main(r).pc = "done" \/ done[r]
        /\ done[r] => main(r).pc \in {"done", "finalize", "over"}
        /\ main(r).pc = "over" => done[r]

\* The timer has sent a last response, or given up.
TimerPast(r) == r \in Streams /\ timer(r).pc \in {"close", "done", "over"}

\* What is sent when one more last response may follow.
Ordered(q, more) ==
    \A i \in 1 .. Len(q) :
        /\ q[i] \in {i, Unencodable, Final}
        /\ q[i] = Final => /\ i = Len(q) \/ (more /\ i + 1 = Len(q))
                           /\ \A j \in i .. Len(q) : q[j] = Final

\* The main thread has sent its last response, or given up.
MainPast(r) == main(r).pc \in {"close", "done"} \/ done[r]

\* What has been sent of a request that is not late: as long as the output is open, all items up to the
\* one in hand; and the last response from the time that the main thread has to close.
Progress(r) ==
    ~LateStream(r) =>
        /\ Ordered(sent[r], TimerPast(r))
        /\ (\E i \in 1 .. Len(sent[r]) : sent[r][i] = Final) \/ Answered(r) => MainPast(r)
        /\ MainPast(r) /\ ctx[r] # "expired" /\ outputOpen => Answered(r)
        /\ outputOpen /\ main(r).pc \in {"idle", "produce"} => Len(sent[r]) = items[r]
        /\ outputOpen /\ main(r).pc \in {"check", "select"} /\ main(r).msg # Final =>
              main(r).msg = items[r] /\ items[r] = Len(sent[r]) + 1

Inv(r) == Shape(r) /\ Alone(r) /\ Progress(r)

IInv ==
    /\ TypeOK
    /\ \A r \in Requests : Inv(r)

-----------------------------------------------------------------------------
LEMMA ThreadFacts ==
    /\ \A r \in Requests : /\ Main(r) \in Threads /\ Timer(r) \in Threads /\ Main(r) # Timer(r)
                          /\ Main(r)[1] = r /\ Timer(r)[1] = r
    /\ \A r \in Requests, q \in Requests : r # q => /\ Main(r) # Main(q) /\ Timer(r) # Timer(q)
                                                /\ Main(r) # Timer(q) /\ Timer(r) # Main(q)
    /\ \A t \in Threads : t[1] \in Requests /\ (t = Main(t[1]) \/ t = Timer(t[1]))
  BY DEF Main, Timer, Threads

LEMMA StateFacts ==
    /\ 0 \in Messages /\ Final \in Messages /\ Final = 0
    /\ \A n \in 1 .. MaxItems : n \in Messages /\ n # Final
    /\ \A n \in Messages : n # Final => n \in 1 .. MaxItems
    /\ Unencodable \notin Messages /\ Unencodable # Final
  BY HandlerAssumption DEF Messages, Final, Unencodable

States == [pc : {"idle", "produce", "check", "select", "close", "done", "finalize", "wait", "over"},
           msg : Messages, finalizing : BOOLEAN]

LEMMA StateTypes ==
    /\ Finalizing \in States /\ Producing \in States
    /\ \A n \in Messages : Item(n) \in States
    /\ \A g \in States : AfterSend(g) \in States
    /\ \A g \in States : \A p \in {"check", "select", "close", "done", "over"} : [g EXCEPT !.pc = p] \in States
  BY StateFacts DEF States, Finalizing, Producing, Item, AfterSend

LEMMA TypeInit == Init => TypeOK
<1> SUFFICES ASSUME Init PROVE TypeOK
  OBVIOUS
<1>1. at \in [Threads -> States]
  BY StateFacts DEF Init, States
<1>2. sent \in [Requests -> Seq(Messages \cup {Unencodable})] /\ OutputCh \in Seq(Requests \X Messages) /\ Len(OutputCh) <= OutputChSize
  BY HandlerAssumption, EmptySeq DEF Init
<1>3. items \in [Requests -> 0 .. MaxItems]
  BY HandlerAssumption DEF Init
<1> QED  BY <1>1, <1>2, <1>3 DEF TypeOK, Init, States

LEMMA AtType ==
    ASSUME TypeOK, NEW t \in Threads, ThreadStep(t)
    PROVE  at' \in [Threads -> States]
<1>1. at \in [Threads -> States] /\ at[t] \in States
  BY DEF TypeOK, States
<1>2. AfterSend(at[t]) \in States /\ \A p \in {"check", "select", "close", "done", "over"} : [at[t] EXCEPT !.pc = p] \in States
  BY <1>1, StateTypes
<1>3. \E g \in States : at' = [at EXCEPT ![t] = g]
  <2>1. \E g : at' = [at EXCEPT ![t] = g] /\ (g = AfterSend(at[t]) \/ \E p \in {"check", "select", "close", "done", "over"} : g = [at[t] EXCEPT !.pc = p])
    <3>1. CASE Finalize(t)
      BY <1>1, <3>1 DEF Finalize, GoTo
    <3>2. CASE CheckDone(t)
      BY <1>1, <3>2 DEF CheckDone, GoTo, Become
    <3>3. CASE Send(t) \/ GiveUp(t) \/ MarshalFails(t)
      BY <1>1, <3>3 DEF Send, GiveUp, MarshalFails, AfterSelect, GoTo, Become
    <3>4. CASE Close(t) \/ SetDone(t)
      BY <1>1, <3>4 DEF Close, SetDone, Become, GoTo
    <3> QED  BY <3>1, <3>2, <3>3, <3>4 DEF ThreadStep
  <2> QED  BY <1>2, <2>1
<1> QED  BY <1>1, <1>3

LEMMA TypeStep == TypeOK /\ [Next]_vars => TypeOK'
<1> SUFFICES ASSUME TypeOK, [Next]_vars PROVE TypeOK'
  OBVIOUS
<1> USE DEF handlerVars, outVars
<1>1. ASSUME NEW r \in Requests, RequestStep(r) \/ cancelRequest(r) \/ Expire(r) PROVE TypeOK'
  <2>1. CASE Arrive(r)
    <3>1. at' \in [Threads -> States]
      <4>1. at[Timer(r)] \in States /\ Producing \in States
        BY StateTypes, ThreadFacts DEF TypeOK, States
      <4>2. \A p \in {"wait", "over"} : [at[Timer(r)] EXCEPT !.pc = p] \in States
        BY <4>1 DEF States
      <4>3. PICK p \in {"wait", "over"} : at' = [at EXCEPT ![Main(r)] = Producing, ![Timer(r)].pc = p]
        BY <2>1 DEF Arrive
      <4>4. at' = [at EXCEPT ![Main(r)] = Producing, ![Timer(r)] = [at[Timer(r)] EXCEPT !.pc = p]]
        BY <4>3, ThreadFacts DEF TypeOK
      <4> QED  BY <4>1, <4>2, <4>4 DEF TypeOK, States
    <3> QED  BY <2>1, <3>1 DEF Arrive, TypeOK, States
  <2>2. CASE ProduceLast(r) \/ ProduceEnd(r) \/ TimerFires(r)
    <3>1. at' \in [Threads -> States]
      <4>1. \A t, g : g \in States /\ Become(t, g) => at' \in [Threads -> States]
        BY DEF Become, TypeOK, States
      <4>2. Finalizing \in States /\ Item(Final) \in States
        BY StateTypes, StateFacts
      <4> QED  BY <2>2, <4>1, <4>2 DEF ProduceLast, ProduceEnd, TimerFires
    <3> QED  BY <2>2, <3>1 DEF ProduceLast, ProduceEnd, TimerFires, TypeOK, States
  <2>3. CASE ProduceItem(r)
    <3>1. items[r] + 1 \in 1 .. MaxItems
      BY <2>3, HandlerAssumption DEF ProduceItem, TypeOK
    <3>2. at' \in [Threads -> States]
      BY <2>3, <3>1, StateTypes, StateFacts DEF ProduceItem, Become, TypeOK, States
    <3>3. items' \in [Requests -> 0 .. MaxItems]
      BY <2>3, <3>1, HandlerAssumption DEF ProduceItem, TypeOK
    <3> QED  BY <2>3, <3>2, <3>3 DEF ProduceItem, TypeOK, States
  <2>4. CASE cancelRequest(r)
    BY <2>4 DEF cancelRequest, TypeOK
  <2>5. CASE Expire(r)
    BY <2>5 DEF Expire, TypeOK
  <2> QED  BY <1>1, <2>1, <2>2, <2>3, <2>4, <2>5 DEF RequestStep
<1>2. ASSUME NEW t \in Threads, ThreadStep(t) PROVE TypeOK'
  <2>1. at' \in [Threads -> States] /\ t[1] \in Requests
    BY <1>2, AtType, ThreadFacts
  <2>2. CASE Finalize(t) \/ CheckDone(t) \/ GiveUp(t)
    BY <2>1, <2>2 DEF Finalize, CheckDone, GiveUp, TypeOK, States
  <2>3. CASE Close(t) \/ SetDone(t)
    BY <2>1, <2>3 DEF Close, SetDone, TypeOK, States
  <2>5. CASE MarshalFails(t)
    <3>1. sent' \in [Requests -> Seq(Messages \cup {Unencodable})]
      BY <2>1, <2>5, AppendProperties DEF MarshalFails, TypeOK
    <3> QED  BY <2>1, <2>5, <3>1 DEF MarshalFails, TypeOK, States
  <2>4. CASE Send(t)
    <3>1. at[t].msg \in Messages
      BY DEF TypeOK
    <3>2. <<t[1], at[t].msg>> \in Requests \X Messages
      BY <2>1, <3>1
    <3>3. OutputCh' \in Seq(Requests \X Messages) /\ Len(OutputCh') = Len(OutputCh) + 1
      BY <2>4, <3>2, AppendProperties DEF Send, TypeOK
    <3>4. Len(OutputCh') <= OutputChSize
      BY <2>4, <3>3, HandlerAssumption, LenProperties DEF Send, TypeOK
    <3>5. sent' \in [Requests -> Seq(Messages \cup {Unencodable})]
      BY <2>1, <2>4, <3>1, AppendProperties DEF Send, TypeOK
    <3> QED  BY <2>1, <2>4, <3>3, <3>4, <3>5 DEF Send, TypeOK, States
  <2> QED  BY <1>2, <2>2, <2>3, <2>4, <2>5 DEF ThreadStep
<1>3. CASE PeerReceive
  <2>1. OutputCh' \in Seq(Requests \X Messages) /\ Len(OutputCh') = Len(OutputCh) - 1 /\ Len(OutputCh) \in Nat
    BY <1>3, HeadTailProperties, LenProperties, EmptySeq DEF PeerReceive, TypeOK
  <2>2. Len(OutputCh') <= OutputChSize
    BY <2>1, HandlerAssumption DEF TypeOK
  <2> QED  BY <1>3, <2>1, <2>2 DEF PeerReceive, TypeOK
<1>4. CASE ServerEnds
  BY <1>4 DEF ServerEnds, TypeOK
<1>5. CASE UNCHANGED vars
  BY <1>5 DEF vars, TypeOK
<1> QED  BY <1>1, <1>2, <1>3, <1>4, <1>5 DEF Next

\* Types of all the state of requests, handlers and channels.
THEOREM TypeCorrect == Spec => []TypeOK
<1> QED  BY TypeInit, TypeStep, PTL DEF Spec

-----------------------------------------------------------------------------
LEMMA InvInit == Init => \A r \in Requests : Inv(r)
<1> SUFFICES ASSUME Init, NEW r \in Requests PROVE Inv(r)
  OBVIOUS
<1>1. /\ main(r) = [pc |-> "idle", msg |-> Final, finalizing |-> FALSE]
      /\ timer(r) = [pc |-> "idle", msg |-> Final, finalizing |-> FALSE]
      /\ ctx[r] = "none" /\ ~done[r] /\ items[r] = 0 /\ sent[r] = <<>> /\ ResponseHandlerMap = {}
  BY ThreadFacts DEF Init, main, timer
<1>2. Len(sent[r]) = 0 /\ ~Answered(r)
  BY <1>1, EmptySeq DEF Answered
<1>3. Shape(r)
  BY <1>1 DEF Shape, main, timer
<1>4. Alone(r)
  BY <1>1 DEF Alone
<1>5. Progress(r)
  BY <1>1, <1>2 DEF Progress, Ordered, MainPast
<1> QED  BY <1>3, <1>4, <1>5 DEF Inv

\* A step that does not concern r, but that it may unregister r or close the output.
LEMMA Frame ==
    ASSUME NEW r \in Requests, Inv(r), main(r)' = main(r), timer(r)' = timer(r), ctx'[r] = ctx[r],
           done'[r] = done[r], sent'[r] = sent[r], items'[r] = items[r],
           r \in ResponseHandlerMap' => r \in ResponseHandlerMap, outputOpen' => outputOpen
    PROVE  Inv(r)'
<1>1. LateStream(r)' <=> LateStream(r)
  BY DEF LateStream
<1>2. Answered(r)' <=> Answered(r)
  BY DEF Answered
<1>3. Shape(r)'
  BY DEF Inv, Shape, main, timer
<1>4. Alone(r)'
  BY <1>1 DEF Inv, Alone
<1>5. Progress(r)'
  BY <1>1, <1>2 DEF Inv, Progress, Ordered, MainPast, TimerPast
<1> QED  BY <1>3, <1>4, <1>5 DEF Inv

LEMMA OthersStep ==
    ASSUME TypeOK, NEW q \in Requests, NEW r \in Requests \ {q}, Inv(r),
           \/ RequestStep(q) \/ cancelRequest(q) \/ Expire(q)
           \/ \E t \in {Main(q), Timer(q)} : ThreadStep(t)
    PROVE  Inv(r)'
<1> USE DEF handlerVars, outVars
<1>0. /\ Main(r) \in Threads /\ Timer(r) \in Threads
      /\ \A t \in {Main(q), Timer(q)} : t # Main(r) /\ t # Timer(r) /\ t[1] = q
  BY ThreadFacts
<1>1. CASE RequestStep(q) \/ cancelRequest(q) \/ Expire(q)
  <2>1. main(r)' = main(r) /\ timer(r)' = timer(r)
    BY <1>0, <1>1 DEF RequestStep, Arrive, ProduceLast, ProduceItem, ProduceEnd, TimerFires, cancelRequest, Expire,
       Become, TypeOK, main, timer
  <2>2. /\ ctx'[r] = ctx[r] /\ done'[r] = done[r] /\ items'[r] = items[r] /\ UNCHANGED outVars
        /\ r \in ResponseHandlerMap' => r \in ResponseHandlerMap
    BY <1>1 DEF RequestStep, Arrive, ProduceLast, ProduceItem, ProduceEnd, TimerFires, cancelRequest, Expire, TypeOK
  <2> QED  BY <2>1, <2>2, Frame
<1>2. ASSUME NEW t \in {Main(q), Timer(q)}, ThreadStep(t) PROVE Inv(r)'
  <2>1. main(r)' = main(r) /\ timer(r)' = timer(r)
    BY ZenonT(60), <1>0, <1>2 DEF ThreadStep, Finalize, CheckDone, MarshalFails, Send, GiveUp, Close, SetDone, AfterSelect, Become, GoTo, TypeOK, main, timer
  <2>2. /\ ctx'[r] = ctx[r] /\ done'[r] = done[r] /\ items'[r] = items[r] /\ sent'[r] = sent[r]
        /\ UNCHANGED outputOpen /\ (r \in ResponseHandlerMap' => r \in ResponseHandlerMap)
    BY <1>0, <1>2 DEF ThreadStep, Finalize, CheckDone, MarshalFails, Send, GiveUp, Close, SetDone, TypeOK
  <2> QED  BY <2>1, <2>2, Frame
<1> QED  BY <1>1, <1>2

\* A step that changes only where the threads of r are.
LEMMA Moves ==
    ASSUME NEW r \in Requests, Shape(r)', Alone(r)', Progress(r), UNCHANGED <<handlerVars, outVars, items>>,
           main(r)'.pc \in {"close", "done"} <=> main(r).pc \in {"close", "done"},
           TimerPast(r)' <=> TimerPast(r),
           main(r)'.pc \in {"idle", "produce"} =>
              main(r).pc \in {"idle", "produce"} \/ ~(outputOpen /\ ~LateStream(r)),
           main(r)'.pc \in {"check", "select"} /\ main(r)'.msg # Final =>
              main(r).pc \in {"check", "select"} /\ main(r).msg = main(r)'.msg
    PROVE  Inv(r)'
<1> USE DEF handlerVars, outVars
<1>1. (LateStream(r)' <=> LateStream(r)) /\ (Answered(r)' <=> Answered(r))
  BY DEF LateStream, Answered
<1>2. MainPast(r)' <=> MainPast(r)
  BY DEF MainPast
<1>3. Progress(r)'
  BY <1>1, <1>2 DEF Progress, Ordered
<1> QED  BY <1>3 DEF Inv

LEMMA RequestKeeps ==
    ASSUME TypeOK, NEW r \in Requests, Inv(r), RequestStep(r) \/ cancelRequest(r) \/ Expire(r)
    PROVE  Inv(r)'
<1> USE DEF handlerVars, outVars
<1>0. /\ Main(r) \in Threads /\ Timer(r) \in Threads /\ Main(r) # Timer(r)
      /\ main(r) \in States /\ timer(r) \in States
  BY ThreadFacts DEF TypeOK, States, main, timer
<1>1. CASE Arrive(r)
  <2>1. /\ main(r)' = Producing
        /\ timer(r)' = [timer(r) EXCEPT !.pc = IF r \in Streams THEN "wait" ELSE "over"]
    BY <1>0, <1>1 DEF Arrive, TypeOK, main, timer
  <2>2. timer(r)'.pc \in {"wait", "over"} /\ timer(r)'.msg = timer(r).msg /\ timer(r)'.finalizing = timer(r).finalizing
    BY <1>0, <2>1 DEF States
  <2>3. main(r).pc = "idle" /\ ctx[r] = "none" /\ ctx'[r] = "live" /\ UNCHANGED <<done, items, outVars>>
    BY <1>1 DEF Arrive, Inv, Shape, TypeOK, main
  <2>4. ~LateStream(r) /\ ~LateStream(r)' /\ (Answered(r)' <=> Answered(r))
    BY <2>3 DEF LateStream, Answered
  <2>5. r \in Calls => timer(r)'.pc = "over"
    BY <1>0, <2>1, HandlerAssumption DEF States
  <2>6. Shape(r)'
    <3>1. main(r)'.pc = "produce" /\ main(r)'.msg = Final /\ ~main(r)'.finalizing
      BY <2>1 DEF Producing
    <3>2. timer(r).finalizing => timer(r).msg = Final
      BY DEF Inv, Shape, timer
    <3>3. \A t \in {Main(r), Timer(r)} :
            /\ at'[t].finalizing => at'[t].msg = Final
            /\ at'[t].pc = "finalize" => at'[t].finalizing
            /\ at'[t].pc \in {"close", "done"} => at'[t].msg = Final
      BY <2>2, <3>1, <3>2 DEF main, timer
    <3> QED  BY <2>2, <2>5, <3>1, <3>3 DEF Shape
  <2>7. ~done[r]
    BY <2>3, <2>4 DEF Inv, Alone
  <2>8. Alone(r)'
    <3>1. r \in Streams => timer(r)'.pc = "wait"
      BY <1>0, <2>1 DEF States
    <3> QED  BY <2>1, <2>2, <2>3, <2>7, <3>1 DEF Alone, Producing
  <2>9. Progress(r)'
    <3>1. main(r)'.pc = "produce" /\ ~MainPast(r) /\ ~MainPast(r)'
      BY <2>1, <2>3, <2>7 DEF MainPast, Producing
    <3>2. \A i \in 1 .. Len(sent[r]) : sent[r][i] # Final
      BY <2>4, <3>1 DEF Inv, Progress
    <3> QED  BY <2>3, <2>4, <3>1, <3>2 DEF Inv, Progress, Ordered
  <2> QED  BY <2>6, <2>8, <2>9 DEF Inv
<1>2. CASE ProduceLast(r) \/ ProduceEnd(r)
  <2>1. /\ main(r)' = Item(Final) \/ (main(r)' = Finalizing /\ r \in Streams)
        /\ timer(r)' = timer(r) /\ main(r).pc = "produce"
        /\ UNCHANGED <<handlerVars, items, outVars>>
    BY <1>0, <1>2 DEF ProduceLast, ProduceEnd, Become, TypeOK, main, timer
  <2>2. main(r)'.pc \in {"check", "finalize"} /\ main(r)'.msg = Final /\ (main(r)'.finalizing <=> main(r)'.pc = "finalize")
    BY <2>1 DEF Item, Finalizing
  <2>3. Shape(r)'
    BY <2>1, <2>2 DEF Inv, Shape, main, timer
  <2>4. LateStream(r)' <=> LateStream(r)
    BY <2>1 DEF LateStream
  <2>5. Alone(r)'
    BY <2>1, <2>2, <2>4 DEF Inv, Alone
  <2> QED  BY <2>1, <2>2, <2>3, <2>5, Moves DEF Inv, TimerPast
<1>3. CASE ProduceItem(r)
  <2>1. /\ main(r)' = Item(items[r] + 1) /\ timer(r)' = timer(r) /\ main(r).pc = "produce" /\ r \in Streams
        /\ items'[r] = items[r] + 1 /\ items[r] \in Nat /\ UNCHANGED <<handlerVars, outVars>>
    BY <1>0, <1>3, HandlerAssumption DEF ProduceItem, Become, TypeOK, main, timer
  <2>2. main(r)'.pc = "check" /\ main(r)'.msg = items'[r] /\ ~main(r)'.finalizing
    BY <2>1 DEF Item
  <2>3. Shape(r)'
    BY <2>1, <2>2, HandlerAssumption DEF Inv, Shape, main, timer
  <2>4. (LateStream(r)' <=> LateStream(r)) /\ (Answered(r)' <=> Answered(r))
    BY <2>1 DEF LateStream, Answered
  <2>5. Alone(r)'
    BY <2>1, <2>2, <2>4 DEF Inv, Alone
  <2>6. Progress(r)'
    BY <2>1, <2>2, <2>4 DEF Inv, Progress, Ordered, MainPast, TimerPast
  <2> QED  BY <2>3, <2>5, <2>6 DEF Inv
<1>4. CASE TimerFires(r)
  <2>1. /\ timer(r)' = Finalizing /\ main(r)' = main(r) /\ timer(r).pc = "wait" /\ ctx[r] \in {"expired", "canceled"}
        /\ UNCHANGED <<handlerVars, items, outVars>>
    BY <1>0, <1>4 DEF TimerFires, Over, Become, TypeOK, main, timer
  <2>2. timer(r)'.pc = "finalize" /\ timer(r)'.msg = Final /\ timer(r)'.finalizing
    BY <2>1 DEF Finalizing
  <2>3. r \notin Calls
    BY <2>1 DEF Inv, Shape
  <2>4. Shape(r)'
    BY <2>1, <2>2, <2>3 DEF Inv, Shape, main, timer
  <2>5. (LateStream(r)' <=> LateStream(r)) /\ (~LateStream(r) => ctx[r] = "canceled")
    BY <2>1, <2>3 DEF LateStream, Requests
  <2>6. Alone(r)'
    BY <2>1, <2>2, <2>5 DEF Inv, Alone
  <2> QED  BY <2>1, <2>2, <2>4, <2>6, Moves DEF Inv, TimerPast
<1>5. CASE cancelRequest(r)
  BY <1>5, Frame DEF cancelRequest, main, timer
<1>6. CASE Expire(r)
  <2>1. ctx[r] = "live" /\ ctx'[r] = "expired" /\ UNCHANGED <<ResponseHandlerMap, done, at, items, outVars>>
    BY <1>6 DEF Expire, TypeOK
  <2>2. ~LateStream(r) /\ (Answered(r)' <=> Answered(r)) /\ main(r)' = main(r) /\ timer(r)' = timer(r)
    BY <2>1 DEF LateStream, Answered, main, timer
  <2>3. main(r).pc # "idle"
    BY <2>1 DEF Inv, Shape
  <2>4. Shape(r)'
    BY <2>1, <2>2, <2>3 DEF Inv, Shape, main, timer
  <2>5. Alone(r)'
    BY <2>1, <2>2 DEF Inv, Alone
  <2>6. Progress(r)'
    BY <2>1, <2>2 DEF Inv, Progress, Ordered, MainPast, TimerPast
  <2> QED  BY <2>4, <2>5, <2>6 DEF Inv
<1> QED  BY <1>1, <1>2, <1>3, <1>4, <1>5, <1>6 DEF RequestStep

\* Where a thread is after AfterSend.
LEMMA AfterSendFacts ==
    ASSUME NEW g \in States, g.finalizing => g.msg = Final
    PROVE  /\ g.finalizing => /\ AfterSend(g).pc = "over" /\ AfterSend(g).finalizing /\ AfterSend(g).msg = Final
           /\ ~g.finalizing /\ g.msg = Final => AfterSend(g) = Finalizing
           /\ ~g.finalizing /\ g.msg # Final => AfterSend(g) = Producing
  BY DEF AfterSend, States

LEMMA RecordFacts ==
    /\ Finalizing.pc = "finalize" /\ Finalizing.finalizing /\ Finalizing.msg = Final
    /\ Producing.pc = "produce" /\ ~Producing.finalizing /\ Producing.msg = Final
    /\ \A g \in States : \A p \in {"check", "select", "close", "done", "over"} :
          LET h == [g EXCEPT !.pc = p] IN h.pc = p /\ h.msg = g.msg /\ h.finalizing = g.finalizing
  BY DEF Finalizing, Producing, States

\* What a step of thread t does.
Finalizes(t, r) ==
    /\ at[t].pc = "finalize" /\ UNCHANGED <<ctx, done, sent>> /\ ResponseHandlerMap' = ResponseHandlerMap \ {r}
    /\ at'[t] = [at[t] EXCEPT !.pc = IF done[r] THEN "over" ELSE "check"]
Checks(t, r) ==
    /\ at[t].pc = "check" /\ UNCHANGED <<ResponseHandlerMap, ctx, done, sent>>
    /\ at'[t] = IF done[r] THEN AfterSend(at[t]) ELSE [at[t] EXCEPT !.pc = "select"]
Selects(t, r) ==
    /\ at[t].pc = "select" /\ UNCHANGED <<ResponseHandlerMap, ctx, done>>
    /\ (sent'[r] = Append(sent[r], at[t].msg) /\ outputOpen) \/ (sent'[r] = sent[r] /\ (Over(r) \/ ~outputOpen))
    /\ at'[t] = IF at[t].msg = Final THEN [at[t] EXCEPT !.pc = "close"] ELSE AfterSend(at[t])
Skips(t, r) ==
    /\ at[t].pc = "check" /\ UNCHANGED <<ResponseHandlerMap, ctx, done>>
    /\ at[t].msg # Final \/ (r \in Calls /\ ~at[t].finalizing)
    /\ sent'[r] = Append(sent[r], Unencodable)
    /\ at'[t] = IF at[t].msg = Final THEN [at[t] EXCEPT !.pc = "close"] ELSE AfterSend(at[t])
Closes(t, r) ==
    /\ at[t].pc = "close" /\ UNCHANGED <<ResponseHandlerMap, done, sent>>
    /\ ctx'[r] = IF ctx[r] = "live" THEN "canceled" ELSE ctx[r]
    /\ at'[t] = [at[t] EXCEPT !.pc = "done"]
Dones(t, r) ==
    /\ at[t].pc = "done" /\ UNCHANGED <<ResponseHandlerMap, ctx, sent>>
    /\ done'[r] = TRUE
    /\ at'[t] = AfterSend(at[t])
Steps(t, r) ==
    Finalizes(t, r) \/ Checks(t, r) \/ Selects(t, r) \/ Skips(t, r) \/ Closes(t, r) \/ Dones(t, r)

LEMMA ThreadMoves ==
    ASSUME TypeOK, NEW r \in Requests, NEW t \in {Main(r), Timer(r)}, ThreadStep(t)
    PROVE  /\ \A u \in Threads \ {t} : at'[u] = at[u]
           /\ UNCHANGED <<items, canceled, outputOpen>>
           /\ Steps(t, r)
<1>0. t \in Threads /\ t[1] = r
  BY ThreadFacts
<1> USE DEF handlerVars, outVars
<1>1. \A f, p : /\ Become(t, f) => at'[t] = f
                /\ GoTo(t, p) => at'[t] = [at[t] EXCEPT !.pc = p]
                /\ Become(t, f) \/ GoTo(t, p) => \A u \in Threads \ {t} : at'[u] = at[u]
  BY <1>0 DEF Become, GoTo, TypeOK
<1>2. CASE Finalize(t)
  BY <1>0, <1>1, <1>2 DEF Finalize, Finalizes, Steps
<1>3. CASE CheckDone(t)
  BY <1>0, <1>1, <1>3 DEF CheckDone, Checks, Steps
<1>4. CASE Send(t)
  BY <1>0, <1>1, <1>4 DEF Send, AfterSelect, Selects, TypeOK, Steps
<1>5. CASE GiveUp(t)
  BY <1>0, <1>1, <1>5 DEF GiveUp, AfterSelect, Selects, Steps
<1>6. CASE Close(t)
  BY <1>0, <1>1, <1>6 DEF Close, Closes, TypeOK, Steps
<1>7. CASE SetDone(t)
  BY <1>0, <1>1, <1>7 DEF SetDone, Dones, TypeOK, Steps
<1>8. CASE MarshalFails(t)
  BY <1>0, <1>1, <1>8 DEF MarshalFails, AfterSelect, Skips, TypeOK, Steps
<1> QED  BY <1>2, <1>3, <1>4, <1>5, <1>6, <1>7, <1>8 DEF ThreadStep, Steps

LEMMA TimerKeeps ==
    ASSUME TypeOK, NEW r \in Requests, Inv(r), ThreadStep(Timer(r))
    PROVE  Inv(r)'
<1>0. /\ Main(r) \in Threads /\ Timer(r) \in Threads /\ Main(r) # Timer(r)
      /\ timer(r) \in States /\ main(r) \in States
  BY ThreadFacts DEF TypeOK, States, main, timer
<1>1. main(r)' = main(r) /\ UNCHANGED <<items, outputOpen>> /\ Steps(Timer(r), r)
  BY <1>0, ThreadMoves DEF main
<1>2. /\ timer(r).pc \in {"finalize", "check", "select", "close", "done"} /\ timer(r).finalizing /\ timer(r).msg = Final
      /\ r \in ResponseHandlerMap' => r \in ResponseHandlerMap
  <2>1. /\ timer(r).pc \in {"finalize", "check", "select", "close", "done"}
        /\ r \in ResponseHandlerMap' => r \in ResponseHandlerMap
    BY <1>1 DEF Steps, Finalizes, Checks, Selects, Skips, Closes, Dones, timer
  <2> QED  BY <2>1 DEF Inv, Shape, timer
<1>4. r \notin Calls /\ r \in Streams
  BY <1>2 DEF Inv, Shape, Requests
<1>a. AfterSend(timer(r)).pc = "over" /\ AfterSend(timer(r)).finalizing /\ AfterSend(timer(r)).msg = Final
  BY <1>0, <1>2, AfterSendFacts
<1>b. \A p \in {"check", "select", "close", "done", "over"} :
        LET h == [timer(r) EXCEPT !.pc = p] IN h.pc = p /\ h.msg = Final /\ h.finalizing
  BY <1>0, <1>2, RecordFacts
<1>c. ~Skips(Timer(r), r)
  BY <1>2, <1>4 DEF Skips, timer
<1>3. /\ timer(r)'.msg = Final /\ timer(r)'.finalizing
      /\ timer(r)'.pc \in {"check", "select", "close", "done", "over"}
  BY <1>1, <1>a, <1>b, <1>c DEF Steps, Finalizes, Checks, Selects, Closes, Dones, timer
<1>5. ctx'[r] = ctx[r] \/ (ctx[r] = "live" /\ ctx'[r] = "canceled")
  BY <1>1, <1>c DEF Steps, Finalizes, Checks, Selects, Closes, Dones, timer
<1>6. LateStream(r) <=> LateStream(r)'
  BY <1>5 DEF LateStream
<1>7. done'[r] = done[r] \/ done'[r] = TRUE
  BY <1>1, <1>c DEF Steps, Finalizes, Checks, Selects, Closes, Dones, timer
<1>8. Shape(r)'
  <2>1. main(r).pc = "idle" => ctx[r] = "none" /\ ctx'[r] = ctx[r]
    BY <1>5 DEF Inv, Shape
  <2> QED  BY <1>1, <1>2, <1>3, <1>4, <2>1 DEF Inv, Shape, main, timer
<1>9. ASSUME ~LateStream(r) PROVE Alone(r)' /\ Progress(r)'
  <2>1. main(r).pc = "done" \/ done[r]
    BY <1>2, <1>4, <1>9 DEF Inv, Alone
  <2>2. main(r).pc \in {"done", "finalize", "over"} /\ (main(r).pc = "over" => done[r]) /\ MainPast(r)
    BY <1>9, <2>1 DEF Inv, Alone, MainPast
  <2>3. Alone(r)'
    BY <1>1, <1>7, <2>1, <2>2 DEF Alone
  <2>4. MainPast(r)'
    BY <1>1, <1>7, <2>2 DEF MainPast
  <2>5. ctx[r] # "expired" /\ ctx'[r] # "expired"
    BY <1>4, <1>6, <1>9 DEF LateStream
  <2>6. CASE sent'[r] = sent[r]
    <3>1. Answered(r)' <=> Answered(r)
      BY <2>6 DEF Answered
    <3>2. TimerPast(r) => TimerPast(r)'
      BY <1>1, <1>3, <1>a, <1>b, <1>c DEF TimerPast, Steps, Finalizes, Checks, Selects, Closes, Dones, timer
    <3>3. Ordered(sent[r], TimerPast(r)) /\ (TimerPast(r) => TimerPast(r)') => Ordered(sent[r], TimerPast(r)')
      BY DEF Ordered
    <3>4. Ordered(sent'[r], TimerPast(r)')
      BY <1>9, <2>6, <3>2, <3>3 DEF Inv, Progress
    <3>5. ctx[r] # "expired" /\ outputOpen => Answered(r)
      BY <1>9, <2>2 DEF Inv, Progress
    <3>6. Ordered(sent[r], TimerPast(r))'
      BY <3>4 DEF Ordered
    <3>7. main(r)'.pc \in {"done", "finalize", "over"}
      BY <1>1, <2>2
    <3> QED  BY <1>1, <2>3, <2>4, <2>5, <3>1, <3>5, <3>6, <3>7 DEF Progress
  <2>7. CASE sent'[r] # sent[r]
    <3>1. /\ timer(r).pc = "select" /\ sent'[r] = Append(sent[r], Final) /\ timer(r)'.pc = "close"
      BY <1>1, <1>2, <1>b, <1>c, <2>7 DEF Steps, Finalizes, Checks, Selects, Closes, Dones, timer
    <3>2. PICK q : q = sent'[r]
      OBVIOUS
    <3>3. sent[r] \in Seq(Messages \cup {Unencodable}) /\ Len(sent[r]) \in Nat
      BY LenProperties DEF TypeOK
    <3>4. /\ Len(q) = Len(sent[r]) + 1 /\ q[Len(sent[r]) + 1] = Final
          /\ \A i \in 1 .. Len(sent[r]) : q[i] = sent[r][i]
      BY <3>1, <3>2, <3>3, StateFacts, AppendProperties
    <3>5. \A i \in 1 .. Len(q) : i \in 1 .. Len(sent[r]) \/ i = Len(q)
      BY <3>3, <3>4
    <3>6. ~TimerPast(r) /\ TimerPast(r)'
      BY <1>4, <3>1 DEF TimerPast
    <3>7. \A i \in 1 .. Len(sent[r]) : sent[r][i] \in {i, Unencodable, Final} /\ (sent[r][i] = Final => i = Len(sent[r]))
      BY <1>9, <3>6 DEF Inv, Progress, Ordered
    <3>8. Ordered(q, TRUE)
      BY <3>3, <3>4, <3>5, <3>7 DEF Ordered
    <3>9. Answered(r)'
      BY <3>2, <3>3, <3>4 DEF Answered
    <3>a. Ordered(sent[r], TimerPast(r))'
      BY <3>2, <3>6, <3>8 DEF Ordered
    <3>b. main(r)'.pc \in {"done", "finalize", "over"}
      BY <1>1, <2>2
    <3> QED  BY <2>3, <2>4, <3>9, <3>a, <3>b DEF Progress
  <2> QED  BY <2>3, <2>6, <2>7
<1> QED  BY <1>6, <1>8, <1>9 DEF Inv, Alone, Progress

LEMMA MainKeeps ==
    ASSUME TypeOK, NEW r \in Requests, Inv(r), ThreadStep(Main(r))
    PROVE  Inv(r)'
<1>0. /\ Main(r) \in Threads /\ Timer(r) \in Threads /\ Main(r) # Timer(r)
      /\ timer(r) \in States /\ main(r) \in States
  BY ThreadFacts DEF TypeOK, States, main, timer
<1>1. timer(r)' = timer(r) /\ UNCHANGED <<items, outputOpen>> /\ Steps(Main(r), r)
  BY <1>0, ThreadMoves DEF timer
<1>2. main(r).finalizing => main(r).msg = Final
  BY DEF Inv, Shape, main
<1>a. /\ main(r).finalizing => /\ AfterSend(main(r)).pc = "over" /\ AfterSend(main(r)).finalizing /\ AfterSend(main(r)).msg = Final
      /\ ~main(r).finalizing /\ main(r).msg = Final =>
            AfterSend(main(r)).pc = "finalize" /\ AfterSend(main(r)).finalizing /\ AfterSend(main(r)).msg = Final
      /\ ~main(r).finalizing /\ main(r).msg # Final =>
            AfterSend(main(r)).pc = "produce" /\ ~AfterSend(main(r)).finalizing /\ AfterSend(main(r)).msg = Final
  BY <1>0, <1>2, AfterSendFacts, RecordFacts
<1>b. \A p \in {"check", "select", "close", "done", "over"} :
        LET h == [main(r) EXCEPT !.pc = p] IN h.pc = p /\ h.msg = main(r).msg /\ h.finalizing = main(r).finalizing
  BY <1>0, RecordFacts
<1>s. ASSUME main(r)'.finalizing => main(r)'.msg = Final,
             main(r)'.pc \in {"finalize", "over"} => main(r)'.finalizing,
             main(r)'.pc \in {"close", "done"} => main(r)'.msg = Final,
             main(r)'.pc \in {"produce", "check", "select", "close", "done", "finalize", "over"},
             r \in Calls => main(r)'.msg = Final,
             main(r)'.finalizing /\ main(r)'.pc # "finalize" => r \notin ResponseHandlerMap'
      PROVE  Shape(r)'
  <2>1. \A t \in {Main(r), Timer(r)} :
          /\ at'[t].finalizing => at'[t].msg = Final
          /\ at'[t].pc = "finalize" => at'[t].finalizing
          /\ at'[t].pc \in {"close", "done"} => at'[t].msg = Final
    BY <1>1, <1>s DEF Inv, Shape, main, timer
  <2> QED  BY <1>1, <1>s, <2>1 DEF Inv, Shape
<1>t. TimerPast(r)' <=> TimerPast(r)
  BY <1>1 DEF TimerPast
<1>3. CASE Finalizes(Main(r), r)
  <2>1. /\ main(r).pc = "finalize" /\ main(r).finalizing /\ UNCHANGED <<ctx, done, sent>> /\ r \notin ResponseHandlerMap'
        /\ main(r)'.pc = (IF done[r] THEN "over" ELSE "check") /\ main(r)'.msg = Final /\ main(r)'.finalizing
    BY <1>b, <1>2, <1>3 DEF Finalizes, Inv, Shape, main
  <2>2. Shape(r)'
    BY <1>s, <2>1
  <2>3. (LateStream(r)' <=> LateStream(r)) /\ (Answered(r)' <=> Answered(r))
    BY <2>1 DEF LateStream, Answered
  <2>4. Alone(r)'
    BY <1>1, <2>1, <2>3 DEF Inv, Alone
  <2>5. Progress(r)'
    BY <1>1, <1>t, <2>1, <2>3 DEF Inv, Progress, Ordered, MainPast
  <2> QED  BY <2>2, <2>4, <2>5 DEF Inv
<1>4. CASE Checks(Main(r), r)
  <2>1. /\ main(r).pc = "check" /\ UNCHANGED <<ctx, done, sent, ResponseHandlerMap>>
        /\ \/ ~done[r] /\ main(r)'.pc = "select" /\ main(r)'.msg = main(r).msg /\ main(r)'.finalizing = main(r).finalizing
           \/ done[r] /\ main(r)' = AfterSend(main(r))
    BY <1>b, <1>4 DEF Checks, main
  <2>2. Shape(r)'
    BY <1>s, <1>a, <1>2, <2>1 DEF Inv, Shape
  <2>3. (LateStream(r)' <=> LateStream(r)) /\ (Answered(r)' <=> Answered(r))
    BY <2>1 DEF LateStream, Answered
  <2>4. ASSUME ~LateStream(r) PROVE main(r)'.pc = "select" /\ main(r)'.msg = main(r).msg
    BY <2>1, <2>4 DEF Inv, Alone
  <2>5. Alone(r)'
    BY <1>1, <2>1, <2>3, <2>4 DEF Inv, Alone
  <2>6. Progress(r)'
    BY <1>1, <1>t, <2>1, <2>3, <2>4 DEF Inv, Progress, Ordered, MainPast
  <2> QED  BY <2>2, <2>5, <2>6 DEF Inv
\* A response of the main thread: what it appends, if it does, and where the thread is then.
<1>r. ASSUME UNCHANGED <<ctx, done, ResponseHandlerMap>>, main(r).pc \in {"check", "select"},
             ~LateStream(r) => ~done[r],
             \/ sent'[r] = Append(sent[r], main(r).msg) /\ outputOpen
             \/ sent'[r] = Append(sent[r], Unencodable) /\ (main(r).msg = Final => r \in Calls)
             \/ sent'[r] = sent[r] /\ (Over(r) \/ ~outputOpen),
             \/ /\ main(r).msg = Final /\ main(r)'.pc = "close" /\ main(r)'.msg = Final
                /\ main(r)'.finalizing = main(r).finalizing
             \/ main(r).msg # Final /\ main(r)' = AfterSend(main(r))
      PROVE  Inv(r)'
  <2>1. main(r).msg # Final => main(r)'.pc = "produce" /\ r \notin Calls
    BY <1>a, <1>2, <1>r DEF Inv, Shape
  <2>2. Shape(r)'
    BY <1>s, <1>a, <1>2, <1>r DEF Inv, Shape
  <2>3. LateStream(r)' <=> LateStream(r)
    BY <1>r DEF LateStream
  <2>4. ASSUME ~LateStream(r) PROVE Alone(r)' /\ Progress(r)'
    <3>1. ~done[r] /\ ctx[r] # "canceled" /\ ~MainPast(r) /\ ~Answered(r) /\ ~TimerPast(r) /\ ~TimerPast(r)'
      BY <1>r, <1>t, <2>4 DEF Inv, Alone, Progress, MainPast, TimerPast
    <3>2. Alone(r)'
      BY <1>1, <1>r, <2>1, <2>4, <3>1 DEF Inv, Alone
    <3>3. /\ sent[r] \in Seq(Messages \cup {Unencodable}) /\ main(r).msg \in Messages /\ Len(sent[r]) \in Nat
          /\ \A i \in 1 .. Len(sent[r]) : sent[r][i] \in {i, Unencodable} /\ sent[r][i] # Final
      <4>1. sent[r] \in Seq(Messages \cup {Unencodable}) /\ main(r).msg \in Messages
        BY <1>0 DEF TypeOK, States
      <4> QED  BY <2>4, <3>1, <4>1, LenProperties DEF Inv, Progress, Ordered
    <3>4. ~done'[r] /\ UNCHANGED <<outputOpen, items>> /\ ctx'[r] = ctx[r]
      BY <1>1, <1>r, <3>1
    <3>5. CASE sent'[r] = sent[r] /\ (Over(r) \/ ~outputOpen)
      <4>1. (main(r).msg # Final => ~outputOpen) /\ (ctx[r] # "expired" => ~outputOpen)
        BY <2>1, <2>4, <3>1, <3>5 DEF Over, LateStream, Requests
      <4>2. ~Answered(r)'
        BY <3>1, <3>5 DEF Answered
      <4>3. Ordered(sent'[r], TimerPast(r)')
        BY <3>3, <3>5 DEF Ordered
      <4>4. main(r)'.pc \in {"close", "produce"} /\ (main(r)'.pc = "produce" => ~outputOpen)
        BY <1>r, <2>1, <4>1
      <4>5. \A i \in 1 .. Len(sent'[r]) : sent'[r][i] # Final
        BY <3>3, <3>5
      <4> QED  BY <3>2, <3>4, <4>1, <4>2, <4>3, <4>4, <4>5 DEF Progress, Ordered
    <3>6. ASSUME NEW m, sent'[r] = Append(sent[r], m), m = main(r).msg \/ m = Unencodable,
                 m = Unencodable => (main(r).msg = Final => r \in Calls)
          PROVE  Alone(r)' /\ Progress(r)'
      <4>1. PICK q : q = sent'[r]
        OBVIOUS
      <4>2. Len(q) = Len(sent[r]) + 1 /\ q[Len(sent[r]) + 1] = m /\ \A i \in 1 .. Len(sent[r]) : q[i] = sent[r][i]
        BY <3>3, <3>6, <4>1, AppendProperties
      <4>3. \A i \in 1 .. Len(q) : i \in 1 .. Len(sent[r]) \/ i = Len(q)
        BY <3>3, <4>2
      <4>4. CASE main(r).msg = Final
        <5>1. Answered(r)'
          BY <3>3, <3>6, <4>1, <4>2, <4>4 DEF Answered
        <5>2. Ordered(q, FALSE)
          BY <3>3, <3>6, <4>2, <4>3, <4>4, StateFacts DEF Ordered
        <5>3. main(r)'.pc = "close"
          BY <1>r, <4>4
        <5>4. Ordered(sent'[r], TimerPast(r)')
          BY <3>1, <4>1, <5>2 DEF Ordered
        <5> QED  BY <3>2, <5>1, <5>3, <5>4 DEF Progress, MainPast, Ordered
      <4>5. CASE main(r).msg # Final
        <5>1. outputOpen => main(r).msg = items[r] /\ items[r] = Len(sent[r]) + 1
          BY <1>r, <2>4, <4>5 DEF Inv, Progress
        <5>2. main(r)'.pc = "produce"
          BY <2>1, <4>5
        <5>3. (m # Unencodable => outputOpen /\ m = Len(q)) /\ (outputOpen => Len(q) = items'[r]) /\ m # Final
          BY <1>r, <3>1, <3>3, <3>4, <3>6, <4>1, <4>2, <4>5, <5>1, StateFacts
        <5>4. ~Answered(r)'
          BY <2>1, <3>3, <4>1, <4>2, <4>3, <4>5, <5>3 DEF Answered
        <5>5. \A i \in 1 .. Len(q) : q[i] \in {i, Unencodable} /\ q[i] # Final
          BY <3>3, <4>2, <4>3, <5>3
        <5>6. Ordered(sent'[r], TimerPast(r)')
          BY <4>1, <5>5 DEF Ordered
        <5> QED  BY <3>2, <3>4, <4>1, <5>2, <5>3, <5>4, <5>5, <5>6 DEF Progress, MainPast, Ordered
      <4> QED  BY <4>4, <4>5
    <3>7. CASE sent'[r] = Append(sent[r], main(r).msg)
      BY <3>3, <3>6, <3>7, StateFacts
    <3>8. CASE sent'[r] = Append(sent[r], Unencodable) /\ (main(r).msg = Final => r \in Calls)
      BY <3>6, <3>8
    <3> QED  BY <1>r, <3>5, <3>7, <3>8
  <2> QED  BY <2>2, <2>3, <2>4 DEF Inv, Alone, Progress
<1>5. CASE Selects(Main(r), r)
  <2>1. /\ main(r).pc = "select" /\ UNCHANGED <<ctx, done, ResponseHandlerMap>>
        /\ \/ sent'[r] = Append(sent[r], main(r).msg) /\ outputOpen
           \/ sent'[r] = sent[r] /\ (Over(r) \/ ~outputOpen)
        /\ \/ /\ main(r).msg = Final /\ main(r)'.pc = "close" /\ main(r)'.msg = Final
              /\ main(r)'.finalizing = main(r).finalizing
           \/ main(r).msg # Final /\ main(r)' = AfterSend(main(r))
    BY <1>b, <1>5 DEF Selects, main
  <2>2. ~LateStream(r) => ~done[r]
    BY <2>1 DEF Inv, Alone
  <2> QED  BY <1>r, <2>1, <2>2
<1>7. CASE Skips(Main(r), r)
  <2>1. /\ main(r).pc = "check" /\ UNCHANGED <<ctx, done, ResponseHandlerMap>>
        /\ sent'[r] = Append(sent[r], Unencodable) /\ (main(r).msg = Final => r \in Calls)
        /\ \/ /\ main(r).msg = Final /\ main(r)'.pc = "close" /\ main(r)'.msg = Final
              /\ main(r)'.finalizing = main(r).finalizing
           \/ main(r).msg # Final /\ main(r)' = AfterSend(main(r))
    BY <1>b, <1>7 DEF Skips, main
  <2>2. ~LateStream(r) => ~done[r]
    BY <2>1 DEF Inv, Alone
  <2> QED  BY <1>r, <2>1, <2>2
<1>6. CASE Closes(Main(r), r)
  <2>1. /\ main(r).pc = "close" /\ UNCHANGED <<sent, ResponseHandlerMap, done>>
        /\ ctx'[r] = (IF ctx[r] = "live" THEN "canceled" ELSE ctx[r])
        /\ main(r)'.pc = "done" /\ main(r).msg = Final /\ main(r)'.msg = Final
        /\ main(r)'.finalizing = main(r).finalizing
    BY <1>b, <1>6 DEF Closes, Inv, Shape, main
  <2>3. Shape(r)'
    BY <1>s, <1>2, <2>1 DEF Inv, Shape
  <2>4. (LateStream(r)' <=> LateStream(r)) /\ (Answered(r)' <=> Answered(r))
    BY <2>1 DEF LateStream, Answered
  <2>5. Alone(r)'
    BY <1>1, <2>1, <2>4 DEF Inv, Alone
  <2>6. Progress(r)'
    BY <1>1, <1>t, <2>1, <2>4 DEF Inv, Progress, Ordered, MainPast
  <2> QED  BY <2>3, <2>5, <2>6 DEF Inv
<1>8. CASE Dones(Main(r), r)
  <2>1. /\ main(r).pc = "done" /\ UNCHANGED <<sent, ctx, ResponseHandlerMap>>
        /\ done'[r] = TRUE /\ main(r)' = AfterSend(main(r)) /\ main(r).msg = Final
    BY <1>8 DEF Dones, Inv, Shape, main
  <2>2. main(r)'.pc \in {"over", "finalize"} /\ (main(r)'.pc = "finalize" <=> ~main(r).finalizing) /\ main(r)'.msg = Final
    BY <1>a, <2>1
  <2>3. Shape(r)'
    BY <1>s, <1>a, <1>2, <2>1, <2>2 DEF Inv, Shape
  <2>4. (LateStream(r)' <=> LateStream(r)) /\ (Answered(r)' <=> Answered(r))
    BY <2>1 DEF LateStream, Answered
  <2>5. Alone(r)'
    BY <1>1, <2>1, <2>2, <2>4 DEF Inv, Alone
  <2>6. Progress(r)'
    BY <1>1, <1>t, <2>1, <2>2, <2>4 DEF Inv, Progress, Ordered, MainPast
  <2> QED  BY <2>3, <2>5, <2>6 DEF Inv
<1> QED  BY <1>1, <1>3, <1>4, <1>5, <1>6, <1>7, <1>8 DEF Steps

-----------------------------------------------------------------------------
LEMMA InvStep == IInv /\ [Next]_vars => \A r \in Requests : Inv(r)'
<1> SUFFICES ASSUME IInv, [Next]_vars, NEW r \in Requests PROVE Inv(r)'
  OBVIOUS
<1>0. TypeOK /\ Inv(r)
  BY DEF IInv
<1>1. ASSUME NEW q \in Requests, RequestStep(q) \/ cancelRequest(q) \/ Expire(q) PROVE Inv(r)'
  BY <1>0, <1>1, RequestKeeps, OthersStep
<1>2. ASSUME NEW t \in Threads, ThreadStep(t) PROVE Inv(r)'
  <2>1. t[1] \in Requests /\ (t = Main(t[1]) \/ t = Timer(t[1]))
    BY ThreadFacts
  <2>2. CASE t[1] = r
    BY <1>0, <1>2, <2>1, <2>2, MainKeeps, TimerKeeps
  <2>3. CASE t[1] # r
    <3>1. PICK q \in Requests : q = t[1] /\ r \in Requests \ {q} /\ t \in {Main(q), Timer(q)}
      BY <2>1, <2>3
    <3> QED  BY <1>0, <1>2, <3>1, OthersStep
  <2> QED  BY <2>2, <2>3
<1>3. CASE PeerReceive \/ ServerEnds \/ UNCHANGED vars
  BY <1>0, <1>3, Frame DEF PeerReceive, ServerEnds, vars, handlerVars, outVars, main, timer
<1> QED  BY <1>1, <1>2, <1>3 DEF Next

LEMMA InvHolds == Spec => []IInv
<1>1. Init => IInv
  BY TypeInit, InvInit DEF IInv
<1>2. IInv /\ [Next]_vars => IInv'
  BY TypeStep, InvStep DEF IInv
<1> QED  BY <1>1, <1>2, PTL DEF Spec

\* The responses of a request are sent in order, and the last one is the last, but that two goroutines
\* may each send a last one (RpcResponseHandler: the done flag is checked before a send and set by close
\* after it has woken the other goroutine): unless the stream is late.
THEOREM ResponsesInOrder == Spec => []InOrder
<1>1. IInv => InOrder
  BY DEF IInv, Inv, Progress, Ordered, TimerPast, InOrder
<1> QED  BY <1>1, InvHolds, PTL

\* A request whose goroutines have ended is unregistered, and answered unless its deadline has passed, the
\* client has ended, or it is a call whose value cannot be encoded (the deferred Finalize of handleRequestInternal and of the stream's goroutines).
THEOREM RequestsAnswered == Spec => []EveryRequestAnswered
<1>1. IInv => EveryRequestAnswered
  <2> SUFFICES ASSUME IInv, NEW r \in Requests, Ended(r)
               PROVE  /\ r \notin ResponseHandlerMap
                      /\ ctx[r] # "expired" /\ outputOpen => Answered(r)
    BY DEF EveryRequestAnswered
  <2>1. Inv(r) /\ main(r).pc = "over"
    BY DEF IInv, Ended, main
  <2>2. r \notin ResponseHandlerMap
    BY <2>1 DEF Inv, Shape
  <2>3. ctx[r] # "expired" /\ outputOpen => Answered(r)
    BY <2>1 DEF Inv, Alone, Progress, MainPast, LateStream
  <2> QED  BY <2>2, <2>3
<1> QED  BY <1>1, InvHolds, PTL

-----------------------------------------------------------------------------
(* SshConn                                                                 *)

-----------------------------------------------------------------------------
(* The invariant: what always holds ...                                    *)

Statuses == {"init", "connecting", "connected", "disconnected", "error"}

ConnType ==
    [status : Statuses, client : Client \cup {None}, listener : Listener \cup {None},
     sess : Sess \cup {None}, wsh : BOOLEAN, ensuring : BOOLEAN]

\* What a call knows where it is.
CallType ==
    [at : {"none", "end", "waiter", "waitConnect", "ensured"}]
        \cup [at : {"dial"}, connect : {TRUE}, again : BOOLEAN]
        \cup [at : {"set", "startWaiter"}, connect : {TRUE}, again : BOOLEAN, client : Client]
        \cup [at : {"fail", "check", "finish"}, connect : {TRUE}]
        \cup [at : {"wsh", "connserver"}, connect : BOOLEAN]
        \cup [at : {"setListener"}, connect : BOOLEAN, listener : Listener]
        \cup [at : {"setSess"}, connect : BOOLEAN, sess : Sess]
        \cup [at : {"persist"}, connect : BOOLEAN, ok : BOOLEAN]

TypeInv ==
    /\ conn \in ConnType
    /\ client \in [Client -> {None, "up", "down"}]
    /\ listener \in [Listener -> ListenerState \cup {None}]
    /\ sess \in [Sess -> SessState \cup {None}]
    /\ waiter \in [Client -> WaiterState \cup {None}]
    /\ call \in [Call -> CallType]
    /\ raced \in Race \cup {None}

\* What the connection, a listener, a session or a call names was opened.
NamesInv ==
    /\ conn.client # None => client[conn.client] # None
    /\ conn.listener # None => listener[conn.listener] # None
    /\ conn.sess # None => sess[conn.sess] # None /\ sess[conn.sess].watched
    /\ \A l \in Listener : listener[l] # None => client[listener[l].client] # None
    /\ \A s \in Sess : sess[s] # None => client[sess[s].client] # None
    /\ \A c \in Call : call[c].at \in {"set", "startWaiter"} => client[call[c].client] # None
    /\ \A c \in Call : call[c].at = "setListener" => listener[call[c].listener] # None
    /\ \A c \in Call : call[c].at = "setSess" => sess[call[c].sess] # None

(* ... and what holds until the first race.                                *)

\* One call connects, and the status says so or Close was called; without
\* such a call a client is there when the status is connected only.
OneConnect ==
    /\ \A c, d \in Call : Connecting(c) /\ Connecting(d) => c = d
    /\ \A c \in Call : Connecting(c) => conn.status \in {"connecting", "disconnected"}
    /\ conn.status = "connecting" => \E c \in Call : Connecting(c)
    /\ conn.status = "connected" => conn.client # None
    /\ conn.client # None => conn.status = "connected" \/ \E c \in Call : Connecting(c)
    /\ \A c \in Call : call[c].at \in {"dial", "set", "fail"} => conn.client = None
    /\ \A c \in Call : call[c].at \in {"dial", "set", "startWaiter"} => ~call[c].again

\* A client that is up is the connection's, or will be; the connection's has
\* a waiter, or will have.
OwnClient ==
    /\ \A x \in Client : Up(x) => conn.client = x
                                   \/ \E c \in Call : call[c].at = "set" /\ call[c].client = x
    /\ \A x \in Client : conn.client = x =>
          \/ waiter[x] # None /\ waiter[x].at = "start"
          \/ waiter[x] # None /\ waiter[x].at = "wait" /\ waiter[x].client = x
          \/ \E c \in Call : call[c].at = "startWaiter" /\ call[c].client = x

\* One call opens a listener or a session, and what it holds will be the
\* connection's, which has none meanwhile.
Opening(c) ==
    \/ call[c].at \in {"setListener", "connserver", "setSess"}
    \/ call[c].at = "persist" /\ call[c].ok

OneOpening ==
    /\ \A c, d \in Call : Opening(c) /\ Opening(d) => c = d
    /\ \A c \in Call : call[c].at = "setListener" => conn.listener = None
    /\ \A c \in Call : call[c].at = "setSess" => conn.sess = None
    /\ \A l \in Listener : ListenerOpen(l) => conn.listener = l
          \/ \E c \in Call : call[c].at = "setListener" /\ call[c].listener = l
    /\ \A s \in Sess : SessOpen(s) => conn.sess = s \/ sess[s].left
          \/ \E c \in Call : call[c].at = "setSess" /\ call[c].sess = s

\* wsh is on without a session only until a call that opens one, or has
\* failed to, says so.
WshHasSess ==
    conn.wsh /\ conn.sess = None /\ conn.client # None
         /\ (conn.status = "connected" \/ \E c \in Call : call[c].at \in {"check", "finish"}) =>
       \E c \in Call : call[c].at \in {"setSess", "persist"}

UntilRaced == raced = None => OneConnect /\ OwnClient /\ OneOpening /\ WshHasSess

ConnInv == TypeInv /\ NamesInv /\ UntilRaced

-----------------------------------------------------------------------------
(* Types                                                                   *)

LEMMA CallFields ==
    ASSUME TypeInv, NEW c \in Call
    PROVE  /\ call[c].at \in {"dial", "set", "startWaiter"} => call[c].again \in BOOLEAN
           /\ call[c].at \in {"set", "startWaiter"} => call[c].client \in Client
           /\ call[c].at \in {"wsh", "connserver", "setListener", "setSess", "persist"} =>
                 call[c].connect \in BOOLEAN
           /\ call[c].at \in {"dial", "set", "startWaiter", "fail", "check", "finish"} => call[c].connect
           /\ call[c].at = "setListener" => call[c].listener \in Listener
           /\ call[c].at = "setSess" => call[c].sess \in Sess
           /\ call[c].at = "persist" => call[c].ok \in BOOLEAN
           /\ call[c].at \in {"none", "end", "waiter", "waitConnect", "ensured", "dial", "set", "startWaiter",
                              "fail", "check", "finish", "wsh", "connserver", "setListener", "setSess", "persist"}
<1>1. call[c] \in CallType
  BY DEF TypeInv
<1>2. CASE call[c] \in [at : {"none", "end", "waiter", "waitConnect", "ensured"}]
  BY <1>2
<1>3. CASE call[c] \in [at : {"dial"}, connect : {TRUE}, again : BOOLEAN]
  BY <1>3
<1>4. CASE call[c] \in [at : {"set", "startWaiter"}, connect : {TRUE}, again : BOOLEAN, client : Client]
  BY <1>4
<1>5. CASE call[c] \in [at : {"fail", "check", "finish"}, connect : {TRUE}]
  BY <1>5
<1>6. CASE call[c] \in [at : {"wsh", "connserver"}, connect : BOOLEAN]
  BY <1>6
<1>7. CASE call[c] \in [at : {"setListener"}, connect : BOOLEAN, listener : Listener]
  BY <1>7
<1>8. CASE call[c] \in [at : {"setSess"}, connect : BOOLEAN, sess : Sess]
  BY <1>8
<1>9. CASE call[c] \in [at : {"persist"}, connect : BOOLEAN, ok : BOOLEAN]
  BY <1>9
<1> QED  BY <1>1, <1>2, <1>3, <1>4, <1>5, <1>6, <1>7, <1>8, <1>9 DEF CallType

LEMMA WaiterFields ==
    ASSUME TypeInv, NEW x \in Client, waiter[x] # None
    PROVE  /\ waiter[x].at \in {"start", "wait", "end"}
           /\ waiter[x].at = "wait" => waiter[x].client \in Client
<1>1. waiter[x] \in WaiterState
  BY DEF TypeInv
<1> QED  BY <1>1 DEF WaiterState

\* The caller "c" goes to "f", and the others stay.
Moved(c, f) == /\ call' \in [Call -> CallType] /\ call'[c] = f
               /\ \A d \in Call : d # c => call'[d] = call[d]

LEMMA CallMoves ==
    ASSUME TypeInv, NEW c \in Call, NEW f \in CallType, Goto(c, f)
    PROVE  Moved(c, f)
BY DEF Goto, Moved, TypeInv

LEMMA WshIsDone ==
    ASSUME TypeInv, NEW c \in Call, NEW ok \in BOOLEAN, WshDone(c, ok), call[c].connect \in BOOLEAN
    PROVE  \E f \in CallType : f.at = "persist" /\ f.ok = ok /\ f.connect = call[c].connect /\ Moved(c, f)
<1>1. PICK f : f = [at |-> "persist", connect |-> call[c].connect, ok |-> ok]
  OBVIOUS
<1>2. Goto(c, f)
  BY <1>1, Zenon DEF WshDone
<1>3. f \in CallType /\ f.at = "persist" /\ f.ok = ok /\ f.connect = call[c].connect
  BY <1>1 DEF CallType
<1> QED  BY <1>2, <1>3, CallMoves

\* What is shut is still there, and nothing else changes.
LEMMA ListenerShut ==
    ASSUME TypeInv, NEW l, l = None \/ (l \in Listener /\ listener[l] # None), listener' = Shut(listener, l)
    PROVE  /\ listener' \in [Listener -> ListenerState \cup {None}]
           /\ \A k \in Listener : /\ listener'[k] # None <=> listener[k] # None
                                  /\ listener[k] # None => /\ listener'[k].client = listener[k].client
                                                           /\ listener'[k].open => listener[k].open
                                                           /\ k = l => ~listener'[k].open
<1>1. CASE l = None
  <2>1. listener' = listener
    BY <1>1 DEF Shut
  <2> QED  BY <1>1, <2>1, SshAssumption DEF TypeInv
<1>2. CASE l # None
  <2>1. l \in Listener /\ listener[l] \in ListenerState
    BY <1>2 DEF TypeInv
  <2>2. PICK r : r = [listener[l] EXCEPT !.open = FALSE]
    OBVIOUS
  <2>3. r \in ListenerState /\ r.client = listener[l].client /\ ~r.open /\ r # None
    BY <2>1, <2>2, SshAssumption DEF ListenerState
  <2>4. listener' = [listener EXCEPT ![l] = r]
    BY <1>2, <2>2 DEF Shut
  <2>5. /\ listener' \in [Listener -> ListenerState \cup {None}] /\ listener'[l] = r
        /\ \A k \in Listener : k # l => listener'[k] = listener[k]
    BY <2>1, <2>3, <2>4 DEF TypeInv
  <2> QED  BY <1>2, <2>1, <2>3, <2>5
<1> QED  BY <1>1, <1>2

LEMMA SessShut ==
    ASSUME TypeInv, NEW s, s = None \/ (s \in Sess /\ sess[s] # None), NEW shut, shut = Shut(sess, s)
    PROVE  /\ shut \in [Sess -> SessState \cup {None}]
           /\ \A k \in Sess : /\ shut[k] # None <=> sess[k] # None
                              /\ sess[k] # None => /\ shut[k].client = sess[k].client
                                                   /\ shut[k].watched = sess[k].watched
                                                   /\ shut[k].left = sess[k].left
                                                   /\ shut[k].open => sess[k].open
                                                   /\ k = s => ~shut[k].open
<1>1. CASE s = None
  <2>1. shut = sess
    BY <1>1 DEF Shut
  <2> QED  BY <1>1, <2>1, SshAssumption DEF TypeInv
<1>2. CASE s # None
  <2>1. s \in Sess /\ sess[s] \in SessState
    BY <1>2 DEF TypeInv
  <2>2. PICK r : r = [sess[s] EXCEPT !.open = FALSE]
    OBVIOUS
  <2>3. r \in SessState /\ r.client = sess[s].client /\ r.watched = sess[s].watched /\ r.left = sess[s].left /\ ~r.open /\ r # None
    BY <2>1, <2>2, SshAssumption DEF SessState
  <2>4. shut = [sess EXCEPT ![s] = r]
    BY <1>2, <2>2 DEF Shut
  <2>5. /\ shut \in [Sess -> SessState \cup {None}] /\ shut[s] = r
        /\ \A k \in Sess : k # s => shut[k] = sess[k]
    BY <2>1, <2>3, <2>4 DEF TypeInv
  <2> QED  BY <1>2, <2>1, <2>3, <2>5
<1> QED  BY <1>1, <1>2

LEMMA ClientHungUp ==
    ASSUME TypeInv, NEW x, x = None \/ (x \in Client /\ client[x] # None), client' = Hangup(x)
    PROVE  /\ client' \in [Client -> {None, "up", "down"}]
           /\ \A y \in Client : /\ client'[y] # None <=> client[y] # None
                                /\ client'[y] = "up" <=> client[y] = "up" /\ y # x
<1>1. CASE x = None
  <2>1. client' = client /\ \A y \in Client : y # x
    BY <1>1, SshAssumption DEF Hangup
  <2> QED  BY <2>1 DEF TypeInv
<1>2. CASE x # None
  <2>1. x \in Client /\ client' = [client EXCEPT ![x] = "down"]
    BY <1>2 DEF Hangup
  <2> QED  BY <1>2, <2>1, SshAssumption DEF TypeInv
<1> QED  BY <1>1, <1>2

LEMMA NamesFields ==
    ASSUME TypeInv, NamesInv
    PROVE  /\ conn.client = None \/ (conn.client \in Client /\ client[conn.client] # None)
           /\ conn.listener = None \/ (conn.listener \in Listener /\ listener[conn.listener] # None)
           /\ conn.sess = None \/ (conn.sess \in Sess /\ sess[conn.sess] # None)
           /\ conn.status \in Statuses
BY DEF TypeInv, NamesInv, ConnType

-----------------------------------------------------------------------------
(* Steps of a call alone                                                   *)

Sound == OneConnect /\ OwnClient /\ OneOpening /\ WshHasSess

\* The call goes on, or returns, and neither takes nor gives up anything; the
\* history may note a race.
Passes(c, f) ==
    /\ Moved(c, f) /\ f \in CallType
    /\ conn' = conn /\ client' = client /\ listener' = listener /\ sess' = sess /\ waiter' = waiter
    /\ raced' \in Race \cup {None} /\ (raced' = None => raced = None)
    /\ f.at \notin {"set", "startWaiter", "setListener", "setSess", "check"}
    /\ call[c].at \notin {"set", "startWaiter", "setListener", "setSess", "persist"}
    /\ raced' = None =>
         /\ f.at # "dial"
         /\ f.at = "fail" => call[c].at = "dial"
         /\ f.at = "finish" => call[c].at = "check"
         /\ Connecting(c)' <=> Connecting(c)
         /\ Opening(c)' => \A d \in Call \ {c} : ~Opening(d)

LEMMA PassesInv ==
    ASSUME ConnInv, NEW c \in Call, NEW f, Passes(c, f)
    PROVE  ConnInv'
<1>1. TypeInv /\ NamesInv
  BY DEF ConnInv
<1>2. /\ call' \in [Call -> CallType] /\ call'[c] = f /\ \A d \in Call : d # c => call'[d] = call[d]
      /\ conn' = conn /\ client' = client /\ listener' = listener /\ sess' = sess /\ waiter' = waiter
      /\ f.at \notin {"set", "startWaiter", "setListener", "setSess", "check"}
      /\ call[c].at \notin {"set", "startWaiter", "setListener", "setSess", "persist"}
  BY DEF Passes, Moved
<1>3. TypeInv'
  BY <1>1, <1>2 DEF TypeInv, Passes
<1>4. NamesInv'
  BY <1>1, <1>2 DEF NamesInv
<1>5. ASSUME raced' = None PROVE Sound'
  <2>1. /\ OneConnect /\ OwnClient /\ OneOpening /\ WshHasSess
        /\ f.at # "dial" /\ (f.at = "fail" => call[c].at = "dial") /\ (f.at = "finish" => call[c].at = "check")
    BY <1>5 DEF Passes, ConnInv, UntilRaced
  <2>2. \A d \in Call : Connecting(d)' <=> Connecting(d)
    BY <1>2, <1>5 DEF Passes, Connecting
  <2>3. \A d, e \in Call : Opening(d)' /\ Opening(e)' => d = e
    BY <1>2, <1>5, <2>1 DEF Passes, Opening, OneOpening
  <2>4. OneConnect'
    BY <1>2, <2>1, <2>2 DEF OneConnect
  <2>5. OwnClient'
    BY <1>2, <2>1 DEF OwnClient, Up
  <2>6. OneOpening'
    BY <1>2, <2>1, <2>3 DEF OneOpening, ListenerOpen, SessOpen, Up
  <2>7. WshHasSess'
    BY <1>2, <2>1 DEF WshHasSess
  <2> QED  BY <2>4, <2>5, <2>6, <2>7 DEF Sound
<1> QED  BY <1>3, <1>4, <1>5 DEF ConnInv, UntilRaced, Sound

LEMMA CloseWaitsInv ==
    ASSUME ConnInv, NEW c \in Call, CloseWaits(c)
    PROVE  ConnInv'
<1>1. TypeInv /\ call[c].at = "waiter"
  BY DEF ConnInv, CloseWaits
<1>2. PICK f : f = [at |-> "end"] /\ Goto(c, f)
  BY DEF CloseWaits, End
<1>3. f \in CallType /\ f.at = "end"
  BY <1>2 DEF CallType
<1>4. Moved(c, f)
  BY <1>1, <1>2, <1>3, CallMoves
<1>5. Passes(c, f)
  BY <1>1, <1>3, <1>4 DEF Passes, CloseWaits, Moved, Connecting, Opening, TypeInv
<1> QED  BY <1>5, PassesInv

LEMMA WaitForConnectInv ==
    ASSUME ConnInv, NEW c \in Call, WaitForConnect(c)
    PROVE  ConnInv'
<1>1. TypeInv /\ call[c].at = "waitConnect"
  BY DEF ConnInv, WaitForConnect
<1>2. PICK f : f = [at |-> "end"] /\ Goto(c, f)
  BY DEF WaitForConnect, End
<1>3. f \in CallType /\ f.at = "end"
  BY <1>2 DEF CallType
<1>4. Moved(c, f)
  BY <1>1, <1>2, <1>3, CallMoves
<1>5. Passes(c, f)
  BY <1>1, <1>3, <1>4 DEF Passes, WaitForConnect, Moved, Connecting, Opening, TypeInv
<1> QED  BY <1>5, PassesInv

LEMMA CheckClientInv ==
    ASSUME ConnInv, NEW c \in Call, CheckClient(c)
    PROVE  ConnInv'
<1>1. /\ TypeInv /\ call[c].at = "check" /\ call[c].connect
      /\ conn' = conn /\ client' = client /\ listener' = listener /\ sess' = sess /\ waiter' = waiter
      /\ raced' = IF conn.client = None /\ raced = None THEN "redialed" ELSE raced
  BY CallFields DEF ConnInv, CheckClient, Mark
<1>2. raced' \in Race \cup {None} /\ (raced' = None => raced = None /\ conn.client # None)
  BY <1>1, SshAssumption DEF TypeInv, Race
<1>3. CASE conn.client # None
  <2>1. PICK f : f = [at |-> "finish", connect |-> TRUE] /\ Goto(c, f)
    BY <1>3, Zenon DEF CheckClient
  <2>2. f \in CallType /\ f.at = "finish" /\ f.connect
    BY <2>1 DEF CallType
  <2>3. Moved(c, f)
    BY <1>1, <2>1, <2>2, CallMoves
  <2>4. Passes(c, f)
    BY <1>1, <1>2, <2>2, <2>3 DEF Passes, Moved, Connecting, Opening
  <2> QED  BY <2>4, PassesInv
<1>4. CASE conn.client = None
  <2>1. PICK f : f = [at |-> "dial", connect |-> TRUE, again |-> TRUE] /\ Goto(c, f)
    BY <1>4, Zenon DEF CheckClient
  <2>2. f \in CallType /\ f.at = "dial" /\ f.connect
    BY <2>1 DEF CallType
  <2>3. Moved(c, f)
    BY <1>1, <2>1, <2>2, CallMoves
  <2>4. Passes(c, f)
    BY <1>1, <1>2, <1>4, <2>2, <2>3 DEF Passes, Moved, Connecting, Opening
  <2> QED  BY <2>4, PassesInv
<1> QED  BY <1>3, <1>4

LEMMA SkipWshInv ==
    ASSUME ConnInv, NEW c \in Call, SkipWsh(c)
    PROVE  ConnInv'
<1>1. TypeInv /\ call[c].at = "wsh" /\ call[c].connect \in BOOLEAN /\ WshDone(c, FALSE)
  BY CallFields DEF ConnInv, SkipWsh
<1>2. PICK f \in CallType : f.at = "persist" /\ ~f.ok /\ f.connect = call[c].connect /\ Moved(c, f)
  BY <1>1, WshIsDone
<1>3. Passes(c, f)
  BY <1>1, <1>2 DEF Passes, SkipWsh, Moved, Connecting, Opening, TypeInv
<1> QED  BY <1>3, PassesInv

-----------------------------------------------------------------------------
(* close_nolock                                                            *)

LEMMA CloseIs ==
    ASSUME TypeInv, NamesInv, NEW s \in Statuses, CloseNolock(s)
    PROVE  /\ conn' \in ConnType /\ conn'.status = s /\ conn'.client = None /\ conn'.listener = None
           /\ conn'.sess = None /\ conn'.wsh = conn.wsh
           /\ client' \in [Client -> {None, "up", "down"}]
           /\ \A y \in Client : /\ client'[y] # None <=> client[y] # None
                                /\ client'[y] = "up" <=> client[y] = "up" /\ y # conn.client
           /\ listener' \in [Listener -> ListenerState \cup {None}]
           /\ \A k \in Listener : /\ listener'[k] # None <=> listener[k] # None
                                  /\ listener[k] # None => /\ listener'[k].client = listener[k].client
                                                           /\ listener'[k].open => listener[k].open
                                                           /\ k = conn.listener => ~listener'[k].open
           /\ sess' \in [Sess -> SessState \cup {None}]
           /\ \A k \in Sess : /\ sess'[k] # None <=> sess[k] # None
                              /\ sess[k] # None => /\ sess'[k].client = sess[k].client
                                                   /\ sess'[k].watched = sess[k].watched
                                                   /\ sess'[k].left = sess[k].left
                                                   /\ sess'[k].open => sess[k].open
                                                   /\ k = conn.sess => ~sess'[k].open
<1>1. /\ conn' = [conn EXCEPT !.status = s, !.listener = None, !.sess = None, !.client = None]
      /\ listener' = Shut(listener, conn.listener) /\ sess' = Shut(sess, conn.sess) /\ client' = Hangup(conn.client)
  BY DEF CloseNolock
<1>2. /\ conn' \in ConnType /\ conn'.status = s /\ conn'.client = None /\ conn'.listener = None
      /\ conn'.sess = None /\ conn'.wsh = conn.wsh
  <2>1. conn \in ConnType
    BY DEF TypeInv
  <2>2. PICK r : r = [conn EXCEPT !.status = s, !.listener = None, !.sess = None, !.client = None]
    OBVIOUS
  <2>3. /\ r \in ConnType /\ r.status = s /\ r.client = None /\ r.listener = None /\ r.sess = None /\ r.wsh = conn.wsh
    BY <2>1, <2>2 DEF ConnType
  <2> QED  BY <1>1, <2>2, <2>3
<1>3. /\ conn.client = None \/ (conn.client \in Client /\ client[conn.client] # None)
      /\ conn.listener = None \/ (conn.listener \in Listener /\ listener[conn.listener] # None)
      /\ conn.sess = None \/ (conn.sess \in Sess /\ sess[conn.sess] # None)
  BY NamesFields
<1>4. /\ client' \in [Client -> {None, "up", "down"}]
      /\ \A y \in Client : /\ client'[y] # None <=> client[y] # None
                           /\ client'[y] = "up" <=> client[y] = "up" /\ y # conn.client
  BY <1>1, <1>3, ClientHungUp
<1>5. /\ listener' \in [Listener -> ListenerState \cup {None}]
      /\ \A k \in Listener : /\ listener'[k] # None <=> listener[k] # None
                             /\ listener[k] # None => /\ listener'[k].client = listener[k].client
                                                      /\ listener'[k].open => listener[k].open
                                                      /\ k = conn.listener => ~listener'[k].open
  BY <1>1, <1>3, ListenerShut
<1>6. /\ sess' \in [Sess -> SessState \cup {None}]
      /\ \A k \in Sess : /\ sess'[k] # None <=> sess[k] # None
                         /\ sess[k] # None => /\ sess'[k].client = sess[k].client
                                              /\ sess'[k].watched = sess[k].watched
                                              /\ sess'[k].left = sess[k].left
                                              /\ sess'[k].open => sess[k].open
                                              /\ k = conn.sess => ~sess'[k].open
  BY <1>1, <1>3, SessShut
<1> QED  BY <1>2, <1>4, <1>5, <1>6

\* What close_nolock means for a caller: it is a Close, or a Connect that fails.
EndsOpen(s) ==
    /\ CloseNolock(s) /\ s \in {"init", "disconnected", "error"}
    /\ raced' = raced
    /\ call' \in [Call -> CallType]
    /\ \A d \in Call : \/ call'[d] = call[d]
                       \/ call[d].at \in {"none", "fail"} /\ call'[d].at \in {"waiter", "end"}
    /\ raced = None => \A d \in Call : Connecting(d)' => s = "disconnected"
    /\ waiter' \in [Client -> WaiterState \cup {None}]

LEMMA ClosesInv ==
    ASSUME ConnInv, NEW s, EndsOpen(s)
    PROVE  ConnInv'
<1>1. TypeInv /\ NamesInv /\ CloseNolock(s) /\ s \in Statuses /\ s \notin {"connecting", "connected"}
  BY DEF ConnInv, EndsOpen, Statuses
<1>2. /\ conn' \in ConnType /\ conn'.status = s /\ conn'.client = None /\ conn'.listener = None
      /\ conn'.sess = None
      /\ client' \in [Client -> {None, "up", "down"}]
      /\ \A y \in Client : /\ client'[y] # None <=> client[y] # None
                           /\ client'[y] = "up" <=> client[y] = "up" /\ y # conn.client
  BY <1>1, CloseIs
<1>3. /\ listener' \in [Listener -> ListenerState \cup {None}]
      /\ \A k \in Listener : /\ listener'[k] # None <=> listener[k] # None
                             /\ listener[k] # None => /\ listener'[k].client = listener[k].client
                                                      /\ listener'[k].open => listener[k].open
                                                      /\ k = conn.listener => ~listener'[k].open
  BY <1>1, CloseIs
<1>4. /\ sess' \in [Sess -> SessState \cup {None}]
      /\ \A k \in Sess : /\ sess'[k] # None <=> sess[k] # None
                         /\ sess[k] # None => /\ sess'[k].client = sess[k].client
                                              /\ sess'[k].watched = sess[k].watched
                                              /\ sess'[k].left = sess[k].left
                                              /\ sess'[k].open => sess[k].open
                                              /\ k = conn.sess => ~sess'[k].open
  BY <1>1, CloseIs
<1>5. /\ raced' = raced /\ call' \in [Call -> CallType] /\ waiter' \in [Client -> WaiterState \cup {None}]
      /\ \A d \in Call : \/ call'[d] = call[d]
                         \/ call[d].at \in {"none", "fail"} /\ call'[d].at \in {"waiter", "end"}
  BY DEF EndsOpen
<1>6. TypeInv'
  BY <1>1, <1>2, <1>3, <1>4, <1>5 DEF TypeInv
<1>7. NamesInv'
  <2>1. \A l \in Listener : listener'[l] # None => client'[listener'[l].client] # None
    <3>1. \A l \in Listener : listener[l] # None => listener[l].client \in Client /\ client[listener[l].client] # None
      BY <1>1, SshAssumption DEF TypeInv, NamesInv, ListenerState
    <3> QED  BY <1>2, <1>3, <3>1
  <2>2. \A l \in Sess : sess'[l] # None => client'[sess'[l].client] # None
    <3>1. \A l \in Sess : sess[l] # None => sess[l].client \in Client /\ client[sess[l].client] # None
      BY <1>1, SshAssumption DEF TypeInv, NamesInv, SessState
    <3> QED  BY <1>2, <1>4, <3>1
  <2>3. \A c \in Call : call'[c].at \in {"set", "startWaiter"} => client'[call'[c].client] # None
    BY <1>1, <1>2, <1>5, CallFields DEF NamesInv
  <2>4. \A c \in Call : call'[c].at = "setListener" => listener'[call'[c].listener] # None
    BY <1>1, <1>3, <1>5, CallFields DEF NamesInv
  <2>5. \A c \in Call : call'[c].at = "setSess" => sess'[call'[c].sess] # None
    BY <1>1, <1>4, <1>5, CallFields DEF NamesInv
  <2> QED  BY <1>2, <2>1, <2>2, <2>3, <2>4, <2>5 DEF NamesInv
<1>8. ASSUME raced' = None PROVE Sound'
  <2>1. OneConnect /\ OwnClient /\ OneOpening
    BY <1>5, <1>8 DEF ConnInv, UntilRaced
  <2>2. \A d \in Call : Connecting(d)' => Connecting(d) /\ s = "disconnected"
    BY <1>5, <1>8 DEF EndsOpen, Connecting
  <2>3. OneConnect'
    BY <1>1, <1>2, <1>5, <2>1, <2>2 DEF OneConnect
  <2>4. OwnClient'
    BY <1>2, <1>5, <2>1, SshAssumption DEF OwnClient, Up
  <2>5. OneOpening'
    <3>1. \A c, d \in Call : Opening(c)' /\ Opening(d)' => c = d
      BY <1>5, <2>1 DEF OneOpening, Opening
    <3>2. \A l \in Listener : ListenerOpen(l)' => ListenerOpen(l) /\ l # conn.listener
      BY <1>1, <1>2, <1>3 DEF ListenerOpen, Up, TypeInv, ListenerState
    <3>3. \A l \in Sess : SessOpen(l)' => SessOpen(l) /\ l # conn.sess
      BY <1>1, <1>2, <1>4 DEF SessOpen, Up, TypeInv, SessState
    <3>4. \A l \in Listener : ListenerOpen(l)' => \E c \in Call : call'[c].at = "setListener" /\ call'[c].listener = l
      BY <1>5, <2>1, <3>2 DEF OneOpening
    <3>5. \A l \in Sess : SessOpen(l)' => sess'[l].left \/ \E c \in Call : call'[c].at = "setSess" /\ call'[c].sess = l
      BY <1>4, <1>5, <2>1, <3>3 DEF OneOpening, SessOpen
    <3> QED  BY <1>2, <3>1, <3>4, <3>5 DEF OneOpening
  <2>6. WshHasSess'
    BY <1>2 DEF WshHasSess
  <2> QED  BY <2>3, <2>4, <2>5, <2>6 DEF Sound
<1> QED  BY <1>6, <1>7, <1>8 DEF ConnInv, UntilRaced, Sound

LEMMA BeginCloseInv ==
    ASSUME ConnInv, NEW c \in Call, BeginClose(c)
    PROVE  ConnInv'
<1>1. TypeInv /\ call[c].at = "none" /\ conn.status \in Statuses /\ waiter' = waiter /\ raced' = raced
  BY DEF ConnInv, BeginClose, NoCall, TypeInv, ConnType
<1>2. PICK f : f = [at |-> "waiter"] /\ Goto(c, f)
  BY DEF BeginClose
<1>3. f \in CallType /\ f.at = "waiter"
  BY <1>2 DEF CallType
<1>4. Moved(c, f)
  BY <1>1, <1>2, <1>3, CallMoves
<1>5. PICK s : s = (IF Allowed THEN "disconnected" ELSE conn.status)
  OBVIOUS
<1>6. CloseNolock(s)
  BY <1>5, Zenon DEF BeginClose
<1>7. s \in {"init", "disconnected", "error"}
  BY <1>1, <1>5 DEF Allowed, Statuses
<1>8. raced = None => \A d \in Call : Connecting(d)' => s = "disconnected"
  BY <1>3, <1>4, <1>5 DEF ConnInv, UntilRaced, OneConnect, Moved, Connecting, Allowed
<1>9. EndsOpen(s)
  BY <1>1, <1>3, <1>4, <1>6, <1>7, <1>8 DEF EndsOpen, Moved, TypeInv
<1> QED  BY <1>9, ClosesInv

LEMMA FailInv ==
    ASSUME ConnInv, NEW c \in Call, Fail(c)
    PROVE  ConnInv'
<1>1. TypeInv /\ call[c].at = "fail" /\ call[c].connect /\ waiter' = waiter /\ raced' = raced /\ CloseNolock("error")
  BY CallFields DEF ConnInv, Fail
<1>2. PICK f : f = [at |-> "end"] /\ Goto(c, f)
  BY DEF Fail, End
<1>3. f \in CallType /\ f.at = "end"
  BY <1>2 DEF CallType
<1>4. Moved(c, f)
  BY <1>1, <1>2, <1>3, CallMoves
<1>5. raced = None => \A d \in Call : ~Connecting(d)'
  BY <1>1, <1>3, <1>4 DEF ConnInv, UntilRaced, OneConnect, Moved, Connecting
<1>6. EndsOpen("error")
  BY <1>1, <1>3, <1>4, <1>5 DEF EndsOpen, Moved, TypeInv
<1> QED  BY <1>6, ClosesInv
-----------------------------------------------------------------------------
(* The waiters                                                             *)

\* A waiter that goes on does not matter, unless it is that of the client
\* that the connection has.
LEMMA WaiterMovesInv ==
    ASSUME ConnInv, NEW x \in Client, NEW w \in WaiterState,
           waiter' = [waiter EXCEPT ![x] = w], UNCHANGED <<conn, client, listener, sess, call, raced>>,
           raced = None /\ conn.client = x =>
              \/ w.at = "wait" /\ w.client = x
              \/ waiter[x] # None /\ waiter[x].at = "wait" /\ waiter[x].client # x
    PROVE  ConnInv'
<1>1. TypeInv /\ NamesInv
  BY DEF ConnInv
<1>2. /\ waiter' \in [Client -> WaiterState \cup {None}] /\ waiter'[x] = w /\ w # None
      /\ \A y \in Client : y # x => waiter'[y] = waiter[y]
  BY <1>1, SshAssumption DEF TypeInv
<1>3. conn' = conn /\ client' = client /\ listener' = listener /\ sess' = sess /\ call' = call /\ raced' = raced
  OBVIOUS
<1>4. TypeInv'
  BY <1>1, <1>2, <1>3 DEF TypeInv
<1>5. NamesInv'
  BY <1>1, <1>3 DEF NamesInv
<1>6. OneConnect => OneConnect'
  BY <1>3 DEF OneConnect, Connecting
<1>7. raced = None /\ OwnClient => OwnClient'
  <2> SUFFICES ASSUME raced = None, OwnClient PROVE OwnClient'
    OBVIOUS
  <2>1. \A y \in Client : conn.client = y =>
          \/ waiter'[y] # None /\ waiter'[y].at = "start"
          \/ waiter'[y] # None /\ waiter'[y].at = "wait" /\ waiter'[y].client = y
          \/ \E c \in Call : call[c].at = "startWaiter" /\ call[c].client = y
    BY <1>2 DEF OwnClient
  <2> QED  BY <1>3, <2>1 DEF OwnClient, Up
<1>8. OneOpening => OneOpening'
  BY <1>3 DEF OneOpening, Opening, ListenerOpen, SessOpen, Up
<1>9. WshHasSess => WshHasSess'
  BY <1>3 DEF WshHasSess
<1> QED  BY <1>3, <1>4, <1>5, <1>6, <1>7, <1>8, <1>9 DEF ConnInv, UntilRaced

LEMMA WaiterLooksInv ==
    ASSUME ConnInv, NEW x \in Client, WaiterLooks(x)
    PROVE  ConnInv'
<1>1. TypeInv /\ waiter[x].at = "start" /\ (conn.client = None \/ conn.client \in Client)
  BY DEF ConnInv, WaiterLooks, TypeInv, ConnType
<1>2. PICK w : w = (IF conn.client = None THEN [at |-> "end"] ELSE [at |-> "wait", client |-> conn.client])
  OBVIOUS
<1>3. waiter' = [waiter EXCEPT ![x] = w] /\ UNCHANGED <<conn, client, listener, sess, call, raced>>
  BY <1>2, Zenon DEF WaiterLooks
<1>4. w \in WaiterState
  BY <1>1, <1>2 DEF WaiterState
<1>5. raced = None /\ conn.client = x => w.at = "wait" /\ w.client = x
  BY <1>2, SshAssumption
<1> QED  BY <1>3, <1>4, <1>5, WaiterMovesInv

LEMMA WaiterWakesInv ==
    ASSUME ConnInv, NEW x \in Client, WaiterWakes(x)
    PROVE  ConnInv'
<1>1. /\ TypeInv /\ waiter[x] # None /\ waiter[x].at = "wait" /\ waiter[x].client \in Client
      /\ call' = call /\ raced' = raced
  BY WaiterFields DEF ConnInv, WaiterWakes
<1>2. PICK w : w = [at |-> "end"] /\ waiter' = [waiter EXCEPT ![x] = w]
  BY DEF WaiterWakes
<1>3. w \in WaiterState
  BY <1>2 DEF WaiterState
<1>4. CASE conn.client # waiter[x].client
  <2>1. UNCHANGED <<conn, client, listener, sess, call, raced>>
    BY <1>1, <1>4 DEF WaiterWakes
  <2> QED  BY <1>1, <1>2, <1>3, <1>4, <2>1, WaiterMovesInv
<1>5. CASE conn.client = waiter[x].client
  <2>1. PICK s : s = (IF conn.status = "error" THEN "error" ELSE "disconnected")
    OBVIOUS
  <2>2. CloseNolock(s)
    BY <1>5, <2>1, Zenon DEF WaiterWakes
  <2>3. waiter' \in [Client -> WaiterState \cup {None}]
    BY <1>1, <1>2, <1>3 DEF TypeInv
  <2>4. raced = None => \A d \in Call : Connecting(d)' => s = "disconnected"
    BY <1>1, <2>1 DEF ConnInv, UntilRaced, OneConnect, Connecting
  <2>5. EndsOpen(s)
    BY <1>1, <2>1, <2>2, <2>3, <2>4 DEF EndsOpen, TypeInv
  <2> QED  BY <2>5, ClosesInv
<1> QED  BY <1>4, <1>5

-----------------------------------------------------------------------------
(* The begin of Connect and of EnsureConnection                            *)

LEMMA StartConnectInv ==
    ASSUME ConnInv, NEW c \in Call, call[c].at = "none", StartConnect(c),
           UNCHANGED <<client, listener, sess, waiter>>
    PROVE  ConnInv'
<1>1. /\ TypeInv /\ NamesInv /\ conn \in ConnType
      /\ client' = client /\ listener' = listener /\ sess' = sess /\ waiter' = waiter
  BY DEF ConnInv, TypeInv
<1>2. CASE Allowed
  <2>1. PICK f : f = [at |-> "end"] /\ Goto(c, f)
    BY <1>2, Zenon DEF StartConnect, End
  <2>2. f \in CallType /\ f.at = "end"
    BY <2>1 DEF CallType
  <2>3. Moved(c, f) /\ conn' = conn /\ raced' = raced
    BY <1>1, <1>2, <2>1, <2>2, CallMoves DEF StartConnect
  <2>4. Passes(c, f)
    BY <1>1, <2>2, <2>3 DEF Passes, Moved, Connecting, Opening, TypeInv
  <2> QED  BY <2>4, PassesInv
<1>3. CASE ~Allowed
  <2>1. PICK f : f = [at |-> "dial", connect |-> TRUE, again |-> FALSE] /\ Goto(c, f)
    BY <1>3, Zenon DEF StartConnect
  <2>2. f \in CallType /\ f.at = "dial" /\ f.connect /\ ~f.again
    BY <2>1 DEF CallType
  <2>3. call' \in [Call -> CallType] /\ call'[c] = f /\ \A d \in Call : d # c => call'[d] = call[d]
    BY <1>1, <2>1, <2>2, CallMoves DEF Moved
  <2>4. /\ conn' \in ConnType /\ conn'.status = "connecting" /\ conn'.client = conn.client
        /\ conn'.listener = conn.listener /\ conn'.sess = conn.sess /\ conn'.wsh = conn.wsh
    <3>1. PICK r : r = [conn EXCEPT !.status = "connecting"]
      OBVIOUS
    <3>2. /\ r \in ConnType /\ r.status = "connecting" /\ r.client = conn.client
          /\ r.listener = conn.listener /\ r.sess = conn.sess /\ r.wsh = conn.wsh
      BY <1>1, <3>1 DEF ConnType, Statuses
    <3> QED  BY <1>3, <3>1, <3>2 DEF StartConnect
  <2>5. raced' = IF (\E d \in Call \ {c} : Connecting(d)) /\ raced = None THEN "twoConnects" ELSE raced
    BY <1>3 DEF StartConnect, Mark
  <2>6. raced' \in Race \cup {None} /\ (raced' = None => raced = None /\ \A d \in Call \ {c} : ~Connecting(d))
    BY <1>1, <2>5, SshAssumption DEF TypeInv, Race
  <2>7. TypeInv'
    BY <1>1, <2>3, <2>4, <2>6 DEF TypeInv
  <2>8. NamesInv'
    BY <1>1, <2>2, <2>3, <2>4 DEF NamesInv
  <2>9. ASSUME raced' = None PROVE Sound'
    <3>1. OneConnect /\ OwnClient /\ OneOpening /\ WshHasSess /\ conn.status \notin {"connecting", "connected"}
      BY <1>3, <2>6, <2>9 DEF ConnInv, UntilRaced, Allowed
    <3>2. \A d \in Call : Connecting(d)' <=> d = c
      BY <2>2, <2>3, <2>6, <2>9 DEF Connecting
    <3>3. conn.client = None
      BY <2>6, <2>9, <3>1 DEF OneConnect, Connecting
    <3>4. OneConnect'
      BY <2>2, <2>3, <2>4, <3>1, <3>2, <3>3 DEF OneConnect
    <3>5. OwnClient'
      BY <1>1, <2>2, <2>3, <2>4, <3>1, <3>3, SshAssumption DEF OwnClient, Up
    <3>6. OneOpening'
      BY <1>1, <2>2, <2>3, <2>4, <3>1 DEF OneOpening, Opening, ListenerOpen, SessOpen, Up
    <3>7. WshHasSess'
      BY <2>4, <3>3 DEF WshHasSess
    <3> QED  BY <3>4, <3>5, <3>6, <3>7 DEF Sound
  <2> QED  BY <2>7, <2>8, <2>9 DEF ConnInv, UntilRaced, Sound
<1> QED  BY <1>2, <1>3

LEMMA BeginConnectInv ==
    ASSUME ConnInv, NEW c \in Call, BeginConnect(c)
    PROVE  ConnInv'
BY StartConnectInv DEF BeginConnect, NoCall

\* Only what is said of who ensures changes, and where the caller is.
LEMMA EnsuringInv ==
    ASSUME ConnInv, NEW c \in Call, NEW e \in BOOLEAN, NEW f \in CallType, Goto(c, f),
           conn' = [conn EXCEPT !.ensuring = e], UNCHANGED <<client, listener, sess, waiter, raced>>,
           call[c].at \in {"none", "ensured"},
           \/ f.at = "end" \/ (f.at = "wsh" /\ ~f.connect)
    PROVE  ConnInv'
<1>1. /\ TypeInv /\ NamesInv /\ conn \in ConnType
      /\ client' = client /\ listener' = listener /\ sess' = sess /\ waiter' = waiter /\ raced' = raced
  BY DEF ConnInv, TypeInv
<1>2. call' \in [Call -> CallType] /\ call'[c] = f /\ \A d \in Call : d # c => call'[d] = call[d]
  BY <1>1, CallMoves DEF Moved
<1>3. /\ conn' \in ConnType /\ conn'.status = conn.status /\ conn'.client = conn.client
      /\ conn'.listener = conn.listener /\ conn'.sess = conn.sess /\ conn'.wsh = conn.wsh
  <2>1. PICK r : r = [conn EXCEPT !.ensuring = e]
    OBVIOUS
  <2>2. /\ r \in ConnType /\ r.status = conn.status /\ r.client = conn.client
        /\ r.listener = conn.listener /\ r.sess = conn.sess /\ r.wsh = conn.wsh
    BY <1>1, <2>1 DEF ConnType
  <2> QED  BY <2>1, <2>2
<1>4. TypeInv'
  BY <1>1, <1>2, <1>3 DEF TypeInv
<1>5. NamesInv'
  BY <1>1, <1>2, <1>3 DEF NamesInv
<1>6. OneConnect => OneConnect'
  <2>1. \A d \in Call : Connecting(d)' <=> Connecting(d)
    BY <1>2 DEF Connecting
  <2> QED  BY <1>2, <1>3, <2>1 DEF OneConnect
<1>7. OwnClient => OwnClient'
  BY <1>1, <1>2, <1>3 DEF OwnClient, Up
<1>8. OneOpening => OneOpening'
  BY <1>1, <1>2, <1>3 DEF OneOpening, Opening, ListenerOpen, SessOpen, Up
<1>9. WshHasSess => WshHasSess'
  BY <1>2, <1>3 DEF WshHasSess
<1> QED  BY <1>1, <1>4, <1>5, <1>6, <1>7, <1>8, <1>9 DEF ConnInv, UntilRaced

LEMMA BeginEnsureInv ==
    ASSUME ConnInv, NEW c \in Call, BeginEnsure(c)
    PROVE  ConnInv'
<1>1. /\ TypeInv /\ conn.status \in Statuses /\ call[c].at = "none"
      /\ client' = client /\ listener' = listener /\ sess' = sess /\ waiter' = waiter
  BY DEF ConnInv, BeginEnsure, NoCall, TypeInv, ConnType
<1>2. ASSUME NEW f, f = [at |-> "end"] \/ f = [at |-> "waitConnect"], Goto(c, f), conn' = conn, raced' = raced
      PROVE  ConnInv'
  <2>1. f \in [at : {"none", "end", "waiter", "waitConnect", "ensured"}] /\ f.at \in {"end", "waitConnect"}
    BY <1>2
  <2>2. f \in CallType
    BY <2>1, Zenon DEF CallType
  <2>3. Moved(c, f)
    BY <1>1, <1>2, <2>2, CallMoves
  <2>4. Passes(c, f)
    BY <1>1, <1>2, <2>1, <2>2, <2>3 DEF Passes, Moved, Connecting, Opening, TypeInv
  <2> QED  BY <2>4, PassesInv
<1>3. CASE conn.status = "connected"
  <2>1. raced' = raced
    BY <1>3 DEF BeginEnsure
  <2>2. CASE Goto(c, End) /\ conn' = conn
    BY <1>2, <2>1, <2>2 DEF End
  <2>3. CASE conn' = [conn EXCEPT !.ensuring = TRUE] /\ Goto(c, [at |-> "wsh", connect |-> FALSE])
    <3>1. PICK f : f = [at |-> "wsh", connect |-> FALSE] /\ Goto(c, f)
      BY <2>3
    <3>2. f \in CallType /\ f.at = "wsh" /\ ~f.connect
      BY <3>1 DEF CallType
    <3> QED  BY <1>1, <2>1, <2>3, <3>1, <3>2, EnsuringInv
  <2> QED  BY <1>3, <2>2, <2>3, Zenon DEF BeginEnsure
<1>4. CASE conn.status = "connecting"
  BY <1>2, <1>4 DEF BeginEnsure
<1>5. CASE conn.status \in {"init", "disconnected"}
  <2>1. StartConnect(c)
    BY <1>5 DEF BeginEnsure
  <2> QED  BY <1>1, <2>1, StartConnectInv
<1>6. CASE conn.status = "error"
  BY <1>2, <1>6 DEF BeginEnsure, End
<1> QED  BY <1>1, <1>3, <1>4, <1>5, <1>6 DEF Statuses

LEMMA EnsuredInv ==
    ASSUME ConnInv, NEW c \in Call, Ensured(c)
    PROVE  ConnInv'
<1>1. PICK f : f = [at |-> "end"] /\ Goto(c, f)
  BY DEF Ensured, End
<1>2. f \in CallType /\ f.at = "end"
  BY <1>1 DEF CallType
<1> QED  BY <1>1, <1>2, EnsuringInv DEF Ensured

-----------------------------------------------------------------------------
(* Connect                                                                 *)

LEMMA DialInv ==
    ASSUME ConnInv, NEW c \in Call, Dial(c)
    PROVE  ConnInv'
<1>1. /\ TypeInv /\ NamesInv /\ call[c].at = "dial" /\ call[c].connect /\ call[c].again \in BOOLEAN
      /\ conn' = conn /\ listener' = listener /\ sess' = sess /\ waiter' = waiter /\ raced' = raced
  BY CallFields DEF ConnInv, Dial
<1>2. CASE Goto(c, [at |-> "fail", connect |-> TRUE]) /\ UNCHANGED client
  <2>1. PICK f : f = [at |-> "fail", connect |-> TRUE] /\ Goto(c, f)
    BY <1>2
  <2>2. f \in CallType /\ f.at = "fail" /\ f.connect
    BY <2>1 DEF CallType
  <2>3. Moved(c, f)
    BY <1>1, <2>1, <2>2, CallMoves
  <2>4. Passes(c, f)
    BY <1>1, <1>2, <2>2, <2>3 DEF Passes, Moved, Connecting, Opening, TypeInv
  <2> QED  BY <2>4, PassesInv
<1>3. CASE /\ Left(client) /\ client' = [client EXCEPT ![Fresh(client)] = "up"]
           /\ Goto(c, [at |-> "set", connect |-> TRUE, again |-> call[c].again, client |-> Fresh(client)])
  <2>1. PICK x, f : /\ x = Fresh(client)
                    /\ f = [at |-> "set", connect |-> TRUE, again |-> call[c].again, client |-> x]
    OBVIOUS
  <2>2. x \in Client /\ client[x] = None
    <3>1. DOMAIN client = Client
      BY <1>1 DEF TypeInv
    <3>2. \E y \in DOMAIN client : client[y] = None
      BY <1>3 DEF Left
    <3>3. x \in DOMAIN client /\ client[x] = None
      BY <2>1, <3>2, Zenon DEF Fresh
    <3> QED  BY <3>1, <3>3
  <2>3. Goto(c, f)
    BY <1>3, <2>1, Zenon
  <2>4. f \in CallType /\ f.at = "set" /\ f.connect /\ f.again = call[c].again /\ f.client = x
    BY <1>1, <2>1, <2>2 DEF CallType
  <2>5. call' \in [Call -> CallType] /\ call'[c] = f /\ \A d \in Call : d # c => call'[d] = call[d]
    BY <1>1, <2>3, <2>4, CallMoves DEF Moved
  <2>6. /\ client' \in [Client -> {None, "up", "down"}] /\ client'[x] = "up" /\ client'[x] # None
        /\ \A y \in Client : y # x => client'[y] = client[y]
    BY <1>1, <1>3, <2>1, <2>2, SshAssumption DEF TypeInv
  <2>7. TypeInv'
    BY <1>1, <2>5, <2>6 DEF TypeInv
  <2>8. NamesInv'
    <3>1. \A y \in Client : client[y] # None => client'[y] # None
      BY <2>2, <2>6
    <3>2. \A l \in Listener : listener[l] # None => listener[l].client \in Client
      BY <1>1 DEF TypeInv, ListenerState
    <3>3. \A s \in Sess : sess[s] # None => sess[s].client \in Client
      BY <1>1 DEF TypeInv, SessState
    <3>4. \A d \in Call : call'[d].at \in {"set", "startWaiter"} => client'[call'[d].client] # None
      BY <1>1, <2>4, <2>5, <2>6, <3>1, CallFields DEF NamesInv
    <3>5. conn.client # None => client'[conn.client] # None
      BY <1>1, <3>1, NamesFields
    <3> QED  BY <1>1, <2>4, <2>5, <3>1, <3>2, <3>3, <3>4, <3>5 DEF NamesInv
  <2>9. ASSUME raced' = None PROVE Sound'
    <3>1. OneConnect /\ OwnClient /\ OneOpening /\ WshHasSess
      BY <1>1, <2>9 DEF ConnInv, UntilRaced
    <3>2. \A d \in Call : Connecting(d)' <=> Connecting(d)
      BY <1>1, <2>4, <2>5 DEF Connecting
    <3>3. OneConnect'
      BY <1>1, <2>4, <2>5, <3>1, <3>2 DEF OneConnect
    <3>4. conn.client # x
      BY <1>1, <2>2, SshAssumption DEF NamesInv
    <3>5. OwnClient'
      BY <1>1, <2>2, <2>4, <2>5, <2>6, <3>1, <3>4 DEF OwnClient, Up
    <3>6. \A l \in Listener : ListenerOpen(l)' => ListenerOpen(l)
      BY <1>1, <2>2, <2>6 DEF ListenerOpen, Up, TypeInv, ListenerState, NamesInv
    <3>7. \A s \in Sess : SessOpen(s)' => SessOpen(s)
      BY <1>1, <2>2, <2>6 DEF SessOpen, Up, TypeInv, SessState, NamesInv
    <3>8. OneOpening'
      BY <1>1, <2>4, <2>5, <3>1, <3>6, <3>7 DEF OneOpening, Opening
    <3>9. WshHasSess'
      BY <1>1, <2>4, <2>5, <3>1 DEF WshHasSess
    <3> QED  BY <3>3, <3>5, <3>8, <3>9 DEF Sound
  <2> QED  BY <2>7, <2>8, <2>9 DEF ConnInv, UntilRaced, Sound
<1> QED  BY <1>2, <1>3, Zenon DEF Dial

LEMMA SetClientInv ==
    ASSUME ConnInv, NEW c \in Call, SetClient(c)
    PROVE  ConnInv'
<1>1. /\ TypeInv /\ NamesInv /\ call[c].at = "set" /\ call[c].connect /\ call[c].again \in BOOLEAN
      /\ call[c].client \in Client /\ client[call[c].client] # None
      /\ listener' = listener /\ sess' = sess /\ waiter' = waiter /\ raced' = raced
  BY CallFields DEF ConnInv, SetClient, NamesInv
<1>2. PICK x, again, f : /\ x = call[c].client /\ again = call[c].again
                         /\ f = [call[c] EXCEPT !.at = "startWaiter"] /\ Goto(c, f)
  BY Zenon DEF SetClient
<1>3. f \in CallType /\ f.at = "startWaiter" /\ f.connect /\ f.again = again /\ f.client = x
  <2>1. call[c] \in [at : {"set", "startWaiter"}, connect : {TRUE}, again : BOOLEAN, client : Client]
    BY <1>1 DEF TypeInv, CallType
  <2> QED  BY <1>2, <2>1 DEF CallType
<1>4. call' \in [Call -> CallType] /\ call'[c] = f /\ \A d \in Call : d # c => call'[d] = call[d]
  BY <1>1, <1>2, <1>3, CallMoves DEF Moved
<1>5. /\ conn' \in ConnType /\ conn'.status = conn.status /\ conn'.client = x
      /\ conn'.listener = conn.listener /\ conn'.sess = conn.sess /\ conn'.wsh = conn.wsh
  <2>1. conn \in ConnType
    BY <1>1 DEF TypeInv
  <2>2. PICK r : r = [conn EXCEPT !.client = x]
    OBVIOUS
  <2>3. /\ r \in ConnType /\ r.status = conn.status /\ r.client = x
        /\ r.listener = conn.listener /\ r.sess = conn.sess /\ r.wsh = conn.wsh
    BY <1>1, <1>2, <2>1, <2>2 DEF ConnType
  <2> QED  BY <1>2, <2>2, <2>3 DEF SetClient
<1>6. /\ client' \in [Client -> {None, "up", "down"}]
      /\ \A y \in Client : /\ client'[y] # None <=> client[y] # None
                           /\ client'[y] = "up" => client[y] = "up"
      /\ ~again => client' = client
  <2>1. conn.client = None \/ (conn.client \in Client /\ client[conn.client] # None)
    BY <1>1, NamesFields
  <2>2. CASE again
    <3>1. client' = Hangup(conn.client)
      BY <1>2, <2>2 DEF SetClient
    <3> QED  BY <1>1, <2>1, <2>2, <3>1, ClientHungUp
  <2>3. CASE ~again
    <3>1. client' = client
      BY <1>2, <2>3 DEF SetClient
    <3> QED  BY <1>1, <3>1 DEF TypeInv
  <2> QED  BY <1>1, <1>2, <2>2, <2>3
<1>7. TypeInv'
  BY <1>1, <1>4, <1>5, <1>6 DEF TypeInv
<1>8. NamesInv'
  <2>1. \A l \in Listener : listener[l] # None => listener[l].client \in Client
    BY <1>1 DEF TypeInv, ListenerState
  <2>2. \A s \in Sess : sess[s] # None => sess[s].client \in Client
    BY <1>1 DEF TypeInv, SessState
  <2>3. \A d \in Call : call[d].at \in {"set", "startWaiter"} => /\ call[d].client \in Client
                                                               /\ client'[call[d].client] # None
    BY <1>1, <1>6, CallFields DEF NamesInv
  <2>4. client'[x] # None
    BY <1>1, <1>2, <1>6
  <2>5. \A d \in Call : call'[d].at \in {"set", "startWaiter"} => client'[call'[d].client] # None
    BY <1>3, <1>4, <2>3, <2>4
  <2>6. /\ \A d \in Call : call'[d].at = "setListener" => listener[call'[d].listener] # None
        /\ \A d \in Call : call'[d].at = "setSess" => sess[call'[d].sess] # None
    BY <1>1, <1>3, <1>4 DEF NamesInv
  <2>7. /\ \A l \in Listener : listener[l] # None => client'[listener[l].client] # None
        /\ \A s \in Sess : sess[s] # None => client'[sess[s].client] # None
    BY <1>1, <1>6, <2>1, <2>2 DEF NamesInv
  <2> QED  BY <1>1, <1>5, <2>4, <2>5, <2>6, <2>7 DEF NamesInv
<1>9. ASSUME raced' = None PROVE Sound'
  <2>1. OneConnect /\ OwnClient /\ OneOpening /\ WshHasSess
    BY <1>1, <1>9 DEF ConnInv, UntilRaced
  <2>2. ~again /\ client' = client /\ conn.client = None /\ conn.status # "connected" /\ Connecting(c)
    BY <1>1, <1>2, <1>6, <2>1 DEF OneConnect, Connecting
  <2>3. \A d \in Call : Connecting(d)' <=> Connecting(d)
    BY <1>1, <1>3, <1>4 DEF Connecting
  <2>4. \A d \in Call : call[d].at \in {"dial", "set", "startWaiter", "fail", "check", "finish"} => d = c
    BY <1>1, <2>1, <2>2, CallFields DEF OneConnect, Connecting
  <2>5. \A d \in Call : call'[d].at \in {"dial", "set", "startWaiter", "fail", "check", "finish"} =>
           d = c /\ call'[d].at = "startWaiter" /\ ~call'[d].again
    BY <1>3, <1>4, <2>2, <2>4
  <2>6. OneConnect'
    <3>1. Connecting(c)' /\ x # None
      BY <1>1, <1>2, <2>2, <2>3, SshAssumption
    <3>2. /\ \A d, e \in Call : Connecting(d)' /\ Connecting(e)' => d = e
          /\ \A d \in Call : Connecting(d)' => conn'.status \in {"connecting", "disconnected"}
          /\ conn'.status # "connected"
      BY <1>5, <2>1, <2>2, <2>3 DEF OneConnect
    <3> QED  BY <1>5, <2>5, <3>1, <3>2 DEF OneConnect
  <2>7. OwnClient'
    <3>1. \A y \in Client : client[y] = "up" => y = x
      BY <1>1, <1>2, <2>1, <2>2, <2>4, SshAssumption DEF OwnClient, Up
    <3> QED  BY <1>1, <1>3, <1>4, <1>5, <2>2, <3>1 DEF OwnClient, Up
  <2>8. OneOpening'
    BY <1>1, <1>3, <1>4, <1>5, <2>1, <2>2 DEF OneOpening, Opening, ListenerOpen, SessOpen, Up
  <2>9. WshHasSess'
    BY <1>5, <2>2, <2>5 DEF WshHasSess
  <2> QED  BY <2>6, <2>7, <2>8, <2>9 DEF Sound
<1> QED  BY <1>7, <1>8, <1>9 DEF ConnInv, UntilRaced, Sound

LEMMA StartDisconnectWaiterInv ==
    ASSUME ConnInv, NEW c \in Call, StartDisconnectWaiter(c)
    PROVE  ConnInv'
<1>1. /\ TypeInv /\ NamesInv /\ call[c].at = "startWaiter" /\ call[c].connect /\ call[c].again \in BOOLEAN
      /\ call[c].client \in Client
      /\ conn' = conn /\ client' = client /\ listener' = listener /\ sess' = sess /\ raced' = raced
  BY CallFields DEF ConnInv, StartDisconnectWaiter
<1>2. PICK x, w, f : /\ x = call[c].client /\ w = [at |-> "start"]
                     /\ f = [at |-> IF call[c].again THEN "finish" ELSE "wsh", connect |-> TRUE]
                     /\ Goto(c, f) /\ waiter' = [waiter EXCEPT ![x] = w]
  BY Zenon DEF StartDisconnectWaiter
<1>3. f \in CallType /\ f.at \in {"finish", "wsh"} /\ f.connect /\ (~call[c].again => f.at = "wsh")
  BY <1>1, <1>2 DEF CallType
<1>4. call' \in [Call -> CallType] /\ call'[c] = f /\ \A d \in Call : d # c => call'[d] = call[d]
  BY <1>1, <1>2, <1>3, CallMoves DEF Moved
<1>5. w \in WaiterState /\ w.at = "start" /\ w # None
  BY <1>2, SshAssumption DEF WaiterState
<1>6. /\ waiter' \in [Client -> WaiterState \cup {None}] /\ waiter'[x] = w
      /\ \A y \in Client : y # x => waiter'[y] = waiter[y]
  BY <1>1, <1>2, <1>5 DEF TypeInv
<1>7. TypeInv'
  BY <1>1, <1>4, <1>6 DEF TypeInv
<1>8. NamesInv'
  BY <1>1, <1>3, <1>4 DEF NamesInv
<1>9. ASSUME raced' = None PROVE Sound'
  <2>1. OneConnect /\ OwnClient /\ OneOpening /\ WshHasSess
    BY <1>1, <1>9 DEF ConnInv, UntilRaced
  <2>2. f.at = "wsh"
    BY <1>1, <1>3, <2>1 DEF OneConnect
  <2>3. \A d \in Call : Connecting(d)' <=> Connecting(d)
    BY <1>1, <1>3, <1>4 DEF Connecting
  <2>4. OneConnect'
    BY <1>1, <1>4, <2>1, <2>2, <2>3 DEF OneConnect
  <2>5. OwnClient'
    BY <1>1, <1>2, <1>4, <1>5, <1>6, <2>1, <2>2 DEF OwnClient, Up
  <2>6. OneOpening'
    BY <1>1, <1>4, <2>1, <2>2 DEF OneOpening, Opening, ListenerOpen, SessOpen, Up
  <2>7. WshHasSess'
    BY <1>1, <1>4, <2>1, <2>2 DEF WshHasSess
  <2> QED  BY <2>4, <2>5, <2>6, <2>7 DEF Sound
<1> QED  BY <1>7, <1>8, <1>9 DEF ConnInv, UntilRaced, Sound

LEMMA FinishInv ==
    ASSUME ConnInv, NEW c \in Call, Finish(c)
    PROVE  ConnInv'
<1>1. /\ TypeInv /\ NamesInv /\ call[c].at = "finish" /\ call[c].connect /\ conn \in ConnType
      /\ client' = client /\ listener' = listener /\ sess' = sess /\ waiter' = waiter
      /\ raced' = IF ~Up(conn.client) /\ raced = None THEN "lateFinish" ELSE raced
  BY CallFields DEF ConnInv, Finish, Mark, TypeInv
<1>2. PICK f : f = [at |-> "end"] /\ Goto(c, f)
  BY DEF Finish, End
<1>3. f \in CallType /\ f.at = "end"
  BY <1>2 DEF CallType
<1>4. call' \in [Call -> CallType] /\ call'[c] = f /\ \A d \in Call : d # c => call'[d] = call[d]
  BY <1>1, <1>2, <1>3, CallMoves DEF Moved
<1>5. /\ conn' \in ConnType /\ conn'.status = "connected" /\ conn'.client = conn.client
      /\ conn'.listener = conn.listener /\ conn'.sess = conn.sess /\ conn'.wsh = conn.wsh
  <2>1. PICK r : r = [conn EXCEPT !.status = "connected"]
    OBVIOUS
  <2>2. /\ r \in ConnType /\ r.status = "connected" /\ r.client = conn.client
        /\ r.listener = conn.listener /\ r.sess = conn.sess /\ r.wsh = conn.wsh
    BY <1>1, <2>1 DEF ConnType, Statuses
  <2> QED  BY <2>1, <2>2 DEF Finish
<1>6. raced' \in Race \cup {None} /\ (raced' = None => raced = None /\ conn.client # None)
  BY <1>1, SshAssumption DEF TypeInv, Race, Up
<1>7. TypeInv'
  BY <1>1, <1>4, <1>5, <1>6 DEF TypeInv
<1>8. NamesInv'
  BY <1>1, <1>3, <1>4, <1>5 DEF NamesInv
<1>9. ASSUME raced' = None PROVE Sound'
  <2>1. OneConnect /\ OwnClient /\ OneOpening /\ WshHasSess /\ conn.client # None
    BY <1>6, <1>9 DEF ConnInv, UntilRaced
  <2>2. \A d \in Call : ~Connecting(d)'
    BY <1>1, <1>3, <1>4, <2>1 DEF Connecting, OneConnect
  <2>3. \A d \in Call : call'[d].at \notin {"dial", "set", "startWaiter", "fail"}
    <3>1. \A d \in Call : d # c => ~Connecting(d)
      BY <1>1, <2>1 DEF Connecting, OneConnect
    <3>2. \A d \in Call : d # c => call[d].at \notin {"dial", "set", "startWaiter", "fail"}
      BY <1>1, <3>1, CallFields DEF Connecting
    <3> QED  BY <1>3, <1>4, <3>2
  <2>4. OneConnect'
    BY <1>5, <2>1, <2>2, <2>3 DEF OneConnect
  <2>5. OwnClient'
    BY <1>1, <1>3, <1>4, <1>5, <2>1 DEF OwnClient, Up
  <2>6. OneOpening'
    BY <1>1, <1>3, <1>4, <1>5, <2>1 DEF OneOpening, Opening, ListenerOpen, SessOpen, Up
  <2>7. WshHasSess'
    BY <1>1, <1>3, <1>4, <1>5, <2>1 DEF WshHasSess
  <2> QED  BY <2>4, <2>5, <2>6, <2>7 DEF Sound
<1> QED  BY <1>7, <1>8, <1>9 DEF ConnInv, UntilRaced, Sound

-----------------------------------------------------------------------------
(* The set-up of wsh                                                       *)

LEMMA OpenListenerInv ==
    ASSUME ConnInv, NEW c \in Call, OpenListener(c)
    PROVE  ConnInv'
<1>1. /\ TypeInv /\ NamesInv /\ call[c].at = "wsh" /\ call[c].connect \in BOOLEAN
      /\ conn' = conn /\ client' = client /\ sess' = sess /\ waiter' = waiter
      /\ raced' = IF (\E d \in Call \ {c} : call[d].at \in SettingUp) /\ raced = None THEN "twoSetups" ELSE raced
  BY CallFields DEF ConnInv, OpenListener, Mark
<1>2. raced' \in Race \cup {None} /\ (raced' = None => raced = None /\ \A d \in Call \ {c} : call[d].at \notin SettingUp)
  BY <1>1, SshAssumption DEF TypeInv, Race
<1>3. raced' = None => raced = None /\ \A d \in Call \ {c} : ~Opening(d)
  BY <1>2 DEF Opening, SettingUp
<1>4. CASE conn.listener # None
  <2>1. PICK f : f = [at |-> "connserver", connect |-> call[c].connect] /\ Goto(c, f)
    BY <1>4, Zenon DEF OpenListener
  <2>2. f \in CallType /\ f.at = "connserver" /\ f.connect = call[c].connect
    BY <1>1, <2>1 DEF CallType
  <2>3. Moved(c, f) /\ listener' = listener
    BY <1>1, <1>4, <2>1, <2>2, CallMoves DEF OpenListener
  <2>4. Passes(c, f)
    BY <1>1, <1>2, <1>3, <2>2, <2>3 DEF Passes, Moved, Connecting
  <2> QED  BY <2>4, PassesInv
<1>5. CASE conn.listener = None /\ ~(Allowed /\ Up(conn.client) /\ Left(listener))
  <2>1. WshDone(c, FALSE) /\ listener' = listener
    BY <1>5 DEF OpenListener
  <2>2. PICK f \in CallType : f.at = "persist" /\ ~f.ok /\ f.connect = call[c].connect /\ Moved(c, f)
    BY <1>1, <2>1, WshIsDone
  <2>3. Passes(c, f)
    BY <1>1, <1>2, <1>3, <2>1, <2>2 DEF Passes, Moved, Connecting
  <2> QED  BY <2>3, PassesInv
<1>6. CASE conn.listener = None /\ Allowed /\ Up(conn.client) /\ Left(listener)
  <2>1. PICK l, r, f : /\ l = Fresh(listener)
                       /\ r = [client |-> conn.client, open |-> TRUE, served |-> FALSE]
                       /\ f = [at |-> "setListener", connect |-> call[c].connect, listener |-> l]
    OBVIOUS
  <2>2. l \in Listener /\ listener[l] = None
    <3>1. DOMAIN listener = Listener /\ \E y \in DOMAIN listener : listener[y] = None
      BY <1>1, <1>6 DEF TypeInv, Left
    <3>2. l \in DOMAIN listener /\ listener[l] = None
      BY <2>1, <3>1, Zenon DEF Fresh
    <3> QED  BY <3>1, <3>2
  <2>3. listener' = [listener EXCEPT ![l] = r] /\ Goto(c, f)
    BY <1>6, <2>1, Zenon DEF OpenListener
  <2>4. f \in CallType /\ f.at = "setListener" /\ f.connect = call[c].connect /\ f.listener = l
    BY <1>1, <2>1, <2>2 DEF CallType
  <2>5. call' \in [Call -> CallType] /\ call'[c] = f /\ \A d \in Call : d # c => call'[d] = call[d]
    BY <1>1, <2>3, <2>4, CallMoves DEF Moved
  <2>6. r \in ListenerState /\ r # None /\ r.client = conn.client /\ client[r.client] # None
    <3>1. conn.client \in Client /\ client[conn.client] # None
      BY <1>1, <1>6, NamesFields DEF Up
    <3>2. r \in ListenerState /\ r.client = conn.client
      BY <2>1, <3>1 DEF ListenerState
    <3> QED  BY <3>1, <3>2, SshAssumption
  <2>7. /\ listener' \in [Listener -> ListenerState \cup {None}] /\ listener'[l] = r
        /\ \A k \in Listener : k # l => listener'[k] = listener[k]
    BY <1>1, <2>2, <2>3, <2>6 DEF TypeInv
  <2>8. TypeInv'
    BY <1>1, <1>2, <2>5, <2>7 DEF TypeInv
  <2>9. NamesInv'
    <3>1. \A k \in Listener : listener'[k] # None => client[listener'[k].client] # None
      BY <1>1, <2>6, <2>7 DEF NamesInv
    <3>2. \A d \in Call : call'[d].at = "setListener" => listener'[call'[d].listener] # None
      BY <1>1, <2>2, <2>4, <2>5, <2>6, <2>7, CallFields DEF NamesInv
    <3>3. \A d \in Call : /\ call'[d].at \in {"set", "startWaiter"} => client[call'[d].client] # None
                          /\ call'[d].at = "setSess" => sess[call'[d].sess] # None
      BY <1>1, <2>4, <2>5 DEF NamesInv
    <3> QED  BY <1>1, <1>6, <3>1, <3>2, <3>3 DEF NamesInv
  <2>10. ASSUME raced' = None PROVE Sound'
    <3>1. OneConnect /\ OwnClient /\ OneOpening /\ WshHasSess
      BY <1>3, <2>10 DEF ConnInv, UntilRaced
    <3>2. \A d \in Call : Connecting(d)' <=> Connecting(d)
      BY <1>1, <2>4, <2>5 DEF Connecting
    <3>3. OneConnect'
      BY <1>1, <2>4, <2>5, <3>1, <3>2 DEF OneConnect
    <3>4. OwnClient'
      BY <1>1, <2>4, <2>5, <3>1 DEF OwnClient, Up
    <3>5. OneOpening'
      <4>1. \A d, e \in Call : Opening(d)' /\ Opening(e)' => d = e
        BY <1>3, <2>5, <2>10 DEF Opening
      <4>2. \A k \in Listener : ListenerOpen(k)' => k = l \/ ListenerOpen(k)
        BY <1>1, <2>7 DEF ListenerOpen, Up
      <4>3. \A k \in Listener : ListenerOpen(k)' => \E d \in Call : call'[d].at = "setListener" /\ call'[d].listener = k
        BY <1>1, <1>6, <2>4, <2>5, <3>1, <4>2, SshAssumption DEF OneOpening
      <4>4. \A s \in Sess : SessOpen(s)' => conn.sess = s \/ sess[s].left \/ \E d \in Call : call'[d].at = "setSess" /\ call'[d].sess = s
        BY <1>1, <2>5, <3>1 DEF OneOpening, SessOpen, Up
      <4> QED  BY <1>1, <1>6, <2>4, <2>5, <3>1, <4>1, <4>3, <4>4 DEF OneOpening
    <3>6. WshHasSess'
      BY <1>1, <2>4, <2>5, <3>1 DEF WshHasSess
    <3> QED  BY <3>3, <3>4, <3>5, <3>6 DEF Sound
  <2> QED  BY <2>8, <2>9, <2>10 DEF ConnInv, UntilRaced, Sound
<1> QED  BY <1>4, <1>5, <1>6

LEMMA SetListenerInv ==
    ASSUME ConnInv, NEW c \in Call, SetListener(c)
    PROVE  ConnInv'
<1>1. /\ TypeInv /\ NamesInv /\ call[c].at = "setListener" /\ call[c].connect \in BOOLEAN
      /\ call[c].listener \in Listener /\ listener[call[c].listener] # None
      /\ client' = client /\ sess' = sess /\ waiter' = waiter /\ raced' = raced
  BY CallFields DEF ConnInv, SetListener, NamesInv
<1>2. PICK l, r, f : /\ l = call[c].listener /\ r = [listener[l] EXCEPT !.served = TRUE]
                     /\ f = [at |-> "connserver", connect |-> call[c].connect] /\ Goto(c, f)
  BY Zenon DEF SetListener
<1>3. f \in CallType /\ f.at = "connserver" /\ f.connect = call[c].connect
  BY <1>1, <1>2 DEF CallType
<1>4. call' \in [Call -> CallType] /\ call'[c] = f /\ \A d \in Call : d # c => call'[d] = call[d]
  BY <1>1, <1>2, <1>3, CallMoves DEF Moved
<1>5. /\ conn' \in ConnType /\ conn'.status = conn.status /\ conn'.client = conn.client
      /\ conn'.listener = l /\ conn'.sess = conn.sess /\ conn'.wsh = conn.wsh
  <2>1. conn \in ConnType
    BY <1>1 DEF TypeInv
  <2>2. PICK q : q = [conn EXCEPT !.listener = l]
    OBVIOUS
  <2>3. /\ q \in ConnType /\ q.status = conn.status /\ q.client = conn.client
        /\ q.listener = l /\ q.sess = conn.sess /\ q.wsh = conn.wsh
    BY <1>1, <1>2, <2>1, <2>2 DEF ConnType
  <2> QED  BY <1>2, <2>2, <2>3 DEF SetListener
<1>6. l \in Listener /\ r \in ListenerState /\ r # None /\ r.client = listener[l].client /\ r.open = listener[l].open
  BY <1>1, <1>2, SshAssumption DEF TypeInv, ListenerState
<1>7. listener' = [listener EXCEPT ![l] = r]
  BY <1>2 DEF SetListener
<1>8. /\ listener' \in [Listener -> ListenerState \cup {None}]
      /\ \A k \in Listener : /\ listener'[k] # None <=> listener[k] # None
                             /\ listener[k] # None => /\ listener'[k].client = listener[k].client
                                                      /\ listener'[k].open = listener[k].open
  BY <1>1, <1>2, <1>6, <1>7 DEF TypeInv
<1>9. TypeInv'
  BY <1>1, <1>4, <1>5, <1>8 DEF TypeInv
<1>10. NamesInv'
  <2>1. \A k \in Listener : listener'[k] # None => client[listener'[k].client] # None
    BY <1>1, <1>8 DEF NamesInv
  <2>2. \A d \in Call : call'[d].at = "setListener" => listener'[call'[d].listener] # None
    BY <1>1, <1>3, <1>4, <1>8, CallFields DEF NamesInv
  <2>3. \A d \in Call : /\ call'[d].at \in {"set", "startWaiter"} => client[call'[d].client] # None
                        /\ call'[d].at = "setSess" => sess[call'[d].sess] # None
    BY <1>1, <1>3, <1>4 DEF NamesInv
  <2>4. listener'[l] # None
    BY <1>1, <1>2, <1>6, <1>8
  <2> QED  BY <1>1, <1>5, <2>1, <2>2, <2>3, <2>4 DEF NamesInv
<1>11. ASSUME raced' = None PROVE Sound'
  <2>1. OneConnect /\ OwnClient /\ OneOpening /\ WshHasSess
    BY <1>1, <1>11 DEF ConnInv, UntilRaced
  <2>2. \A d \in Call : Connecting(d)' <=> Connecting(d)
    BY <1>1, <1>3, <1>4 DEF Connecting
  <2>3. OneConnect'
    BY <1>1, <1>3, <1>4, <1>5, <2>1, <2>2 DEF OneConnect
  <2>4. OwnClient'
    BY <1>1, <1>3, <1>4, <1>5, <2>1 DEF OwnClient, Up
  <2>5. OneOpening'
    <3>1. Opening(c) /\ \A d \in Call : call[d].at = "setListener" => d = c
      BY <1>1, <2>1 DEF OneOpening, Opening
    <3>2. \A d, e \in Call : Opening(d)' /\ Opening(e)' => d = e
      BY <1>4, <2>1, <3>1 DEF OneOpening, Opening
    <3>3. \A k \in Listener : ListenerOpen(k)' => k = l
      <4>1. \A k \in Listener : ListenerOpen(k)' => ListenerOpen(k)
        BY <1>1, <1>8 DEF ListenerOpen, Up
      <4> QED  BY <1>1, <1>2, <2>1, <3>1, <4>1, SshAssumption DEF OneOpening
    <3>4. \A s \in Sess : SessOpen(s)' => conn.sess = s \/ sess[s].left \/ \E d \in Call : call'[d].at = "setSess" /\ call'[d].sess = s
      BY <1>1, <1>4, <2>1 DEF OneOpening, SessOpen, Up
    <3>5. \A d \in Call : call'[d].at # "setListener" /\ (call'[d].at = "setSess" => conn.sess = None)
      BY <1>3, <1>4, <2>1, <3>1 DEF OneOpening
    <3> QED  BY <1>1, <1>5, <3>2, <3>3, <3>4, <3>5 DEF OneOpening
  <2>6. WshHasSess'
    BY <1>1, <1>3, <1>4, <1>5, <2>1 DEF WshHasSess
  <2> QED  BY <2>3, <2>4, <2>5, <2>6 DEF Sound
<1> QED  BY <1>9, <1>10, <1>11 DEF ConnInv, UntilRaced, Sound

LEMMA StartConnServerInv ==
    ASSUME ConnInv, NEW c \in Call, StartConnServer(c)
    PROVE  ConnInv'
<1>1. /\ TypeInv /\ NamesInv /\ call[c].at = "connserver" /\ call[c].connect \in BOOLEAN /\ conn \in ConnType
      /\ client' = client /\ listener' = listener /\ waiter' = waiter /\ raced' = raced
  BY CallFields DEF ConnInv, StartConnServer, TypeInv
<1>2. CASE ~Allowed \/ conn.client = None
  <2>1. WshDone(c, FALSE) /\ sess' = sess /\ conn' = conn
    BY <1>2 DEF StartConnServer
  <2>2. PICK f \in CallType : f.at = "persist" /\ ~f.ok /\ f.connect = call[c].connect /\ Moved(c, f)
    BY <1>1, <2>1, WshIsDone
  <2>3. Passes(c, f)
    BY <1>1, <2>1, <2>2 DEF Passes, Moved, Connecting, Opening, TypeInv
  <2> QED  BY <2>3, PassesInv
<1>3. CASE Allowed /\ conn.client # None
  <2>1. PICK s, old, f :
           /\ s = Fresh(sess) /\ old = Shut(sess, conn.sess)
           /\ f = [at |-> "setSess", connect |-> call[c].connect, sess |-> s]
    OBVIOUS
  <2>2. /\ conn' = [conn EXCEPT !.sess = None]
        /\ \/ WshDone(c, FALSE) /\ sess' = old
           \/ /\ Up(conn.client) /\ Left(sess)
              /\ \E started \in BOOLEAN :
                    /\ sess' = [old EXCEPT ![s] = [client |-> conn.client, open |-> TRUE,
                                                  watched |-> FALSE, left |-> ~started]]
                    /\ IF started THEN Goto(c, f) ELSE WshDone(c, FALSE)
    BY <1>3, <2>1, Zenon DEF StartConnServer
  <2>3. /\ conn' \in ConnType /\ conn'.status = conn.status /\ conn'.client = conn.client
        /\ conn'.listener = conn.listener /\ conn'.sess = None /\ conn'.wsh = conn.wsh
    <3>1. PICK q : q = [conn EXCEPT !.sess = None]
      OBVIOUS
    <3>2. /\ q \in ConnType /\ q.status = conn.status /\ q.client = conn.client
          /\ q.listener = conn.listener /\ q.sess = None /\ q.wsh = conn.wsh
      BY <1>1, <3>1 DEF ConnType
    <3> QED  BY <2>2, <3>1, <3>2
  <2>4. /\ old \in [Sess -> SessState \cup {None}]
        /\ \A k \in Sess : /\ old[k] # None <=> sess[k] # None
                           /\ sess[k] # None => /\ old[k].client = sess[k].client
                                                /\ old[k].watched = sess[k].watched
                                                /\ old[k].left = sess[k].left
                                                /\ old[k].open => sess[k].open
                                                /\ k = conn.sess => ~old[k].open
    <3>1. conn.sess = None \/ (conn.sess \in Sess /\ sess[conn.sess] # None)
      BY <1>1, NamesFields
    <3> QED  BY <1>1, <2>1, <3>1, SessShut
  <2>5. \A k \in Sess : sess[k] # None => sess[k].client \in Client /\ client[sess[k].client] # None
    BY <1>1 DEF NamesInv, TypeInv, SessState
  <2>6. PICK g, new :
           /\ g \in CallType
           /\ call' \in [Call -> CallType] /\ call'[c] = g /\ \A d \in Call : d # c => call'[d] = call[d]
           /\ g.connect = call[c].connect
           /\ \/ g.at = "persist" /\ ~g.ok /\ new = None
              \/ g.at = "setSess" /\ new \in Sess /\ sess[new] = None /\ g.sess = new
              \/ g.at = "persist" /\ ~g.ok /\ new \in Sess /\ sess[new] = None /\ sess'[new].left
           /\ sess' \in [Sess -> SessState \cup {None}]
           /\ \A k \in Sess : k # new => sess'[k] = old[k]
           /\ new # None => sess'[new] # None /\ client[sess'[new].client] # None
    <3>1. CASE WshDone(c, FALSE) /\ sess' = old
      <4>1. PICK g \in CallType : g.at = "persist" /\ ~g.ok /\ g.connect = call[c].connect /\ Moved(c, g)
        BY <1>1, <3>1, WshIsDone
      <4>2. /\ call' \in [Call -> CallType] /\ call'[c] = g /\ \A d \in Call : d # c => call'[d] = call[d]
            /\ sess' \in [Sess -> SessState \cup {None}]
            /\ \A k \in Sess : k # None => sess'[k] = old[k]
        BY <2>4, <3>1, <4>1 DEF Moved
      <4> QED  BY <4>1, <4>2
    <3>2. ASSUME Up(conn.client), Left(sess), NEW started \in BOOLEAN,
                 sess' = [old EXCEPT ![s] = [client |-> conn.client, open |-> TRUE,
                                             watched |-> FALSE, left |-> ~started]],
                 IF started THEN Goto(c, f) ELSE WshDone(c, FALSE)
          PROVE  \E g, new :
                    /\ g \in CallType
                    /\ call' \in [Call -> CallType] /\ call'[c] = g /\ \A d \in Call : d # c => call'[d] = call[d]
                    /\ g.connect = call[c].connect
                    /\ \/ g.at = "persist" /\ ~g.ok /\ new = None
                       \/ g.at = "setSess" /\ new \in Sess /\ sess[new] = None /\ g.sess = new
                       \/ g.at = "persist" /\ ~g.ok /\ new \in Sess /\ sess[new] = None /\ sess'[new].left
                    /\ sess' \in [Sess -> SessState \cup {None}]
                    /\ \A k \in Sess : k # new => sess'[k] = old[k]
                    /\ new # None => sess'[new] # None /\ client[sess'[new].client] # None
      <4> PICK r : r = [client |-> conn.client, open |-> TRUE, watched |-> FALSE, left |-> ~started]
        OBVIOUS
      <4>1. s \in Sess /\ sess[s] = None
        <5>1. DOMAIN sess = Sess /\ \E y \in DOMAIN sess : sess[y] = None
          BY <1>1, <3>2 DEF TypeInv, Left
        <5>2. s \in DOMAIN sess /\ sess[s] = None
          BY <2>1, <5>1, Zenon DEF Fresh
        <5> QED  BY <5>1, <5>2
      <4>2. r \in SessState /\ r.client = conn.client /\ (r.left <=> ~started)
        BY <1>1, <2>1, <3>2 DEF SessState, Up, ConnType
      <4>3. r # None /\ client[r.client] # None /\ s # None
        BY <1>1, <3>2, <4>1, <4>2, SshAssumption DEF Up, NamesInv
      <4>4. sess' \in [Sess -> SessState \cup {None}] /\ sess'[s] = r /\ \A k \in Sess : k # s => sess'[k] = old[k]
        BY <2>4, <3>2, <4>1, <4>2
      <4>5. CASE started
        <5>1. f \in CallType /\ f.at = "setSess" /\ f.connect = call[c].connect /\ f.sess = s
          BY <1>1, <2>1, <4>1 DEF CallType
        <5>2. Moved(c, f)
          BY <1>1, <3>2, <4>5, <5>1, CallMoves
        <5> QED  BY <4>1, <4>3, <4>4, <5>1, <5>2 DEF Moved
      <4>6. CASE ~started
        <5>1. PICK g \in CallType : g.at = "persist" /\ ~g.ok /\ g.connect = call[c].connect /\ Moved(c, g)
          BY <1>1, <3>2, <4>6, WshIsDone
        <5>2. sess'[s].left
          BY <4>2, <4>4, <4>6
        <5> QED  BY <4>1, <4>3, <4>4, <5>1, <5>2 DEF Moved
      <4> QED  BY <4>5, <4>6
    <3> QED  BY <2>2, <3>1, <3>2
  <2>7. TypeInv'
    BY <1>1, <2>3, <2>6 DEF TypeInv
  <2>8. NamesInv'
    <3>1. \A k \in Sess : sess'[k] # None => client[sess'[k].client] # None
      <4>1. \A k \in Sess : k # new /\ sess'[k] # None => sess[k] # None /\ sess'[k].client = sess[k].client
        <5>1. \A k \in Sess : k # new => sess'[k] = old[k]
          BY <2>6
        <5> QED  BY <2>4, <5>1
      <4>2. new \in Sess => client[sess'[new].client] # None
        BY <2>6, SshAssumption
      <4> QED  BY <2>5, <4>1, <4>2
    <3>2. \A d \in Call : call'[d].at = "setSess" => sess'[call'[d].sess] # None
      <4>1. \A k \in Sess : sess[k] # None => sess'[k] # None
        <5>1. \A k \in Sess : k # new => sess'[k] = old[k]
          BY <2>6
        <5>2. new \in Sess => sess'[new] # None
          BY <2>6, SshAssumption
        <5> QED  BY <2>4, <5>1, <5>2
      <4>2. \A d \in Call : call[d].at = "setSess" => call[d].sess \in Sess /\ sess[call[d].sess] # None
        BY <1>1, CallFields DEF NamesInv
      <4>3. g.at = "setSess" => sess'[g.sess] # None
        BY <2>6, SshAssumption
      <4> QED  BY <2>6, <4>1, <4>2, <4>3
    <3>3. \A d \in Call : /\ call'[d].at \in {"set", "startWaiter"} => client[call'[d].client] # None
                          /\ call'[d].at = "setListener" => listener[call'[d].listener] # None
      BY <1>1, <2>6 DEF NamesInv
    <3> QED  BY <1>1, <2>3, <3>1, <3>2, <3>3 DEF NamesInv
  <2>9. ASSUME raced' = None PROVE Sound'
    <3>1. OneConnect /\ OwnClient /\ OneOpening /\ WshHasSess
      BY <1>1, <2>9 DEF ConnInv, UntilRaced
    <3>2. \A d \in Call : Connecting(d)' <=> Connecting(d)
      BY <1>1, <2>6 DEF Connecting
    <3>3. OneConnect'
      BY <1>1, <2>3, <2>6, <3>1, <3>2 DEF OneConnect
    <3>4. OwnClient'
      BY <1>1, <2>3, <2>6, <3>1 DEF OwnClient, Up
    <3>5. OneOpening'
      <4>1. Opening(c) /\ \A d \in Call : call[d].at \in {"setListener", "setSess"} => d = c
        BY <1>1, <3>1 DEF OneOpening, Opening
      <4>2. \A d \in Call : call[d].at \notin {"setListener", "setSess"}
        BY <1>1, <4>1
      <4>3. \A d, e \in Call : Opening(d)' /\ Opening(e)' => d = e
        BY <1>1, <2>6, <3>1, <4>1 DEF OneOpening, Opening
      <4>4. \A k \in Listener : ListenerOpen(k)' => conn.listener = k
        BY <1>1, <3>1, <4>2 DEF OneOpening, ListenerOpen, Up
      <4>5. \A k \in Sess : SessOpen(k)' => k = new \/ sess'[k].left
        <5>1. \A k \in Sess : k # new /\ SessOpen(k)' => SessOpen(k) /\ k # conn.sess /\ sess'[k].left = sess[k].left
          BY <1>1, <2>4, <2>6 DEF SessOpen, Up
        <5> QED  BY <3>1, <4>2, <5>1 DEF OneOpening
      <4>6. \A k \in Sess : SessOpen(k)' => \/ sess'[k].left
                                            \/ \E d \in Call : call'[d].at = "setSess" /\ call'[d].sess = k
        BY <2>6, <4>5, SshAssumption
      <4>7. \A d \in Call : call'[d].at # "setListener"
        BY <2>6, <4>2
      <4> QED  BY <2>3, <4>3, <4>4, <4>6, <4>7 DEF OneOpening
    <3>6. WshHasSess'
      BY <2>6 DEF WshHasSess
    <3> QED  BY <3>3, <3>4, <3>5, <3>6 DEF Sound
  <2> QED  BY <1>1, <2>7, <2>8, <2>9 DEF ConnInv, UntilRaced, Sound
<1> QED  BY <1>2, <1>3

LEMMA SetSessInv ==
    ASSUME ConnInv, NEW c \in Call, SetSess(c)
    PROVE  ConnInv'
<1>1. /\ TypeInv /\ NamesInv /\ call[c].at = "setSess" /\ call[c].connect \in BOOLEAN
      /\ call[c].sess \in Sess /\ sess[call[c].sess] # None
      /\ client' = client /\ listener' = listener /\ waiter' = waiter /\ raced' = raced
  BY CallFields DEF ConnInv, SetSess, NamesInv
<1>2. PICK ok, s, r : /\ ok \in BOOLEAN /\ s = call[c].sess /\ r = [sess[s] EXCEPT !.watched = TRUE]
                    /\ WshDone(c, ok)
  BY Zenon DEF SetSess
<1>3. PICK f \in CallType : f.at = "persist" /\ f.ok = ok /\ f.connect = call[c].connect /\ Moved(c, f)
  BY <1>1, <1>2, WshIsDone
<1>4. call' \in [Call -> CallType] /\ call'[c] = f /\ \A d \in Call : d # c => call'[d] = call[d]
  BY <1>3 DEF Moved
<1>5. /\ conn' \in ConnType /\ conn'.status = conn.status /\ conn'.client = conn.client
      /\ conn'.listener = conn.listener /\ conn'.sess = s /\ conn'.wsh = conn.wsh
  <2>1. conn \in ConnType
    BY <1>1 DEF TypeInv
  <2>2. PICK q : q = [conn EXCEPT !.sess = s]
    OBVIOUS
  <2>3. /\ q \in ConnType /\ q.status = conn.status /\ q.client = conn.client
        /\ q.listener = conn.listener /\ q.sess = s /\ q.wsh = conn.wsh
    BY <1>1, <1>2, <2>1, <2>2 DEF ConnType
  <2> QED  BY <1>2, <2>2, <2>3 DEF SetSess
<1>6. s \in Sess /\ r \in SessState /\ r # None /\ r.client = sess[s].client /\ r.open = sess[s].open /\ r.left = sess[s].left /\ r.watched
  BY <1>1, <1>2, SshAssumption DEF TypeInv, SessState
<1>7. sess' = [sess EXCEPT ![s] = r]
  BY <1>2 DEF SetSess
<1>8. /\ sess' \in [Sess -> SessState \cup {None}] /\ sess'[s] = r
      /\ \A k \in Sess : /\ sess'[k] # None <=> sess[k] # None
                         /\ sess[k] # None => /\ sess'[k].client = sess[k].client
                                              /\ sess'[k].open = sess[k].open
                                              /\ sess'[k].left = sess[k].left
  BY <1>1, <1>2, <1>6, <1>7 DEF TypeInv
<1>9. TypeInv'
  BY <1>1, <1>4, <1>5, <1>8 DEF TypeInv
<1>10. NamesInv'
  <2>1. \A k \in Sess : sess'[k] # None => client[sess'[k].client] # None
    BY <1>1, <1>8 DEF NamesInv
  <2>2. \A d \in Call : call'[d].at = "setSess" => sess'[call'[d].sess] # None
    BY <1>1, <1>3, <1>4, <1>8, CallFields DEF NamesInv
  <2>3. \A d \in Call : /\ call'[d].at \in {"set", "startWaiter"} => client[call'[d].client] # None
                        /\ call'[d].at = "setListener" => listener[call'[d].listener] # None
    BY <1>1, <1>3, <1>4 DEF NamesInv
  <2>4. sess'[s] # None /\ sess'[s].watched
    BY <1>6, <1>8
  <2> QED  BY <1>1, <1>5, <2>1, <2>2, <2>3, <2>4 DEF NamesInv
<1>11. ASSUME raced' = None PROVE Sound'
  <2>1. OneConnect /\ OwnClient /\ OneOpening /\ WshHasSess
    BY <1>1, <1>11 DEF ConnInv, UntilRaced
  <2>2. \A d \in Call : Connecting(d)' <=> Connecting(d)
    BY <1>1, <1>3, <1>4 DEF Connecting
  <2>3. OneConnect'
    BY <1>1, <1>3, <1>4, <1>5, <2>1, <2>2 DEF OneConnect
  <2>4. OwnClient'
    BY <1>1, <1>3, <1>4, <1>5, <2>1 DEF OwnClient, Up
  <2>5. OneOpening'
    <3>1. Opening(c) /\ \A d \in Call : call[d].at = "setSess" => d = c
      BY <1>1, <2>1 DEF OneOpening, Opening
    <3>2. \A d, e \in Call : Opening(d)' /\ Opening(e)' => d = e
      BY <1>4, <2>1, <3>1 DEF OneOpening, Opening
    <3>3. \A k \in Sess : SessOpen(k)' => k = s \/ sess'[k].left
      <4>1. \A k \in Sess : SessOpen(k)' => SessOpen(k) /\ sess'[k].left = sess[k].left
        BY <1>1, <1>8 DEF SessOpen, Up
      <4> QED  BY <1>1, <1>2, <2>1, <3>1, <4>1, SshAssumption DEF OneOpening
    <3>4. \A k \in Listener : ListenerOpen(k)' => conn.listener = k
             \/ \E d \in Call : call'[d].at = "setListener" /\ call'[d].listener = k
      BY <1>1, <1>4, <2>1 DEF OneOpening, ListenerOpen, Up
    <3>5. \A d \in Call : call'[d].at # "setSess" /\ (call'[d].at = "setListener" => conn.listener = None)
      BY <1>3, <1>4, <2>1, <3>1 DEF OneOpening
    <3> QED  BY <1>5, <3>2, <3>3, <3>4, <3>5 DEF OneOpening
  <2>6. WshHasSess'
    BY <1>1, <1>2, <1>5, SshAssumption DEF WshHasSess
  <2> QED  BY <2>3, <2>4, <2>5, <2>6 DEF Sound
<1> QED  BY <1>9, <1>10, <1>11 DEF ConnInv, UntilRaced, Sound

LEMMA PersistWshInv ==
    ASSUME ConnInv, NEW c \in Call, PersistWsh(c)
    PROVE  ConnInv'
<1>1. /\ TypeInv /\ NamesInv /\ call[c].at = "persist" /\ call[c].connect \in BOOLEAN /\ call[c].ok \in BOOLEAN
      /\ client' = client /\ listener' = listener /\ sess' = sess /\ waiter' = waiter
  BY CallFields DEF ConnInv, PersistWsh
<1>2. PICK f : /\ f = (IF call[c].connect THEN [at |-> "check", connect |-> TRUE] ELSE [at |-> "ensured"])
               /\ Goto(c, f)
  BY Zenon DEF PersistWsh
<1>3. f \in CallType /\ f.at \in {"check", "ensured"} /\ (f.at = "check" <=> call[c].connect) /\ (f.at = "check" => f.connect)
  <2>1. CASE call[c].connect
    BY <1>2, <2>1 DEF CallType
  <2>2. CASE ~call[c].connect
    BY <1>2, <2>2 DEF CallType
  <2> QED  BY <2>1, <2>2
<1>4. call' \in [Call -> CallType] /\ call'[c] = f /\ \A d \in Call : d # c => call'[d] = call[d]
  BY <1>1, <1>2, <1>3, CallMoves DEF Moved
<1>5. /\ conn' \in ConnType /\ conn'.status = conn.status /\ conn'.client = conn.client
      /\ conn'.listener = conn.listener /\ conn'.sess = conn.sess /\ conn'.wsh = call[c].ok
  <2>1. conn \in ConnType
    BY <1>1 DEF TypeInv
  <2>2. PICK q : q = [conn EXCEPT !.wsh = call[c].ok]
    OBVIOUS
  <2>3. /\ q \in ConnType /\ q.status = conn.status /\ q.client = conn.client
        /\ q.listener = conn.listener /\ q.sess = conn.sess /\ q.wsh = call[c].ok
    BY <1>1, <2>1, <2>2 DEF ConnType
  <2> QED  BY <2>2, <2>3 DEF PersistWsh
<1>6. raced' = IF (call[c].ok /\ (conn.sess = None \/ ~SessOpen(conn.sess))) /\ raced = None THEN "latePersist" ELSE raced
  BY DEF PersistWsh, Mark
<1>7. raced' \in Race \cup {None} /\ (raced' = None => raced = None /\ (call[c].ok => conn.sess # None))
  BY <1>1, <1>6, SshAssumption DEF TypeInv, Race
<1>8. TypeInv'
  BY <1>1, <1>4, <1>5, <1>7 DEF TypeInv
<1>9. NamesInv'
  BY <1>1, <1>3, <1>4, <1>5 DEF NamesInv
<1>10. ASSUME raced' = None PROVE Sound'
  <2>1. OneConnect /\ OwnClient /\ OneOpening /\ WshHasSess
    BY <1>7, <1>10 DEF ConnInv, UntilRaced
  <2>2. \A d \in Call : Connecting(d)' <=> Connecting(d)
    BY <1>1, <1>3, <1>4 DEF Connecting
  <2>3. OneConnect'
    BY <1>3, <1>4, <1>5, <2>1, <2>2 DEF OneConnect
  <2>4. OwnClient'
    BY <1>1, <1>3, <1>4, <1>5, <2>1 DEF OwnClient, Up
  <2>5. OneOpening'
    BY <1>1, <1>3, <1>4, <1>5, <2>1 DEF OneOpening, Opening, ListenerOpen, SessOpen, Up
  <2>6. WshHasSess'
    BY <1>5, <1>7, <1>10 DEF WshHasSess
  <2> QED  BY <2>3, <2>4, <2>5, <2>6 DEF Sound
<1> QED  BY <1>8, <1>9, <1>10 DEF ConnInv, UntilRaced, Sound

-----------------------------------------------------------------------------
(* The ends of a listener and of a session, and the faults                 *)

LEMMA ListenerEndsInv ==
    ASSUME ConnInv, NEW l \in Listener, ListenerEnds(l)
    PROVE  ConnInv'
<1>1. /\ TypeInv /\ NamesInv /\ listener[l] # None /\ ~ListenerOpen(l)
      /\ client' = client /\ sess' = sess /\ waiter' = waiter /\ call' = call
      /\ raced' = IF conn.listener \notin {l, None} /\ raced = None THEN "staleListener" ELSE raced
  BY DEF ConnInv, ListenerEnds, Mark
<1>2. /\ conn' \in ConnType /\ conn'.status = conn.status /\ conn'.client = conn.client
      /\ conn'.listener = None /\ conn'.sess = conn.sess /\ conn'.wsh = conn.wsh
  <2>1. conn \in ConnType
    BY <1>1 DEF TypeInv
  <2>2. PICK q : q = [conn EXCEPT !.listener = None]
    OBVIOUS
  <2>3. /\ q \in ConnType /\ q.status = conn.status /\ q.client = conn.client
        /\ q.listener = None /\ q.sess = conn.sess /\ q.wsh = conn.wsh
    BY <2>1, <2>2 DEF ConnType
  <2> QED  BY <2>2, <2>3 DEF ListenerEnds
<1>3. PICK r : r = [listener[l] EXCEPT !.served = FALSE]
  OBVIOUS
<1>4. r \in ListenerState /\ r # None /\ r.client = listener[l].client /\ r.open = listener[l].open
  BY <1>1, <1>3, SshAssumption DEF TypeInv, ListenerState
<1>5. listener' = [listener EXCEPT ![l] = r]
  BY <1>3 DEF ListenerEnds
<1>6. /\ listener' \in [Listener -> ListenerState \cup {None}]
      /\ \A k \in Listener : /\ listener'[k] # None <=> listener[k] # None
                             /\ listener[k] # None => /\ listener'[k].client = listener[k].client
                                                      /\ listener'[k].open = listener[k].open
  BY <1>1, <1>4, <1>5 DEF TypeInv
<1>7. raced' \in Race \cup {None} /\ (raced' = None => raced = None /\ conn.listener \in {l, None})
  BY <1>1, SshAssumption DEF TypeInv, Race
<1>8. TypeInv'
  BY <1>1, <1>2, <1>6, <1>7 DEF TypeInv
<1>9. NamesInv'
  <2>1. \A k \in Listener : listener'[k] # None => client[listener'[k].client] # None
    BY <1>1, <1>6 DEF NamesInv
  <2>2. \A d \in Call : call[d].at = "setListener" => listener'[call[d].listener] # None
    BY <1>1, <1>6, CallFields DEF NamesInv
  <2> QED  BY <1>1, <1>2, <2>1, <2>2 DEF NamesInv
<1>10. ASSUME raced' = None PROVE Sound'
  <2>1. OneConnect /\ OwnClient /\ OneOpening /\ WshHasSess
    BY <1>7, <1>10 DEF ConnInv, UntilRaced
  <2>2. OneConnect'
    BY <1>1, <1>2, <2>1 DEF OneConnect, Connecting
  <2>3. OwnClient'
    BY <1>1, <1>2, <2>1 DEF OwnClient, Up
  <2>4. OneOpening'
    <3>1. \A k \in Listener : ListenerOpen(k)' => ListenerOpen(k) /\ k # conn.listener
      BY <1>1, <1>6, <1>7, <1>10, SshAssumption DEF ListenerOpen, Up
    <3> QED  BY <1>1, <1>2, <2>1, <3>1 DEF OneOpening, Opening, SessOpen, Up
  <2>5. WshHasSess'
    BY <1>1, <1>2, <2>1 DEF WshHasSess
  <2> QED  BY <2>2, <2>3, <2>4, <2>5 DEF Sound
<1> QED  BY <1>8, <1>9, <1>10 DEF ConnInv, UntilRaced, Sound

LEMMA SessEndsInv ==
    ASSUME ConnInv, NEW s \in Sess, SessEnds(s)
    PROVE  ConnInv'
<1>1. /\ TypeInv /\ NamesInv /\ sess[s] # None /\ ~SessOpen(s)
      /\ client' = client /\ listener' = listener /\ waiter' = waiter /\ call' = call /\ raced' = raced
  BY DEF ConnInv, SessEnds
<1>2. /\ conn' \in ConnType /\ conn'.status = conn.status /\ conn'.client = conn.client
      /\ conn'.listener = conn.listener
      /\ IF conn.sess = s THEN conn'.sess = None /\ ~conn'.wsh ELSE conn'.sess = conn.sess /\ conn'.wsh = conn.wsh
  <2>1. conn \in ConnType
    BY <1>1 DEF TypeInv
  <2>2. PICK q : q = [conn EXCEPT !.sess = None, !.wsh = FALSE]
    OBVIOUS
  <2>3. /\ q \in ConnType /\ q.status = conn.status /\ q.client = conn.client
        /\ q.listener = conn.listener /\ q.sess = None /\ ~q.wsh
    BY <2>1, <2>2 DEF ConnType
  <2>4. conn' = IF conn.sess = s THEN q ELSE conn
    BY <2>2 DEF SessEnds
  <2> QED  BY <2>1, <2>3, <2>4
<1>3. PICK r : r = [sess[s] EXCEPT !.watched = FALSE]
  OBVIOUS
<1>4. r \in SessState /\ r # None /\ r.client = sess[s].client /\ r.open = sess[s].open /\ r.left = sess[s].left
  BY <1>1, <1>3, SshAssumption DEF TypeInv, SessState
<1>5. sess' = [sess EXCEPT ![s] = r]
  BY <1>3 DEF SessEnds
<1>6. /\ sess' \in [Sess -> SessState \cup {None}]
      /\ \A k \in Sess : /\ sess'[k] # None <=> sess[k] # None
                         /\ sess[k] # None => /\ sess'[k].client = sess[k].client
                                              /\ sess'[k].open = sess[k].open
                                              /\ sess'[k].left = sess[k].left
      /\ \A k \in Sess : k # s => sess'[k] = sess[k]
  BY <1>1, <1>4, <1>5 DEF TypeInv
<1>7. TypeInv'
  BY <1>1, <1>2, <1>6 DEF TypeInv
<1>8. NamesInv'
  <2>1. \A k \in Sess : sess'[k] # None => client[sess'[k].client] # None
    BY <1>1, <1>6 DEF NamesInv
  <2>2. \A d \in Call : call[d].at = "setSess" => sess'[call[d].sess] # None
    BY <1>1, <1>6, CallFields DEF NamesInv
  <2>3. conn'.sess # None => conn'.sess \in Sess /\ conn'.sess # s /\ conn'.sess = conn.sess
    BY <1>1, <1>2, NamesFields
  <2>4. conn'.sess # None => sess'[conn'.sess] # None /\ sess'[conn'.sess].watched
    BY <1>1, <1>6, <2>3 DEF NamesInv
  <2> QED  BY <1>1, <1>2, <2>1, <2>2, <2>4 DEF NamesInv
<1>9. ASSUME raced' = None PROVE Sound'
  <2>1. OneConnect /\ OwnClient /\ OneOpening /\ WshHasSess
    BY <1>1, <1>9 DEF ConnInv, UntilRaced
  <2>2. OneConnect'
    BY <1>1, <1>2, <2>1 DEF OneConnect, Connecting
  <2>3. OwnClient'
    BY <1>1, <1>2, <2>1 DEF OwnClient, Up
  <2>4. OneOpening'
    <3>1. \A k \in Sess : SessOpen(k)' => SessOpen(k) /\ k # s /\ sess'[k].left = sess[k].left
      BY <1>1, <1>6 DEF SessOpen, Up
    <3>2. \A k \in Sess : SessOpen(k)' => conn'.sess = k \/ sess'[k].left \/ \E d \in Call : call[d].at = "setSess" /\ call[d].sess = k
      BY <1>2, <2>1, <3>1 DEF OneOpening
    <3>3. conn.sess = None => conn'.sess = None
      BY <1>2
    <3> QED  BY <1>1, <1>2, <2>1, <3>2, <3>3 DEF OneOpening, Opening, ListenerOpen, Up
  <2>5. WshHasSess'
    BY <1>1, <1>2, <2>1 DEF WshHasSess
  <2> QED  BY <2>2, <2>3, <2>4, <2>5 DEF Sound
<1> QED  BY <1>7, <1>8, <1>9 DEF ConnInv, UntilRaced, Sound

LEMMA DropInv ==
    ASSUME ConnInv, NEW x \in Client, Drop(x)
    PROVE  ConnInv'
<1>1. /\ TypeInv /\ NamesInv /\ client' = [client EXCEPT ![x] = "down"] /\ client[x] = "up"
      /\ conn' = conn /\ listener' = listener /\ sess' = sess /\ waiter' = waiter /\ call' = call /\ raced' = raced
  BY DEF ConnInv, Drop
<1>2. /\ client' \in [Client -> {None, "up", "down"}]
      /\ \A y \in Client : /\ client[y] # None => client'[y] # None
                           /\ client'[y] = "up" => client[y] = "up"
  BY <1>1, SshAssumption DEF TypeInv
<1>3. TypeInv'
  BY <1>1, <1>2 DEF TypeInv
<1>4. /\ \A l \in Listener : listener[l] # None => listener[l].client \in Client
      /\ \A s \in Sess : sess[s] # None => sess[s].client \in Client
  BY <1>1 DEF TypeInv, ListenerState, SessState
<1>5. NamesInv'
  <2>1. \A d \in Call : call[d].at \in {"set", "startWaiter"} => client'[call[d].client] # None
    BY <1>1, <1>2, CallFields DEF NamesInv
  <2>2. conn.client # None => client'[conn.client] # None
    BY <1>1, <1>2, NamesFields
  <2> QED  BY <1>1, <1>2, <1>4, <2>1, <2>2 DEF NamesInv
<1>6. OneConnect => OneConnect'
  BY <1>1 DEF OneConnect, Connecting
<1>7. OwnClient => OwnClient'
  BY <1>1, <1>2 DEF OwnClient, Up
<1>8. OneOpening => OneOpening'
  <2>1. \A l \in Listener : ListenerOpen(l)' => ListenerOpen(l)
    BY <1>1, <1>2, <1>4 DEF ListenerOpen, Up
  <2>2. \A s \in Sess : SessOpen(s)' => SessOpen(s)
    BY <1>1, <1>2, <1>4 DEF SessOpen, Up
  <2> QED  BY <1>1, <2>1, <2>2 DEF OneOpening, Opening
<1>9. WshHasSess => WshHasSess'
  BY <1>1 DEF WshHasSess
<1> QED  BY <1>1, <1>3, <1>5, <1>6, <1>7, <1>8, <1>9 DEF ConnInv, UntilRaced

LEMMA DieInv ==
    ASSUME ConnInv, NEW s \in Sess, Die(s)
    PROVE  ConnInv'
<1>1. /\ TypeInv /\ NamesInv /\ sess[s] # None
      /\ conn' = conn /\ client' = client /\ listener' = listener /\ waiter' = waiter /\ call' = call /\ raced' = raced
  BY DEF ConnInv, Die
<1>2. PICK r : r = [sess[s] EXCEPT !.open = FALSE]
  OBVIOUS
<1>3. r \in SessState /\ r # None /\ r.client = sess[s].client /\ r.watched = sess[s].watched /\ r.left = sess[s].left /\ ~r.open
  BY <1>1, <1>2, SshAssumption DEF TypeInv, SessState
<1>4. sess' = [sess EXCEPT ![s] = r]
  BY <1>2 DEF Die
<1>5. /\ sess' \in [Sess -> SessState \cup {None}]
      /\ \A k \in Sess : /\ sess'[k] # None <=> sess[k] # None
                         /\ sess[k] # None => /\ sess'[k].client = sess[k].client
                                              /\ sess'[k].watched = sess[k].watched
                                              /\ sess'[k].left = sess[k].left
                                              /\ sess'[k].open => sess[k].open
  BY <1>1, <1>3, <1>4 DEF TypeInv
<1>6. TypeInv'
  BY <1>1, <1>5 DEF TypeInv
<1>7. NamesInv'
  <2>1. \A k \in Sess : sess'[k] # None => client[sess'[k].client] # None
    BY <1>1, <1>5 DEF NamesInv
  <2>2. \A d \in Call : call[d].at = "setSess" => sess'[call[d].sess] # None
    BY <1>1, <1>5, CallFields DEF NamesInv
  <2>3. conn.sess # None => sess'[conn.sess] # None /\ sess'[conn.sess].watched
    BY <1>1, <1>5, NamesFields DEF NamesInv
  <2> QED  BY <1>1, <2>1, <2>2, <2>3 DEF NamesInv
<1>8. OneConnect => OneConnect'
  BY <1>1 DEF OneConnect, Connecting
<1>9. OwnClient => OwnClient'
  BY <1>1 DEF OwnClient, Up
<1>10. OneOpening => OneOpening'
  <2>1. \A k \in Sess : SessOpen(k)' => SessOpen(k) /\ sess'[k].left = sess[k].left
    BY <1>1, <1>5 DEF SessOpen, Up
  <2> QED  BY <1>1, <2>1 DEF OneOpening, Opening, ListenerOpen, Up
<1>11. WshHasSess => WshHasSess'
  BY <1>1 DEF WshHasSess
<1> QED  BY <1>1, <1>6, <1>7, <1>8, <1>9, <1>10, <1>11 DEF ConnInv, UntilRaced

-----------------------------------------------------------------------------
(* The theorems                                                            *)

LEMMA InitInv == ConnInit => ConnInv
<1> SUFFICES ASSUME ConnInit PROVE ConnInv
  OBVIOUS
<1>1. /\ call \in [Call -> CallType] /\ \A c \in Call : call[c].at = "none"
      /\ raced = None
  BY DEF ConnInit, NoCall, CallType
<1>2. \A c \in Call : ~Connecting(c) /\ ~Opening(c)
  BY <1>1 DEF Connecting, Opening
<1>3. CASE Unused
  <2>1. /\ conn \in ConnType /\ conn.client = None /\ conn.listener = None /\ conn.sess = None
        /\ conn.status = "init"
    BY <1>3 DEF Unused, ConnType, Statuses
  <2>2. /\ client \in [Client -> {None, "up", "down"}] /\ \A x \in Client : client[x] # "up"
        /\ listener \in [Listener -> ListenerState \cup {None}] /\ \A l \in Listener : listener[l] = None
        /\ sess \in [Sess -> SessState \cup {None}] /\ \A s \in Sess : sess[s] = None
        /\ waiter \in [Client -> WaiterState \cup {None}]
    BY <1>3, SshAssumption DEF Unused
  <2>3. TypeInv
    BY <1>1, <2>1, <2>2 DEF TypeInv
  <2>4. NamesInv
    BY <1>1, <2>1, <2>2 DEF NamesInv
  <2>5. OneConnect
    BY <1>1, <1>2, <2>1 DEF OneConnect
  <2>6. OwnClient
    BY <2>1, <2>2, SshAssumption DEF OwnClient, Up
  <2>7. OneOpening
    BY <1>1, <1>2, <2>2 DEF OneOpening, ListenerOpen, SessOpen
  <2>8. WshHasSess
    BY <2>1 DEF WshHasSess
  <2> QED  BY <2>3, <2>4, <2>5, <2>6, <2>7, <2>8 DEF ConnInv, UntilRaced
<1>4. CASE Connected
  <2>1. PICK x, l, s : /\ x = (CHOOSE y \in Client : TRUE) /\ l = (CHOOSE y \in Listener : TRUE)
                       /\ s = (CHOOSE y \in Sess : TRUE)
    OBVIOUS
  <2>2. x \in Client /\ l \in Listener /\ s \in Sess
    <3>1. (\E y \in Client : TRUE) /\ (\E y \in Listener : TRUE) /\ (\E y \in Sess : TRUE)
      BY SshAssumption
    <3> QED  BY <2>1, <3>1, Zenon
  <2>3. PICK lr, sr, w : /\ lr = [client |-> x, open |-> TRUE, served |-> TRUE]
                         /\ sr = [client |-> x, open |-> TRUE, watched |-> TRUE, left |-> FALSE]
                         /\ w = [at |-> "wait", client |-> x]
    OBVIOUS
  <2>4. /\ conn = [status |-> "connected", client |-> x, listener |-> l, sess |-> s, wsh |-> TRUE, ensuring |-> FALSE]
        /\ client = [y \in Client |-> IF y = x THEN "up" ELSE None]
        /\ listener = [y \in Listener |-> IF y = l THEN lr ELSE None]
        /\ sess = [y \in Sess |-> IF y = s THEN sr ELSE None]
        /\ waiter = [y \in Client |-> IF y = x THEN w ELSE None]
    BY <1>4, <2>1, <2>3, Zenon DEF Connected
  <2>5. lr \in ListenerState /\ lr.client = x /\ lr # None
    <3>1. lr \in ListenerState /\ lr.client = x
      BY <2>2, <2>3 DEF ListenerState
    <3> QED  BY <3>1, SshAssumption
  <2>6. sr \in SessState /\ sr.client = x /\ sr.watched /\ sr # None
    <3>1. sr \in SessState /\ sr.client = x /\ sr.watched
      BY <2>2, <2>3 DEF SessState
    <3> QED  BY <3>1, SshAssumption
  <2>7. w \in WaiterState /\ w.at = "wait" /\ w.client = x /\ w # None
    BY <2>2, <2>3, SshAssumption DEF WaiterState
  <2>8. /\ conn \in ConnType /\ conn.client = x /\ conn.listener = l /\ conn.sess = s
        /\ conn.status = "connected"
    BY <2>2, <2>4 DEF ConnType, Statuses
  <2>9. x # None /\ l # None /\ s # None /\ "up" # None
    BY <2>2, SshAssumption
  <2>10. /\ client \in [Client -> {None, "up", "down"}] /\ client[x] = "up"
         /\ \A y \in Client : y # x => client[y] = None
    BY <2>2, <2>4
  <2>11. /\ listener \in [Listener -> ListenerState \cup {None}] /\ listener[l] = lr
         /\ \A y \in Listener : y # l => listener[y] = None
    BY <2>2, <2>4, <2>5
  <2>12. /\ sess \in [Sess -> SessState \cup {None}] /\ sess[s] = sr
         /\ \A y \in Sess : y # s => sess[y] = None
    BY <2>2, <2>4, <2>6
  <2>13. waiter \in [Client -> WaiterState \cup {None}] /\ waiter[x] = w
    BY <2>2, <2>4, <2>7
  <2>14. TypeInv
    BY <1>1, <2>8, <2>10, <2>11, <2>12, <2>13 DEF TypeInv
  <2>15. NamesInv
    BY <1>1, <2>5, <2>6, <2>8, <2>9, <2>10, <2>11, <2>12 DEF NamesInv
  <2>16. OneConnect
    BY <1>1, <1>2, <2>8, <2>9 DEF OneConnect
  <2>17. OwnClient
    BY <2>2, <2>7, <2>8, <2>9, <2>10, <2>13 DEF OwnClient, Up
  <2>18. OneOpening
    BY <1>1, <1>2, <2>8, <2>11, <2>12 DEF OneOpening, ListenerOpen, SessOpen
  <2>19. WshHasSess
    BY <2>8, <2>9 DEF WshHasSess
  <2> QED  BY <2>14, <2>15, <2>16, <2>17, <2>18, <2>19 DEF ConnInv, UntilRaced
<1> QED  BY <1>3, <1>4 DEF ConnInit

LEMMA StepInv ==
    ASSUME ConnInv, [ConnNext]_connVars
    PROVE  ConnInv'
<1>1. ASSUME NEW c \in Call, BeginConnect(c) \/ BeginClose(c) \/ BeginEnsure(c) PROVE ConnInv'
  BY <1>1, BeginConnectInv, BeginCloseInv, BeginEnsureInv
<1>2. ASSUME NEW c \in Call, CallStep(c) PROVE ConnInv'
  <2>1. CASE CloseWaits(c) \/ Dial(c) \/ SetClient(c) \/ StartDisconnectWaiter(c) \/ CheckClient(c) \/ Finish(c) \/ Fail(c)
    BY <2>1, CloseWaitsInv, DialInv, SetClientInv, StartDisconnectWaiterInv, CheckClientInv, FinishInv, FailInv
  <2>2. CASE SkipWsh(c) \/ OpenListener(c) \/ SetListener(c) \/ StartConnServer(c) \/ SetSess(c) \/ PersistWsh(c)
                \/ Ensured(c) \/ WaitForConnect(c)
    BY <2>2, SkipWshInv, OpenListenerInv, SetListenerInv, StartConnServerInv, SetSessInv, PersistWshInv,
       EnsuredInv, WaitForConnectInv
  <2> QED  BY <1>2, <2>1, <2>2 DEF CallStep, Asks, Proceeds
<1>3. ASSUME GoStep PROVE ConnInv'
  BY <1>3, WaiterLooksInv, WaiterWakesInv, ListenerEndsInv, SessEndsInv DEF GoStep
<1>4. ASSUME NEW x \in Client, Drop(x) PROVE ConnInv'
  BY <1>4, DropInv
<1>5. ASSUME NEW s \in Sess, Die(s) PROVE ConnInv'
  BY <1>5, DieInv
<1>6. ASSUME UNCHANGED connVars PROVE ConnInv'
  <2>1. /\ conn' = conn /\ client' = client /\ listener' = listener /\ sess' = sess /\ waiter' = waiter
        /\ call' = call /\ raced' = raced
    BY <1>6 DEF connVars
  <2>2. TypeInv' /\ NamesInv'
    BY <2>1 DEF ConnInv, TypeInv, NamesInv
  <2>3. OneConnect => OneConnect'
    BY <2>1 DEF OneConnect, Connecting
  <2>4. OwnClient => OwnClient'
    BY <2>1 DEF OwnClient, Up
  <2>5. OneOpening => OneOpening'
    BY <2>1 DEF OneOpening, Opening, ListenerOpen, SessOpen, Up
  <2>6. WshHasSess => WshHasSess'
    BY <2>1 DEF WshHasSess
  <2> QED  BY <2>1, <2>2, <2>3, <2>4, <2>5, <2>6 DEF ConnInv, UntilRaced
<1> QED  BY <1>1, <1>2, <1>3, <1>4, <1>5, <1>6 DEF ConnNext

\* The connection, what it has opened, its callers and waiters are what the
\* code makes of them: the invariant holds in every state.
THEOREM ConnInductive == ConnSpec => []ConnInv
BY InitInv, StepInv, PTL DEF ConnSpec

THEOREM ConnTypeCorrect == ConnSpec => []ConnTypeOK
<1>1. ConnInv => ConnTypeOK
  BY DEF ConnInv, TypeInv, ConnTypeOK, ConnType, Statuses
<1> QED  BY <1>1, ConnInductive, PTL

\* For any number of callers, clients, listeners and sessions: once nothing
\* is under way, and unless one of the known races has happened, nothing is
\* open that the connection does not know of, but a session whose command
\* could not be started; its status is the truth, and so is what it says of
\* wsh.
THEOREM ConnSettled == ConnSpec => []SettledIsTrue
<1>1. ConnInv => SettledIsTrue
  <2> SUFFICES ASSUME ConnInv, Quiet, raced = None
               PROVE  /\ \A x \in Client : Up(x) => conn.client = x
                      /\ \A l \in Listener : ListenerOpen(l) => conn.listener = l
                      /\ \A s \in Sess : SessOpen(s) => conn.sess = s \/ sess[s].left
                      /\ conn.status = "connected" <=> conn.client # None /\ Up(conn.client)
                      /\ conn.status # "connecting"
                      /\ conn.wsh /\ conn.status = "connected" => conn.sess # None /\ SessOpen(conn.sess)
    BY DEF SettledIsTrue
  <2>1. TypeInv /\ NamesInv /\ OneConnect /\ OwnClient /\ OneOpening /\ WshHasSess
    BY DEF ConnInv, UntilRaced
  <2>2. \A c \in Call : call[c].at \in {"none", "end"}
    BY DEF Quiet, NoCall, End
  <2>3. \A c \in Call : ~Connecting(c)
    BY <2>2 DEF Connecting
  <2>4. \A x \in Client : Up(x) => conn.client = x
    BY <2>1, <2>2 DEF OwnClient
  <2>5. \A l \in Listener : ListenerOpen(l) => conn.listener = l
    BY <2>1, <2>2 DEF OneOpening
  <2>6. \A s \in Sess : SessOpen(s) => conn.sess = s \/ sess[s].left
    BY <2>1, <2>2 DEF OneOpening
  <2>7. conn.client # None => Up(conn.client)
    <3> SUFFICES ASSUME conn.client # None PROVE Up(conn.client)
      OBVIOUS
    <3>1. PICK x \in Client : x = conn.client
      BY <2>1, NamesFields
    <3>2. waiter[x] # None /\ (waiter[x].at = "start" \/ (waiter[x].at = "wait" /\ waiter[x].client = x))
      BY <2>1, <2>2, <3>1 DEF OwnClient
    <3>3. waiter[x].at = "wait" /\ waiter[x].client = x /\ Up(x)
      BY <3>2 DEF Quiet, NothingEnds
    <3> QED  BY <3>1, <3>3
  <2>8. (conn.status = "connected" <=> conn.client # None) /\ conn.status # "connecting"
    BY <2>1, <2>3 DEF OneConnect
  <2>9. ASSUME conn.wsh, conn.status = "connected" PROVE conn.sess # None /\ SessOpen(conn.sess)
    <3>1. conn.sess # None
      BY <2>1, <2>2, <2>8, <2>9 DEF WshHasSess
    <3>2. conn.sess \in Sess /\ sess[conn.sess] # None /\ sess[conn.sess].watched
      BY <2>1, <3>1, NamesFields DEF NamesInv
    <3> QED  BY <3>1, <3>2 DEF Quiet, NothingEnds
  <2> QED  BY <2>4, <2>5, <2>6, <2>7, <2>8, <2>9
<1> QED  BY <1>1, ConnInductive, PTL

\* For any number of callers, clients, listeners and sessions: before the
\* first of the known races, no step but a Close gives up a live connection,
\* neither one of another Connect nor one of the waiter of an older client.
THEOREM OnlyCloses == ConnSpec => OnlyCloseDisconnects
<1> DEFINE Keeps == conn.status = "connected" /\ Up(conn.client) /\ raced = None =>
                       \/ conn'.status = "connected" /\ conn'.client = conn.client
                       \/ \E c \in Call : call[c] = NoCall /\ call'[c].at = "waiter"
<1>1. ASSUME ConnInv, [ConnNext]_connVars PROVE Keeps
  <2> SUFFICES ASSUME conn.status = "connected", Up(conn.client), raced = None,
                      ~(conn'.status = "connected" /\ conn'.client = conn.client)
               PROVE  \E c \in Call : call[c] = NoCall /\ call'[c].at = "waiter"
    OBVIOUS
  <2>1. TypeInv /\ conn \in ConnType /\ conn' # conn /\ \A c \in Call : ~Connecting(c)
    BY <1>1 DEF ConnInv, TypeInv, UntilRaced, OneConnect
  <2>2. \A c \in Call : call[c].at \notin {"dial", "set", "startWaiter", "fail", "check", "finish"}
    BY <2>1, CallFields DEF Connecting
  <2>3. ASSUME NEW c \in Call, BeginClose(c) PROVE call[c] = NoCall /\ call'[c].at = "waiter"
    <3>1. PICK f : f = [at |-> "waiter"] /\ Goto(c, f) /\ call[c] = NoCall
      BY <2>3 DEF BeginClose
    <3> QED  BY <2>1, <3>1 DEF Goto, TypeInv
  <2>4. ASSUME NEW c \in Call, BeginConnect(c) \/ BeginEnsure(c) PROVE FALSE
    <3>1. ~StartConnect(c)
      BY <2>1 DEF StartConnect, Allowed
    <3>2. BeginEnsure(c)
      BY <2>4, <3>1 DEF BeginConnect
    <3>3. conn' = [conn EXCEPT !.ensuring = TRUE]
      BY <2>1, <3>2 DEF BeginEnsure
    <3> QED  BY <2>1, <3>3 DEF ConnType
  <2>5. ASSUME NEW c \in Call, CallStep(c) PROVE FALSE
    <3>1. ~Dial(c) /\ ~SetClient(c) /\ ~StartDisconnectWaiter(c) /\ ~CheckClient(c) /\ ~Finish(c) /\ ~Fail(c)
      BY <2>2 DEF Dial, SetClient, StartDisconnectWaiter, CheckClient, Finish, Fail
    <3>2. ~CloseWaits(c) /\ ~SkipWsh(c) /\ ~OpenListener(c) /\ ~WaitForConnect(c)
      BY <2>1 DEF CloseWaits, SkipWsh, OpenListener, WaitForConnect
    <3>3. ~SetListener(c)
      BY <2>1 DEF SetListener, ConnType
    <3>4. ~StartConnServer(c)
      BY <2>1 DEF StartConnServer, ConnType
    <3>5. ~SetSess(c)
      BY <2>1 DEF SetSess, ConnType
    <3>6. ~PersistWsh(c) /\ ~Ensured(c)
      BY <2>1 DEF PersistWsh, Ensured, ConnType
    <3> QED  BY <2>5, <3>1, <3>2, <3>3, <3>4, <3>5, <3>6 DEF CallStep, Asks, Proceeds
  <2>6. ASSUME NEW x \in Client, WaiterLooks(x) \/ WaiterWakes(x) \/ Drop(x) PROVE FALSE
    BY <2>1, <2>6 DEF WaiterLooks, WaiterWakes, Drop
  <2>7. ASSUME NEW l \in Listener, ListenerEnds(l) PROVE FALSE
    BY <2>1, <2>7 DEF ListenerEnds, ConnType
  <2>8. ASSUME NEW s \in Sess, SessEnds(s) \/ Die(s) PROVE FALSE
    BY <2>1, <2>8 DEF SessEnds, Die, ConnType
  <2>9. ASSUME UNCHANGED connVars PROVE FALSE
    BY <2>1, <2>9 DEF connVars
  <2> QED  BY <1>1, <2>3, <2>4, <2>5, <2>6, <2>7, <2>8, <2>9 DEF ConnNext, GoStep
<1> QED  BY <1>1, ConnInductive, PTL DEF ConnSpec, OnlyCloseDisconnects

=============================================================================
