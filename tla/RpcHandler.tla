----------------------------- MODULE RpcHandler -----------------------------
(***************************************************************************)
(* The serving side of the RPC client: handleRequest, the adapter that     *)
(* calls the method (wshadapter.go) and RpcResponseHandler.  A call is     *)
(* answered by the goroutine that runs its method.  A stream is answered   *)
(* by a goroutine of the adapter, and finished by it or by a second one    *)
(* that waits for the deadline, whichever comes first, or by both.  What a *)
(* method returns is numbered; only the order and the end matter.          *)
(***************************************************************************)
EXTENDS Naturals, Sequences

CONSTANTS Calls, Streams,      \* the requests, by their request id
          Late,                \* those whose deadline may pass while they are served
          Canceled,            \* those that a cancel message may name
          MaxItems,            \* the most that a stream has to send
          OutputChSize

Requests == Calls \cup Streams
Final == 0                     \* a response without cont, a value or an error
Unencodable == MaxItems + 1    \* in place of a value that json.Marshal refused

ASSUME HandlerAssumption ==
    /\ Calls \cap Streams = {} /\ Late \subseteq Requests /\ Canceled \subseteq Requests
    /\ MaxItems \in Nat /\ OutputChSize \in Nat \ {0}

VARIABLES
    ResponseHandlerMap,  \* the requests that a cancel message reaches
    ctx,                 \* request -> its context: none, live, expired or canceled
    done, canceled,      \* request -> the flags of its handler
    at,                  \* thread -> where it is, what it sends, and whether that is for Finalize
    items,               \* request -> how many items its method has produced
    OutputCh, outputOpen,
    sent                 \* request -> what became of its responses, in order: put on the output channel,
                         \* or Unencodable

vars == <<ResponseHandlerMap, ctx, done, canceled, at, items, OutputCh, outputOpen, sent>>
handlerVars == <<ResponseHandlerMap, ctx, done, canceled>>
outVars == <<OutputCh, outputOpen, sent>>

\* The goroutine that produces the responses of r, and the one that waits for its context.
Main(r)  == <<r, "main">>
Timer(r) == <<r, "timer">>
Threads  == Requests \X {"main", "timer"}

Messages == (1 .. MaxItems) \cup {Final}
Item(msg) == [pc |-> "check", msg |-> msg, finalizing |-> FALSE]
Finalizing == [pc |-> "finalize", msg |-> Final, finalizing |-> TRUE]
Producing == [pc |-> "produce", msg |-> Final, finalizing |-> FALSE]

TypeOK ==
    /\ ResponseHandlerMap \subseteq Requests
    /\ ctx \in [Requests -> {"none", "live", "expired", "canceled"}]
    /\ done \in [Requests -> BOOLEAN] /\ canceled \in [Requests -> BOOLEAN]
    /\ at \in [Threads -> [pc : {"idle", "produce", "check", "select", "close", "done", "finalize", "wait", "over"},
                           msg : Messages, finalizing : BOOLEAN]]
    /\ items \in [Requests -> 0 .. MaxItems]
    /\ OutputCh \in Seq(Requests \X Messages) /\ Len(OutputCh) <= OutputChSize
    /\ outputOpen \in BOOLEAN
    /\ sent \in [Requests -> Seq(Messages \cup {Unencodable})]

Init ==
    /\ ResponseHandlerMap = {}
    /\ ctx = [r \in Requests |-> "none"]
    /\ done = [r \in Requests |-> FALSE] /\ canceled = [r \in Requests |-> FALSE]
    /\ at = [t \in Threads |-> [pc |-> "idle", msg |-> Final, finalizing |-> FALSE]]
    /\ items = [r \in Requests |-> 0]
    /\ OutputCh = <<>> /\ outputOpen = TRUE
    /\ sent = [r \in Requests |-> <<>>]

Over(r) == ctx[r] \in {"expired", "canceled"}
Become(t, g) == at' = [at EXCEPT ![t] = g]
GoTo(t, pc) == at' = [at EXCEPT ![t].pc = pc]

-----------------------------------------------------------------------------
(* handleRequestInternal and the adapter.                                  *)

\* A request arrives: its handler is registered and its deadline set.
Arrive(r) ==
    /\ at[Main(r)].pc = "idle"
    /\ ResponseHandlerMap' = ResponseHandlerMap \cup {r}
    /\ ctx' = [ctx EXCEPT ![r] = "live"]
    /\ at' = [at EXCEPT ![Main(r)] = Producing, ![Timer(r)].pc = IF r \in Streams THEN "wait" ELSE "over"]
    /\ UNCHANGED <<done, canceled, items, outVars>>

\* The method of a call returns a value or an error, or panics; a stream gives an error.
ProduceLast(r) ==
    /\ at[Main(r)].pc = "produce"
    /\ Become(Main(r), Item(Final))
    /\ UNCHANGED <<handlerVars, items, outVars>>

\* The channel of a stream gives an item.
ProduceItem(r) ==
    /\ r \in Streams /\ at[Main(r)].pc = "produce" /\ items[r] < MaxItems
    /\ items' = [items EXCEPT ![r] = @ + 1]
    /\ Become(Main(r), Item(items[r] + 1))
    /\ UNCHANGED <<handlerVars, outVars>>

\* It is closed: the deferred Finalize ends the stream.
ProduceEnd(r) ==
    /\ r \in Streams /\ at[Main(r)].pc = "produce"
    /\ Become(Main(r), Finalizing)
    /\ UNCHANGED <<handlerVars, items, outVars>>

\* The context of a stream is over: the waiting goroutine ends the stream.
TimerFires(r) ==
    /\ at[Timer(r)].pc = "wait" /\ Over(r)
    /\ Become(Timer(r), Finalizing)
    /\ UNCHANGED <<handlerVars, items, outVars>>

-----------------------------------------------------------------------------
(* RpcResponseHandler.                                                     *)

\* Where a thread is after a SendResponse: a stream goes on with its next item, and a last response is
\* followed by Finalize, unless it is Finalize that sent it.
AfterSend(g) ==
    IF g.finalizing THEN [g EXCEPT !.pc = "over"]
    ELSE IF g.msg = Final THEN Finalizing
    ELSE Producing

\* Finalize: the handler is unregistered, always, and a last response is sent unless it is done.
Finalize(t) ==
    LET r == t[1] IN
    /\ at[t].pc = "finalize"
    /\ ResponseHandlerMap' = ResponseHandlerMap \ {r}
    /\ GoTo(t, IF done[r] THEN "over" ELSE "check")
    /\ UNCHANGED <<ctx, done, canceled, items, outVars>>

\* SendResponse and SendResponseError send nothing once done is set.
CheckDone(t) ==
    /\ at[t].pc = "check"
    /\ IF done[t[1]] THEN Become(t, AfterSend(at[t])) ELSE GoTo(t, "select")
    /\ UNCHANGED <<handlerVars, items, outVars>>

\* After the select, a last response is followed by the deferred close.
AfterSelect(t) == IF at[t].msg = Final THEN GoTo(t, "close") ELSE Become(t, AfterSend(at[t]))

\* The select: the message is sent ...
Send(t) ==
    /\ at[t].pc = "select" /\ outputOpen /\ Len(OutputCh) < OutputChSize
    /\ OutputCh' = Append(OutputCh, <<t[1], at[t].msg>>)
    /\ sent' = [sent EXCEPT ![t[1]] = Append(@, at[t].msg)]
    /\ AfterSelect(t)
    /\ UNCHANGED <<handlerVars, items, outputOpen>>

\* A value that cannot be encoded is not sent, and the caller does not look at the error: an item is
\* skipped, and a call is closed unanswered.  Errors and Finalize's nil can always be encoded.
MarshalFails(t) ==
    /\ at[t].pc = "check" /\ ~done[t[1]]
    /\ at[t].msg # Final \/ (t[1] \in Calls /\ ~at[t].finalizing)
    /\ sent' = [sent EXCEPT ![t[1]] = Append(@, Unencodable)]
    /\ AfterSelect(t)
    /\ UNCHANGED <<handlerVars, items, OutputCh, outputOpen>>

\* Mutant: a full channel loses the message.
GiveUp_WhenFull(t) ==
    /\ at[t].pc = "select" /\ (Over(t[1]) \/ ~outputOpen \/ Len(OutputCh) >= OutputChSize)
    /\ AfterSelect(t)
    /\ UNCHANGED <<handlerVars, items, outVars>>

\* Mutant: the deadline does not end the send.
GiveUp_Blocks(t) ==
    /\ at[t].pc = "select" /\ ~outputOpen
    /\ AfterSelect(t)
    /\ UNCHANGED <<handlerVars, items, outVars>>

\* ... or the context is over, or the output channel is closed and the panic recovered.
GiveUp(t) ==
    /\ at[t].pc = "select" /\ (Over(t[1]) \/ ~outputOpen)
    /\ AfterSelect(t)
    /\ UNCHANGED <<handlerVars, items, outVars>>

\* close cancels the context, which wakes the goroutine that waits for it ...
Close(t) ==
    /\ at[t].pc = "close"
    /\ ctx' = [ctx EXCEPT ![t[1]] = IF @ = "live" THEN "canceled" ELSE @]
    /\ GoTo(t, "done")
    /\ UNCHANGED <<ResponseHandlerMap, done, canceled, items, outVars>>

\* Mutant: the handler is not marked as done.
SetDone_Forgets(t) ==
    /\ at[t].pc = "done"
    /\ Become(t, AfterSend(at[t]))
    /\ UNCHANGED <<handlerVars, items, outVars>>

\* ... and then sets done.
SetDone(t) ==
    /\ at[t].pc = "done"
    /\ done' = [done EXCEPT ![t[1]] = TRUE]
    /\ Become(t, AfterSend(at[t]))
    /\ UNCHANGED <<ResponseHandlerMap, ctx, canceled, items, outVars>>

-----------------------------------------------------------------------------
(* runServer, the deadline, and what reads and closes the output channel.  *)

\* A cancel message sets a flag of the handler, if it is registered, and nothing else.
cancelRequest(r) ==
    /\ r \in Canceled /\ ~canceled[r] /\ r \in ResponseHandlerMap
    /\ canceled' = [canceled EXCEPT ![r] = TRUE]
    /\ UNCHANGED <<ResponseHandlerMap, ctx, done, at, items, outVars>>

Expire(r) ==
    /\ r \in Late /\ ctx[r] = "live"
    /\ ctx' = [ctx EXCEPT ![r] = "expired"]
    /\ UNCHANGED <<ResponseHandlerMap, done, canceled, at, items, outVars>>

PeerReceive ==
    /\ OutputCh # <<>>
    /\ OutputCh' = Tail(OutputCh)
    /\ UNCHANGED <<handlerVars, at, items, outputOpen, sent>>

ServerEnds ==
    /\ outputOpen
    /\ outputOpen' = FALSE
    /\ UNCHANGED <<handlerVars, at, items, OutputCh, sent>>

-----------------------------------------------------------------------------
RequestStep(r) ==
    \/ Arrive(r) \/ ProduceLast(r) \/ ProduceItem(r) \/ ProduceEnd(r) \/ TimerFires(r)
ThreadStep(t) ==
    \/ Finalize(t) \/ CheckDone(t) \/ MarshalFails(t) \/ Send(t) \/ GiveUp(t) \/ Close(t) \/ SetDone(t)

Next ==
    \/ \E r \in Requests : RequestStep(r) \/ cancelRequest(r) \/ Expire(r)
    \/ \E t \in Threads : ThreadStep(t)
    \/ PeerReceive \/ ServerEnds

Spec == Init /\ [][Next]_vars

\* Goroutines run, methods return, and deadlines pass where they may; nothing is assumed of the
\* reader of the output channel.
FairSpec ==
    /\ Spec
    /\ \A r \in Requests : WF_vars(RequestStep(r)) /\ WF_vars(Expire(r))
    /\ \A t \in Threads : WF_vars(ThreadStep(t))

-----------------------------------------------------------------------------
(* Properties.                                                             *)

Ended(r) == at[Main(r)].pc = "over" /\ at[Timer(r)].pc = "over"

\* A stream whose deadline has passed while it was served.
LateStream(r) == r \in Streams /\ ctx[r] = "expired"

\* The items of a stream are sent in order, and none is missing between two that are sent but those that
\* cannot be encoded.  Nothing follows the last response of a call ("request already done, cannot send
\* additional response").  A stream is not so lucky: close wakes the goroutine that waits for the context
\* before it sets done, and so two goroutines may each send a last response.  But nothing else follows the
\* first, and there is no third.  A late stream is left out: a deadline drops items.
InOrder ==
    \A r \in Requests : LateStream(r) \/
        \A i \in 1 .. Len(sent[r]) :
            /\ sent[r][i] \in {i, Unencodable, Final}
            /\ sent[r][i] = Final =>
                  /\ i = Len(sent[r]) \/ (r \in Streams /\ i + 1 = Len(sent[r]))
                  /\ \A j \in i .. Len(sent[r]) : sent[r][j] = Final

\* What the caller of r needs to see: a last response.  A call whose value cannot be encoded gets none.
Answered(r) ==
    \E i \in 1 .. Len(sent[r]) : sent[r][i] = Final \/ (r \in Calls /\ sent[r][i] = Unencodable)

\* When the goroutines of a request have ended it is not registered any more, and its last response
\* is sent, unless it was too late, or the client has ended, or it is a call whose value cannot be
\* encoded.  A stream that skips what it cannot encode is ended all the same.
EveryRequestAnswered ==
    \A r \in Requests : Ended(r) =>
        /\ r \notin ResponseHandlerMap
        /\ ctx[r] # "expired" /\ outputOpen => Answered(r)

\* The goroutines of a request end, although nobody may read what they send.
EveryHandlerEnds == \A r \in Requests : at[Main(r)].pc # "idle" ~> Ended(r)
=============================================================================
