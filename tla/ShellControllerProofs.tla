----------------------- MODULE ShellControllerProofs -----------------------
(***************************************************************************)
(* Proofs about ShellController, for any callers, controllers, processes   *)
(* and connections, and any number of edits.                               *)
(***************************************************************************)
EXTENDS ShellController, TLAPS

-----------------------------------------------------------------------------
(* The invariant: what always holds ...                                    *)

\* What a call knows where it is, and where it goes on after a Stop.
ResyncType == [at : {"getController", "checkConn", "sleep", "make", "status"}, force : BOOLEAN,
               stop : BOOLEAN, meta : Conn \cup {None}, ctl : Ctl \cup {None}]
NextType   == ResyncType \cup [at : {"end", "deleteController"}]
StopStatus == {"init", "done"}
CallType   ==
    [at : {"none", "end", "deleteController"}] \cup ResyncType
        \cup [at : {"StopBlockController"}, status : StopStatus, next : NextType]
        \cup [at : {"Stop"}, ctl : Ctl, graceful : BOOLEAN, status : StopStatus, next : NextType]
        \cup [at : {"Stop:wait"}, proc : Proc, ctl : Ctl, status : StopStatus, next : NextType]

RunType ==
    [at : {"none"}]
        \cup [at : {"lock", "status", "unlock"}, ctl : Ctl, force : BOOLEAN, conn : Conn \cup {None}]
        \cup [at : {"setup"}, ctl : Ctl, force : BOOLEAN, conn : Conn]
        \cup [at : {"publish"}, ctl : Ctl, proc : Proc]
        \cup [at : {"input", "route", "unlock"}, ctl : Ctl, proc : Proc \cup {Nobody}]

TypeInv ==
    /\ meta \in Conn \cup {None} /\ edits \in 0 .. MaxEdits
    /\ registry \in Ctl \cup {None} /\ route \in Proc \cup {None, Nobody}
    /\ ctl \in [Ctl -> CtlState \cup {None}]
    /\ proc \in [Proc -> ProcState \cup {None}]
    /\ call \in [Call -> CallType]
    /\ run \in [Call -> RunType]
    /\ raced \subseteq Race

StopAts == {"StopBlockController", "Stop", "Stop:wait"}

\* Controllers that are named were made, and processes were started.
CallNames(f) ==
    /\ f.at = "getController" => f.ctl = None
    /\ f.at \in {"checkConn", "status", "Stop", "Stop:wait"} => f.ctl \in Made
    /\ f.at = "make" /\ f.ctl # None => f.ctl \in Made
    /\ f.at \in StopAts => /\ f.next.at \in {"end", "deleteController", "sleep", "status"}
                           /\ f.next.at = "status" => f.next.ctl \in Made
    /\ f.at = "Stop:wait" => f.proc \in Started /\ proc[f.proc].closing

NamesInv ==
    /\ registry # None => registry \in Made
    /\ \A k \in Made : ctl[k].proc # None => ctl[k].proc \in Started /\ proc[ctl[k].proc].owner = k
    /\ \A p \in Started : proc[p].owner \in Made
    /\ \A c \in Call : CallNames(call[c])
    /\ \A c \in Call : run[c].at # "none" => run[c].ctl \in Made
    /\ \A c \in Call : call[c].at # "end" => run[c] = NoRun

\* A process is done, or is waited for no more, when it has exited only, and is
\* read no more when it was told to end; a controller that says running has one.
LivesInv ==
    /\ \A p \in Started : /\ proc[p].done => proc[p].exited
                          /\ proc[p].wait \in {"unregister", "status", "end"} => proc[p].exited
                          /\ proc[p].read \in {"closed", "end"} => proc[p].closing
    /\ \A k \in Made : ctl[k].status = "running" => ctl[k].proc # None

\* One run() at a time holds a controller's run lock; it publishes a process
\* that it alone has, and the controller is not running meanwhile.
Held(at) == at \in {"status", "setup", "publish", "input", "route", "unlock"}
Holds(c) == Held(run[c].at)

Fresh(k, p) ==
    /\ p \in Started /\ proc[p].owner = k
    /\ proc[p].wait = "none" /\ proc[p].read = "none" /\ ~proc[p].closing
    /\ ctl[k].status # "running"
    /\ \A j \in Made : ctl[j].proc # p

LockInv ==
    /\ \A c \in Call : Holds(c) => ctl[run[c].ctl].runLock
    /\ \A c, d \in Call : Holds(c) /\ Holds(d) /\ run[c].ctl = run[d].ctl => c = d
    /\ \A c \in Call : run[c].at = "publish" => Fresh(run[c].ctl, run[c].proc)
    /\ \A c \in Call : run[c].at \in {"input", "route"} /\ run[c].proc # Nobody =>
          ctl[run[c].ctl].proc = run[c].proc

(* ... and what holds unless controllers or goroutines overlap.            *)

Says(k) == k # None /\ ctl[k].status = "running"

\* The registered controller is the one that calls and runs work on; only it
\* says running, and when it does, nothing is left of an earlier process.
CallSole(f) ==
    /\ f.at \in {"checkConn", "make", "status", "Stop", "Stop:wait"} => f.ctl \in {None, registry}
    /\ f.at \in StopAts => f.next.at # "status"

OneCtl ==
    /\ \A c \in Call : CallSole(call[c])
    /\ \A c \in Call : run[c].at # "none" => run[c].ctl = registry
    /\ \A k \in Made : Says(k) => k = registry
    /\ Says(registry) => \A q \in Started : q # ctl[registry].proc => ~Lingers(q)

\* A process that runs is the controller's, or will be.
OneProc ==
    \A p \in Started : Running(p) =>
       /\ proc[p].owner = registry
       /\ \/ Says(registry) /\ ctl[registry].proc = p
          \/ \E c \in Call : run[c].at = "publish" /\ run[c].proc = p

\* No run() goes on without a process.
NoSecond == \A c \in Call : run[c].at \in {"input", "route"} => run[c].proc # Nobody

\* The process of a controller that says running has its input and its route,
\* or will have, unless it was told to end; when it has ended, the status will
\* follow.
Served(p) ==
    /\ Running(p) => /\ \/ route = p
                        \/ \E c \in Call : run[c].at \in {"input", "route"} /\ run[c].proc = p
                     /\ \/ ctl[registry].input = p
                        \/ \E c \in Call : run[c].at = "input" /\ run[c].proc = p
    /\ proc[p].wait # "end"

AllServed == Says(registry) => Served(ctl[registry].proc)

Always == TypeInv /\ NamesInv /\ LivesInv /\ LockInv

Alone   == raced \subseteq {"second", "lostStop"} => OneCtl /\ OneProc
InOrder == raced \subseteq {"lostStop"} => NoSecond /\ AllServed

IInv == Always /\ Alone /\ InOrder

-----------------------------------------------------------------------------
(* Types and updates                                                       *)

\* What a call, or a run(), knows where it is.
LEMMA CallFields ==
    ASSUME NEW f \in CallType
    PROVE  /\ f.at \in {"getController", "checkConn", "sleep", "make", "status"} => f \in ResyncType
           /\ f.at = "StopBlockController" => f.status \in StopStatus /\ f.next \in NextType
           /\ f.at = "Stop" => /\ f.ctl \in Ctl /\ f.graceful \in BOOLEAN
                               /\ f.status \in StopStatus /\ f.next \in NextType
           /\ f.at = "Stop:wait" => /\ f.proc \in Proc /\ f.ctl \in Ctl
                                    /\ f.status \in StopStatus /\ f.next \in NextType
<1>1. CASE f \in [at : {"none", "end", "deleteController"}]
  BY <1>1
<1>2. CASE f \in ResyncType
  BY <1>2 DEF ResyncType
<1>3. CASE f \in [at : {"StopBlockController"}, status : StopStatus, next : NextType]
  BY <1>3
<1>4. CASE f \in [at : {"Stop"}, ctl : Ctl, graceful : BOOLEAN, status : StopStatus, next : NextType]
  BY <1>4
<1>5. CASE f \in [at : {"Stop:wait"}, proc : Proc, ctl : Ctl, status : StopStatus, next : NextType]
  BY <1>5
<1>6. QED
  BY <1>1, <1>2, <1>3, <1>4, <1>5, Zenon DEF CallType

LEMMA RunFields ==
    ASSUME NEW r \in RunType
    PROVE  /\ r.at = "none" \/ Held(r.at) \/ r.at = "lock"
           /\ r.at # "none" => r.ctl \in Ctl
           /\ r.at = "none" => r = NoRun
           /\ r.at \in {"lock", "status"} =>
                 r \in [at : {"lock", "status"}, ctl : Ctl, force : BOOLEAN, conn : Conn \cup {None}]
           /\ r.at = "setup" => r \in [at : {"setup"}, ctl : Ctl, force : BOOLEAN, conn : Conn]
           /\ r.at = "publish" => r \in [at : {"publish"}, ctl : Ctl, proc : Proc]
           /\ r.at \in {"input", "route"} =>
                 r \in [at : {"input", "route"}, ctl : Ctl, proc : Proc \cup {Nobody}]
<1>1. CASE r \in [at : {"none"}]
  BY <1>1 DEF NoRun
<1>2. CASE r \in [at : {"lock", "status", "unlock"}, ctl : Ctl, force : BOOLEAN, conn : Conn \cup {None}]
  BY <1>2 DEF Held
<1>3. CASE r \in [at : {"setup"}, ctl : Ctl, force : BOOLEAN, conn : Conn]
  BY <1>3 DEF Held
<1>4. CASE r \in [at : {"publish"}, ctl : Ctl, proc : Proc]
  BY <1>4 DEF Held
<1>5. CASE r \in [at : {"input", "route", "unlock"}, ctl : Ctl, proc : Proc \cup {Nobody}]
  BY <1>5 DEF Held
<1>6. QED
  BY <1>1, <1>2, <1>3, <1>4, <1>5, Zenon DEF RunType

\* A call, a run(), a controller or a process changes, and no other does.
LEMMA CallUpdate ==
    ASSUME TypeInv, NEW c \in Call, NEW f \in CallType, Goto(c, f)
    PROVE  /\ call' \in [Call -> CallType]
           /\ call'[c] = f
           /\ \A d \in Call : d # c => call'[d] = call[d]
BY DEF TypeInv, Goto

LEMMA RunUpdate ==
    ASSUME TypeInv, NEW c \in Call, NEW r \in RunType, RunGoto(c, r)
    PROVE  /\ run' \in [Call -> RunType]
           /\ run'[c] = r
           /\ \A d \in Call : d # c => run'[d] = run[d]
BY DEF TypeInv, RunGoto

LEMMA CtlUpdate ==
    ASSUME TypeInv, NEW k \in Made, NEW s \in CtlState, ctl' = [ctl EXCEPT ![k] = s]
    PROVE  /\ ctl' \in [Ctl -> CtlState \cup {None}]
           /\ Made' = Made
           /\ ctl'[k] = s
           /\ \A j \in Ctl : j # k => ctl'[j] = ctl[j]
<1>1. k \in Ctl /\ ctl[k] # None /\ s # None
  BY ShellAssumption DEF Made
<1>2. /\ ctl' \in [Ctl -> CtlState \cup {None}] /\ ctl'[k] = s
      /\ \A j \in Ctl : j # k => ctl'[j] = ctl[j]
  BY <1>1 DEF TypeInv
<1>3. QED
  BY <1>1, <1>2 DEF Made

LEMMA ProcUpdate ==
    ASSUME TypeInv, NEW p \in Started, NEW s \in ProcState, proc' = [proc EXCEPT ![p] = s]
    PROVE  /\ proc' \in [Proc -> ProcState \cup {None}]
           /\ Started' = Started
           /\ proc'[p] = s
           /\ \A q \in Proc : q # p => proc'[q] = proc[q]
<1>1. p \in Proc /\ proc[p] # None /\ s # None
  BY ShellAssumption DEF Started
<1>2. /\ proc' \in [Proc -> ProcState \cup {None}] /\ proc'[p] = s
      /\ \A q \in Proc : q # p => proc'[q] = proc[q]
  BY <1>1 DEF TypeInv
<1>3. QED
  BY <1>1, <1>2 DEF Started

LEMMA States ==
    ASSUME TypeInv
    PROVE  /\ \A k \in Made : k \in Ctl /\ ctl[k] \in CtlState
           /\ \A p \in Started : p \in Proc /\ proc[p] \in ProcState
BY DEF TypeInv, Made, Started
LEMMA CallKinds ==
    /\ NoCall \in CallType /\ End \in NextType /\ End \in CallType
    /\ ResyncType \subseteq CallType /\ ResyncType \subseteq NextType
    /\ NextType \subseteq CallType
    /\ \A s \in StopStatus, f \in NextType : Stopping(s, f) \in CallType
    /\ \A k \in Ctl, g \in BOOLEAN, s \in StopStatus, f \in NextType :
          [at |-> "Stop", ctl |-> k, graceful |-> g, status |-> s, next |-> f] \in CallType
    /\ \A p \in Proc, k \in Ctl, s \in StopStatus, f \in NextType :
          [at |-> "Stop:wait", proc |-> p, ctl |-> k, status |-> s, next |-> f] \in CallType
<1>1. /\ NoCall \in [at : {"none", "end", "deleteController"}]
      /\ End \in [at : {"none", "end", "deleteController"}]
      /\ End \in [at : {"end", "deleteController"}]
  BY DEF NoCall, End
<1>2. [at : {"end", "deleteController"}] \subseteq [at : {"none", "end", "deleteController"}]
  OBVIOUS
<1>3. ResyncType \subseteq CallType /\ ResyncType \subseteq NextType /\ NextType \subseteq CallType
  BY <1>2, Zenon DEF NextType, CallType
<1>4. ASSUME NEW s \in StopStatus, NEW f \in NextType
      PROVE  Stopping(s, f) \in [at : {"StopBlockController"}, status : StopStatus, next : NextType]
  BY DEF Stopping
<1>5. ASSUME NEW k \in Ctl, NEW g \in BOOLEAN, NEW s \in StopStatus, NEW f \in NextType
      PROVE  [at |-> "Stop", ctl |-> k, graceful |-> g, status |-> s, next |-> f]
                \in [at : {"Stop"}, ctl : Ctl, graceful : BOOLEAN, status : StopStatus, next : NextType]
  OBVIOUS
<1>6. ASSUME NEW p \in Proc, NEW k \in Ctl, NEW s \in StopStatus, NEW f \in NextType
      PROVE  [at |-> "Stop:wait", proc |-> p, ctl |-> k, status |-> s, next |-> f]
                \in [at : {"Stop:wait"}, proc : Proc, ctl : Ctl, status : StopStatus, next : NextType]
  OBVIOUS
<1>7. NoCall \in CallType /\ End \in NextType /\ End \in CallType
  BY <1>1, Zenon DEF NextType, CallType
<1>8. QED
  BY <1>3, <1>4, <1>5, <1>6, <1>7, Zenon DEF CallType

LEMMA RunKinds ==
    /\ NoRun \in RunType
    /\ [at : {"lock", "status", "unlock"}, ctl : Ctl, force : BOOLEAN, conn : Conn \cup {None}] \subseteq RunType
    /\ [at : {"setup"}, ctl : Ctl, force : BOOLEAN, conn : Conn] \subseteq RunType
    /\ [at : {"publish"}, ctl : Ctl, proc : Proc] \subseteq RunType
    /\ [at : {"input", "route", "unlock"}, ctl : Ctl, proc : Proc \cup {Nobody}] \subseteq RunType
<1>1. NoRun \in [at : {"none"}]
  BY DEF NoRun
<1>2. QED
  BY <1>1, Zenon DEF RunType

-----------------------------------------------------------------------------
(* Steps                                                                   *)

\* A call goes from one place to another, and nothing else changes.
LEMMA CallChange ==
    ASSUME IInv, NEW c \in Call, NEW f \in CallType, Goto(c, f),
           ~(call[c].at \in {"end", "Stop:wait"}),
           UNCHANGED <<meta, edits, registry, ctl, proc, route, run, raced>>,
           CallNames(f), OneCtl => CallSole(f)
    PROVE  IInv'
<1>0. TypeInv /\ NamesInv /\ LivesInv /\ LockInv
  BY DEF IInv, Always
<1>1. /\ call' \in [Call -> CallType] /\ call'[c] = f
      /\ \A d \in Call : d # c => call'[d] = call[d]
  BY <1>0, CallUpdate
<1>2. TypeInv'
  BY <1>0, <1>1 DEF TypeInv
<1>3. NamesInv'
  <2>1. ASSUME NEW d \in Call
        PROVE  CallNames(call[d])'
    <3>1. CASE d = c
      BY <3>1, <1>1 DEF CallNames, Made, Started
    <3>2. CASE d # c
      BY <3>2, <1>0, <1>1 DEF NamesInv, CallNames, Made, Started
    <3>3. QED
      BY <3>1, <3>2
  <2>2. ASSUME NEW d \in Call, call'[d].at # "end"
        PROVE  run'[d] = NoRun
    BY <2>2, <1>0, <1>1 DEF NamesInv
  <2>3. QED
    BY <2>1, <2>2, <1>0 DEF NamesInv, Made, Started
<1>4. LivesInv' /\ LockInv'
  BY <1>0 DEF LivesInv, LockInv, Made, Started, Holds, Fresh
<1>5. Alone'
  <2>1. SUFFICES ASSUME raced \subseteq {"second", "lostStop"}
                 PROVE  OneCtl' /\ OneProc'
    BY DEF Alone
  <2>2. OneCtl /\ OneProc
    BY <2>1 DEF IInv, Alone
  <2>3. ASSUME NEW d \in Call
        PROVE  CallSole(call[d])'
    <3>1. CASE d = c
      BY <3>1, <2>2, <1>1 DEF CallSole
    <3>2. CASE d # c
      BY <3>2, <2>2, <1>1 DEF OneCtl, CallSole
    <3>3. QED
      BY <3>1, <3>2
  <2>4. QED
    BY <2>2, <2>3 DEF OneCtl, OneProc, Says, Made, Started, Lingers, Running, Alive
<1>6. InOrder'
  <2>1. SUFFICES ASSUME raced \subseteq {"lostStop"}
                 PROVE  NoSecond' /\ AllServed'
    BY DEF InOrder
  <2>2. NoSecond /\ AllServed
    BY <2>1 DEF IInv, InOrder
  <2>3. ASSUME NEW d \in Call, call[d].at = "Stop:wait"
        PROVE  call'[d].at = "Stop:wait"
    BY <2>3, <1>1
  <2>4. QED
    BY <2>2, <2>3 DEF NoSecond, AllServed, Served, Says, Started, Running, Alive
<1>7. QED
  BY <1>2, <1>3, <1>4, <1>5, <1>6 DEF IInv, Always
\* Behind a Stop there is nothing that names a controller but a made one.
LEMMA NextGood ==
    ASSUME NEW f, CallNames(f), f.at \in StopAts
    PROVE  CallNames(f.next) /\ (CallSole(f) => CallSole(f.next))
BY DEF CallNames, CallSole, StopAts

LEMMA FoundGood ==
    ASSUME TypeInv, NamesInv, NEW s \in StopStatus, NEW f \in NextType, CallNames(Stopping(s, f))
    PROVE  /\ Found(Stopping(s, f)) \in CallType
           /\ CallNames(Found(Stopping(s, f)))
           /\ CallSole(Stopping(s, f)) => CallSole(Found(Stopping(s, f)))
<1> DEFINE g == Stopping(s, f)
<1>1. g.at = "StopBlockController" /\ g.status = s /\ g.next = f /\ g.at \in StopAts
  BY DEF Stopping, StopAts
<1>2. CASE registry = None
  <2>1. Found(g) = f
    BY <1>1, <1>2 DEF Found
  <2>2. QED
    BY <1>1, <2>1, NextGood, CallKinds, Zenon
<1>3. CASE registry # None
  <2>1. registry \in Made /\ registry \in Ctl
    BY <1>3 DEF NamesInv, Made
  <2>2. Found(g) = [at |-> "Stop", ctl |-> registry, graceful |-> TRUE, status |-> s, next |-> f]
    BY <1>1, <1>3 DEF Found
  <2>3. Found(g) \in CallType
    BY <2>1, <2>2, CallKinds, Zenon
  <2>4. CallNames(Found(g)) /\ (CallSole(g) => CallSole(Found(g)))
    BY <1>1, <2>1, <2>2 DEF CallNames, CallSole, StopAts
  <2>5. QED
    BY <2>3, <2>4
<1>4. QED
  BY <1>2, <1>3

LEMMA RestartGood ==
    ASSUME NEW f \in ResyncType, f.ctl \in Made \cup {None}
    PROVE  /\ Restart(f) \in CallType
           /\ CallNames(Restart(f))
           /\ f.ctl \in {None, registry} => CallSole(Restart(f))
<1>1. CASE f.stop /\ f.ctl # None
  <2> DEFINE g == [f EXCEPT !.at = "sleep", !.stop = FALSE]
  <2>1. g \in ResyncType /\ g.at = "sleep"
    BY DEF ResyncType
  <2>2. Restart(f) = Stopping("done", g)
    BY <1>1 DEF Restart
  <2>3. Restart(f) \in CallType
    BY <2>1, <2>2, CallKinds DEF StopStatus
  <2>4. CallNames(Stopping("done", g)) /\ CallSole(Stopping("done", g))
    BY <2>1 DEF Stopping, CallNames, CallSole, StopAts
  <2>5. QED
    BY <2>2, <2>3, <2>4
<1>2. CASE ~(f.stop /\ f.ctl # None)
  <2> DEFINE g == [f EXCEPT !.at = "make"]
  <2>1. g \in ResyncType /\ g.at = "make" /\ g.ctl = f.ctl
    BY DEF ResyncType
  <2>2. Restart(f) = g
    BY <1>2 DEF Restart
  <2>3. CallNames(g) /\ (f.ctl \in {None, registry} => CallSole(g))
    BY <2>1 DEF CallNames, CallSole, StopAts
  <2>4. QED
    BY <2>1, <2>2, <2>3, CallKinds
<1>3. QED
  BY <1>1, <1>2

LEMMA BeginResyncStep ==
    ASSUME IInv, NEW c \in Call, BeginResync(c)
    PROVE  IInv'
<1>0. TypeInv
  BY DEF IInv, Always
<1>1. PICK force \in BOOLEAN : Goto(c, [at |-> "getController", force |-> force, stop |-> force,
                                        meta |-> meta, ctl |-> None])
  BY DEF BeginResync
<1> DEFINE f == [at |-> "getController", force |-> force, stop |-> force, meta |-> meta, ctl |-> None]
<1>2. f \in ResyncType
  BY <1>0 DEF TypeInv, ResyncType
<1>3. CallNames(f) /\ CallSole(f)
  BY DEF CallNames, CallSole, StopAts
<1>4. ~(call[c].at \in {"end", "Stop:wait"})
  BY DEF BeginResync, NoCall
<1>5. f \in CallType
  BY <1>2, CallKinds
<1>6. UNCHANGED <<meta, edits, registry, ctl, proc, route, run, raced>>
  BY DEF BeginResync
<1> HIDE DEF f
<1>7. QED
  BY <1>1, <1>3, <1>4, <1>5, <1>6, CallChange DEF f

LEMMA BeginStopStep ==
    ASSUME IInv, NEW c \in Call, BeginStop(c)
    PROVE  IInv'
<1>0. TypeInv /\ NamesInv
  BY DEF IInv, Always
<1> DEFINE f == Found(Stopping("done", End))
<1>1. CallNames(Stopping("done", End)) /\ CallSole(Stopping("done", End))
  BY DEF Stopping, End, CallNames, CallSole, StopAts
<1>2. "done" \in StopStatus /\ End \in NextType
  BY CallKinds DEF StopStatus
<1>3. f \in CallType /\ CallNames(f) /\ CallSole(f)
  BY <1>0, <1>1, <1>2, FoundGood
<1>4. ~(call[c].at \in {"end", "Stop:wait"})
  BY DEF BeginStop, NoCall
<1>5. Goto(c, f) /\ UNCHANGED <<meta, edits, registry, ctl, proc, route, run, raced>>
  BY DEF BeginStop
<1> HIDE DEF f
<1>6. QED
  BY <1>3, <1>4, <1>5, CallChange

LEMMA StopBlockControllerStep ==
    ASSUME IInv, NEW c \in Call, StopBlockController(c)
    PROVE  IInv'
<1>0. TypeInv /\ NamesInv /\ call[c] \in CallType /\ call[c].at = "StopBlockController"
  BY DEF IInv, Always, TypeInv, StopBlockController
<1> DEFINE g == call[c]
           f == Found(g)
<1>1. g.status \in StopStatus /\ g.next \in NextType
  BY <1>0, CallFields
<1>2. CallNames(g) /\ (OneCtl => CallSole(g))
  BY <1>0 DEF NamesInv, OneCtl
<1>3. Found(g) = Found(Stopping(g.status, g.next))
  BY DEF Found, Stopping
<1>4. /\ CallNames(Stopping(g.status, g.next))
      /\ CallSole(g) => CallSole(Stopping(g.status, g.next))
  BY <1>0, <1>2 DEF Stopping, CallNames, CallSole, StopAts
<1>5. /\ f \in CallType /\ CallNames(f)
      /\ CallSole(Stopping(g.status, g.next)) => CallSole(f)
  <2> HIDE DEF g
  <2>1. QED
    BY <1>0, <1>1, <1>3, <1>4, FoundGood
<1>6. ~(call[c].at \in {"end", "Stop:wait"})
  BY <1>0
<1>7. Goto(c, f) /\ UNCHANGED <<meta, edits, registry, ctl, proc, route, run, raced>>
  BY DEF StopBlockController
<1> HIDE DEF f, g
<1>8. QED
  BY <1>2, <1>4, <1>5, <1>6, <1>7, CallChange

LEMMA GetControllerStep ==
    ASSUME IInv, NEW c \in Call, GetController(c)
    PROVE  IInv'
<1>0. /\ TypeInv /\ NamesInv /\ call[c] \in CallType /\ call[c].at = "getController"
      /\ call[c] \in ResyncType
  BY CallFields DEF IInv, Always, TypeInv, GetController
<1>1. UNCHANGED <<meta, edits, registry, ctl, proc, route, run, raced>>
  BY DEF GetController
<1>2. /\ registry # None => registry \in Made /\ registry \in Ctl
      /\ call[c].ctl \in Ctl \cup {None}
  BY <1>0 DEF NamesInv, Made, ResyncType
<1>3. PICK f : /\ Goto(c, f)
               /\ \/ f = End
                  \/ f = Stopping("done", [at |-> "deleteController"])
                  \/ f = [call[c] EXCEPT !.at = "make"] /\ registry = None
                  \/ f = [call[c] EXCEPT !.at = "checkConn", !.ctl = registry] /\ registry # None
  BY <1>0 DEF GetController
<1>4. CASE f = End
  BY <1>0, <1>1, <1>3, <1>4, CallChange, CallKinds DEF End, CallNames, CallSole, StopAts
<1>5. CASE f = Stopping("done", [at |-> "deleteController"])
  <2>1. [at |-> "deleteController"] \in NextType
    <3>1. [at |-> "deleteController"] \in [at : {"end", "deleteController"}]
      OBVIOUS
    <3>2. QED
      BY <3>1, Zenon DEF NextType
  <2>2. f \in CallType
    BY <1>5, <2>1, CallKinds DEF StopStatus
  <2>3. CallNames(f) /\ CallSole(f)
    BY <1>5 DEF Stopping, CallNames, CallSole, StopAts
  <2>4. QED
    BY <1>0, <1>1, <1>3, <2>2, <2>3, CallChange
<1>6. CASE f = [call[c] EXCEPT !.at = "make"] /\ registry = None
  <2>1. f \in ResyncType /\ f.at = "make" /\ f.ctl = call[c].ctl
    BY <1>0, <1>6 DEF ResyncType
  <2>2. call[c].ctl = None
    BY <1>0 DEF NamesInv, CallNames
  <2>3. CallNames(f) /\ CallSole(f)
    BY <2>1, <2>2 DEF CallNames, CallSole, StopAts
  <2>4. f \in CallType
    BY <2>1, CallKinds
  <2>5. QED
    BY <1>0, <1>1, <1>3, <2>3, <2>4, CallChange
<1>7. CASE f = [call[c] EXCEPT !.at = "checkConn", !.ctl = registry] /\ registry # None
  <2>1. f \in ResyncType /\ f.at = "checkConn" /\ f.ctl = registry
    BY <1>0, <1>2, <1>7 DEF ResyncType
  <2>2. CallNames(f) /\ CallSole(f)
    BY <1>2, <1>7, <2>1 DEF CallNames, CallSole, StopAts
  <2>3. f \in CallType
    BY <2>1, CallKinds
  <2>4. QED
    BY <1>0, <1>1, <1>3, <2>2, <2>3, CallChange
<1>8. QED
  BY <1>3, <1>4, <1>5, <1>6, <1>7
LEMMA CheckConnStep ==
    ASSUME IInv, NEW c \in Call, CheckConn(c)
    PROVE  IInv'
<1>0. /\ TypeInv /\ NamesInv /\ call[c] \in CallType /\ call[c].at = "checkConn"
      /\ call[c] \in ResyncType
  BY CallFields DEF IInv, Always, TypeInv, CheckConn
<1>1. UNCHANGED <<meta, edits, registry, ctl, proc, route, run, raced>>
  BY DEF CheckConn
<1>2. call[c].ctl \in Made /\ (OneCtl => call[c].ctl \in {None, registry})
  BY <1>0 DEF NamesInv, CallNames, OneCtl, CallSole
<1>3. PICK f : /\ Goto(c, f)
               /\ f = Stopping("init", [call[c] EXCEPT !.at = "sleep"]) \/ f = Restart(call[c])
  BY <1>0 DEF CheckConn
<1>4. CASE f = Stopping("init", [call[c] EXCEPT !.at = "sleep"])
  <2> DEFINE g == [call[c] EXCEPT !.at = "sleep"]
  <2>1. g \in ResyncType /\ g.at = "sleep"
    BY <1>0 DEF ResyncType
  <2>2. f \in CallType
    BY <1>4, <2>1, CallKinds DEF StopStatus
  <2>3. CallNames(f) /\ CallSole(f)
    BY <1>4, <2>1 DEF Stopping, CallNames, CallSole, StopAts
  <2>4. QED
    BY <1>0, <1>1, <1>3, <2>2, <2>3, CallChange
<1>5. CASE f = Restart(call[c])
  <2>1. f \in CallType /\ CallNames(f) /\ (OneCtl => CallSole(f))
    BY <1>0, <1>2, <1>5, RestartGood
  <2>2. QED
    BY <1>0, <1>1, <1>3, <2>1, CallChange
<1>6. QED
  BY <1>3, <1>4, <1>5

LEMMA SleepStep ==
    ASSUME IInv, NEW c \in Call, Sleep(c)
    PROVE  IInv'
<1>0. /\ TypeInv /\ NamesInv /\ call[c] \in CallType /\ call[c].at = "sleep"
      /\ call[c] \in ResyncType
  BY CallFields DEF IInv, Always, TypeInv, Sleep
<1>1. UNCHANGED <<meta, edits, registry, ctl, proc, route, run, raced>>
  BY DEF Sleep
<1> DEFINE g == [call[c] EXCEPT !.ctl = registry]
           f == Restart(g)
<1>2. registry \in Made \cup {None} /\ registry \in Ctl \cup {None}
  BY <1>0 DEF NamesInv, TypeInv
<1>3. g \in ResyncType /\ g.ctl = registry
  BY <1>0, <1>2 DEF ResyncType
<1>4. Goto(c, f)
  BY DEF Sleep
<1>5. f \in CallType /\ CallNames(f) /\ CallSole(f)
  <2> HIDE DEF g
  <2>1. QED
    BY <1>2, <1>3, RestartGood
<1> HIDE DEF f
<1>6. QED
  BY <1>0, <1>1, <1>4, <1>5, CallChange

LEMMA SetMetaStep ==
    ASSUME IInv, SetMeta
    PROVE  IInv'
<1>0. TypeInv /\ NamesInv /\ LivesInv /\ LockInv /\ Alone /\ InOrder
  BY DEF IInv, Always
<1>1. TypeInv'
  BY <1>0, ShellAssumption DEF TypeInv, SetMeta
<1>2. UNCHANGED <<registry, ctl, proc, route, call, run, raced>>
  BY DEF SetMeta
<1>3. NamesInv' /\ LivesInv' /\ LockInv'
  BY <1>0, <1>2 DEF NamesInv, CallNames, LivesInv, LockInv, Made, Started, Holds, Fresh
<1>4. Alone'
  BY <1>0, <1>2 DEF Alone, OneCtl, CallSole, OneProc, Says, Made, Started, Lingers, Running, Alive
<1>5. InOrder'
  BY <1>0, <1>2 DEF InOrder, NoSecond, AllServed, Served, Says, Started, Running, Alive
<1>6. QED
  BY <1>1, <1>3, <1>4, <1>5 DEF IInv, Always

\* A process goes on, in ways that only it and its goroutines see.
LEMMA ProcChange ==
    ASSUME IInv, NEW p \in Started, NEW s \in ProcState, proc' = [proc EXCEPT ![p] = s],
           UNCHANGED <<meta, edits, registry, ctl, route, call, run, raced>>,
           s.owner = proc[p].owner, s.closing = proc[p].closing, s.read = proc[p].read,
           proc[p].exited => s.exited, s.done => s.exited,
           s.wait = proc[p].wait \/ (proc[p].wait = "waiting" /\ s.wait = "unregister" /\ s.exited)
    PROVE  IInv'
<1>0. TypeInv /\ NamesInv /\ LivesInv /\ LockInv
  BY DEF IInv, Always
<1>1. /\ proc' \in [Proc -> ProcState \cup {None}] /\ Started' = Started /\ proc'[p] = s
      /\ \A q \in Proc : q # p => proc'[q] = proc[q]
  BY <1>0, ProcUpdate
<1>2. p \in Proc /\ \A q \in Started : q \in Proc
  BY DEF Started
<1>3. TypeInv'
  BY <1>0, <1>1 DEF TypeInv
<1>4. \A q \in Started : /\ proc'[q].owner = proc[q].owner /\ proc'[q].closing = proc[q].closing
                         /\ proc[q].exited => proc'[q].exited
                         /\ proc'[q].read = proc[q].read
                         /\ proc[q].wait = "none" => proc'[q].wait = "none"
                         /\ Lingers(q)' <=> Lingers(q)
                         /\ Running(q)' => Running(q)
                         /\ proc[q].wait # "end" => proc'[q].wait # "end"
  <2>1. ASSUME NEW q \in Started
        PROVE  /\ proc'[q].owner = proc[q].owner /\ proc'[q].closing = proc[q].closing
               /\ proc[q].exited => proc'[q].exited
               /\ proc'[q].read = proc[q].read
               /\ proc[q].wait = "none" => proc'[q].wait = "none"
               /\ Lingers(q)' <=> Lingers(q)
               /\ Running(q)' => Running(q)
               /\ proc[q].wait # "end" => proc'[q].wait # "end"
    <3>1. CASE q = p
      BY <3>1, <1>1 DEF Lingers, Running, Alive
    <3>2. CASE q # p
      BY <3>2, <1>1, <1>2 DEF Lingers, Running, Alive
    <3>3. QED
      BY <3>1, <3>2
  <2>2. QED
    BY <2>1
<1>5. NamesInv'
  <2>1. ASSUME NEW d \in Call
        PROVE  CallNames(call[d])'
    BY <1>0, <1>1, <1>4 DEF NamesInv, CallNames, Made
  <2>2. QED
    BY <2>1, <1>0, <1>1, <1>4 DEF NamesInv, Made
<1>6. LivesInv'
  <2>1. ASSUME NEW q \in Started
        PROVE  /\ proc'[q].done => proc'[q].exited
               /\ proc'[q].wait \in {"unregister", "status", "end"} => proc'[q].exited
    <3>1. CASE q = p
      BY <3>1, <1>0, <1>1 DEF LivesInv
    <3>2. CASE q # p
      BY <3>2, <1>0, <1>1, <1>2 DEF LivesInv
    <3>3. QED
      BY <3>1, <3>2
  <2>2. QED
    BY <2>1, <1>0, <1>1 DEF LivesInv, Made
<1>7. LockInv'
  <2>1. ASSUME NEW d \in Call, run[d].at = "publish"
        PROVE  Fresh(run[d].ctl, run[d].proc)'
    BY <2>1, <1>0, <1>1, <1>4 DEF LockInv, Fresh, Made
  <2>2. QED
    BY <2>1, <1>0 DEF LockInv, Holds
<1>8. Alone'
  <2>1. SUFFICES ASSUME raced \subseteq {"second", "lostStop"}
                 PROVE  OneCtl' /\ OneProc'
    BY DEF Alone
  <2>2. OneCtl /\ OneProc
    BY <2>1 DEF IInv, Alone
  <2>3. OneCtl'
    BY <2>2, <1>1, <1>4 DEF OneCtl, CallSole, Says, Made
  <2>4. OneProc'
    BY <2>2, <1>1, <1>4 DEF OneProc, Says
  <2>5. QED
    BY <2>3, <2>4
<1>9. InOrder'
  <2>1. SUFFICES ASSUME raced \subseteq {"lostStop"}
                 PROVE  NoSecond' /\ AllServed'
    BY DEF InOrder
  <2>2. NoSecond /\ AllServed
    BY <2>1 DEF IInv, InOrder
  <2>3. ASSUME Says(registry)
        PROVE  Served(ctl[registry].proc)'
    <3>1. PICK q \in Started : q = ctl[registry].proc
      BY <2>3, <1>0 DEF Says, NamesInv, LivesInv
    <3>2. Served(q)
      BY <2>2, <2>3, <3>1 DEF AllServed
    <3>3. Served(q)'
      BY <3>2, <1>4 DEF Served
    <3>4. QED
      BY <3>1, <3>3
  <2>4. QED
    BY <2>2, <2>3 DEF NoSecond, AllServed, Says
<1>10. QED
  BY <1>3, <1>5, <1>6, <1>7, <1>8, <1>9 DEF IInv, Always
LEMMA ExitStep ==
    ASSUME IInv, NEW p \in Proc, Exit(p)
    PROVE  IInv'
<1>0. TypeInv /\ LivesInv /\ p \in Started
  BY DEF IInv, Always, Exit, Alive
<1>1. PICK s : s = [proc[p] EXCEPT !.exited = TRUE]
  OBVIOUS
<1>2. proc[p] \in ProcState
  BY <1>0, States
<1>3. /\ s \in ProcState /\ s.owner = proc[p].owner /\ s.closing = proc[p].closing
      /\ s.read = proc[p].read /\ s.exited /\ s.wait = proc[p].wait
  BY <1>1, <1>2 DEF ProcState
<1>4. proc' = [proc EXCEPT ![p] = s] /\ UNCHANGED <<meta, edits, registry, ctl, route, call, run, raced>>
  BY <1>1 DEF Exit
<1>5. QED
  BY <1>0, <1>3, <1>4, ProcChange

LEMMA CloseDoneStep ==
    ASSUME IInv, NEW p \in Proc, CloseDone(p)
    PROVE  IInv'
<1>0. TypeInv /\ LivesInv /\ p \in Started /\ proc[p].exited
  BY DEF IInv, Always, CloseDone
<1>1. PICK s : s = [proc[p] EXCEPT !.done = TRUE]
  OBVIOUS
<1>2. proc[p] \in ProcState
  BY <1>0, States
<1>3. /\ s \in ProcState /\ s.owner = proc[p].owner /\ s.closing = proc[p].closing
      /\ s.read = proc[p].read /\ s.exited /\ s.wait = proc[p].wait
  BY <1>0, <1>1, <1>2 DEF ProcState
<1>4. proc' = [proc EXCEPT ![p] = s] /\ UNCHANGED <<meta, edits, registry, ctl, route, call, run, raced>>
  BY <1>1 DEF CloseDone
<1>5. QED
  BY <1>0, <1>3, <1>4, ProcChange

LEMMA WaitSignalStep ==
    ASSUME IInv, NEW p \in Proc, WaitSignal(p)
    PROVE  IInv'
<1>0. TypeInv /\ LivesInv /\ p \in Started /\ proc[p].exited /\ proc[p].wait = "waiting"
  BY DEF IInv, Always, WaitSignal
<1>1. PICK s : s = [proc[p] EXCEPT !.done = TRUE, !.wait = "unregister"]
  OBVIOUS
<1>2. proc[p] \in ProcState
  BY <1>0, States
<1>3. /\ s \in ProcState /\ s.owner = proc[p].owner /\ s.closing = proc[p].closing
      /\ s.read = proc[p].read /\ s.exited /\ s.wait = "unregister"
  BY <1>0, <1>1, <1>2 DEF ProcState
<1>4. proc' = [proc EXCEPT ![p] = s] /\ UNCHANGED <<meta, edits, registry, ctl, route, call, run, raced>>
  BY <1>0, <1>1 DEF WaitSignal
<1>5. QED
  BY <1>0, <1>3, <1>4, ProcChange

\* The wait loop of an ended process takes the route of no other one: while a
\* process runs that the controller has, no other lingers.
LEMMA WaitUnregisterStep ==
    ASSUME IInv, NEW p \in Proc, WaitUnregister(p)
    PROVE  IInv'
<1>0. /\ TypeInv /\ NamesInv /\ LivesInv /\ LockInv
      /\ p \in Started /\ proc[p].wait = "unregister" /\ proc[p].exited
  BY DEF IInv, Always, WaitUnregister, LivesInv
<1>1. PICK s : s = [proc[p] EXCEPT !.wait = "status"]
  OBVIOUS
<1>2. proc[p] \in ProcState
  BY <1>0, States
<1>3. /\ s \in ProcState /\ s.owner = proc[p].owner /\ s.closing = proc[p].closing
      /\ s.read = proc[p].read /\ s.exited /\ s.wait = "status" /\ s.done = proc[p].done
  BY <1>0, <1>1, <1>2 DEF ProcState
<1>4. /\ proc' = [proc EXCEPT ![p] = s] /\ route' = None
      /\ UNCHANGED <<meta, edits, registry, ctl, call, run, raced>>
  BY <1>1 DEF WaitUnregister
<1>5. /\ proc' \in [Proc -> ProcState \cup {None}] /\ Started' = Started /\ proc'[p] = s
      /\ \A q \in Proc : q # p => proc'[q] = proc[q]
  BY <1>0, <1>3, <1>4, ProcUpdate
<1>6. TypeInv'
  BY <1>0, <1>4, <1>5 DEF TypeInv
<1>7. \A q \in Started : /\ proc'[q].owner = proc[q].owner /\ proc'[q].closing = proc[q].closing
                         /\ proc'[q].exited = proc[q].exited /\ proc'[q].done = proc[q].done
                         /\ proc'[q].read = proc[q].read
                         /\ q # p => proc'[q].wait = proc[q].wait
                         /\ Lingers(q)' => Lingers(q)
                         /\ Running(q)' <=> Running(q)
  <2>1. ASSUME NEW q \in Started
        PROVE  /\ proc'[q].owner = proc[q].owner /\ proc'[q].closing = proc[q].closing
               /\ proc'[q].exited = proc[q].exited /\ proc'[q].done = proc[q].done
               /\ proc'[q].read = proc[q].read
               /\ q # p => proc'[q].wait = proc[q].wait
               /\ Lingers(q)' => Lingers(q)
               /\ Running(q)' <=> Running(q)
    <3>1. CASE q = p
      BY <3>1, <1>0, <1>2, <1>3, <1>5, Zenon DEF Lingers, Running, Alive, ProcState
    <3>2. CASE q # p
      BY <3>2, <1>5 DEF Lingers, Running, Alive, Started
    <3>3. QED
      BY <3>1, <3>2
  <2>2. QED
    BY <2>1
<1>8. NamesInv'
  <2>1. ASSUME NEW d \in Call
        PROVE  CallNames(call[d])'
    BY <1>0, <1>4, <1>5, <1>7 DEF NamesInv, CallNames, Made
  <2>2. QED
    BY <2>1, <1>0, <1>4, <1>5, <1>7 DEF NamesInv, Made
<1>9. LivesInv'
  BY <1>0, <1>3, <1>4, <1>5, <1>7 DEF LivesInv, Made
<1>10. LockInv'
  <2>1. ASSUME NEW d \in Call, run[d].at = "publish"
        PROVE  Fresh(run[d].ctl, run[d].proc)'
    BY <2>1, <1>0, <1>4, <1>5, <1>7 DEF LockInv, Fresh, Made
  <2>2. QED
    BY <2>1, <1>0, <1>4 DEF LockInv, Holds
<1>11. Alone'
  <2>1. SUFFICES ASSUME raced \subseteq {"second", "lostStop"}
                 PROVE  OneCtl' /\ OneProc'
    BY <1>4 DEF Alone
  <2>2. OneCtl /\ OneProc
    BY <2>1 DEF IInv, Alone
  <2>3. OneCtl'
    BY <2>2, <1>4, <1>5, <1>7 DEF OneCtl, CallSole, Says, Made
  <2>4. OneProc'
    BY <2>2, <1>4, <1>5, <1>7 DEF OneProc, Says
  <2>5. QED
    BY <2>3, <2>4
<1>12. InOrder'
  <2>1. SUFFICES ASSUME raced \subseteq {"lostStop"}
                 PROVE  NoSecond' /\ AllServed'
    BY <1>4 DEF InOrder
  <2>2. NoSecond /\ AllServed /\ OneCtl
    BY <2>1 DEF IInv, InOrder, Alone
  <2>3. ASSUME Says(registry)
        PROVE  Served(ctl[registry].proc)'
    <3>1. ctl[registry].proc = p
      BY <1>0, <2>2, <2>3 DEF OneCtl, Lingers
    <3>2. Served(p)
      BY <2>2, <2>3, <3>1 DEF AllServed
    <3>3. ~Running(p)' /\ proc'[p].wait = "status"
      BY <1>0, <1>3, <1>5, <1>7 DEF Running, Alive
    <3>4. Served(p)'
      BY <3>2, <3>3, <1>0, <1>7 DEF Served
    <3>5. QED
      BY <3>1, <3>4, <1>4
  <2>4. QED
    BY <2>2, <2>3, <1>4 DEF NoSecond, AllServed, Says
<1>13. QED
  BY <1>6, <1>8, <1>9, <1>10, <1>11, <1>12 DEF IInv, Always
\* When the wait loop says done, it speaks of the controller's process.
LEMMA WaitStatusStep ==
    ASSUME IInv, NEW p \in Proc, WaitStatus(p)
    PROVE  IInv'
<1>0. /\ TypeInv /\ NamesInv /\ LivesInv /\ LockInv
      /\ p \in Started /\ proc[p].wait = "status" /\ proc[p].exited
  BY DEF IInv, Always, WaitStatus, LivesInv
<1>1. PICK s : s = [proc[p] EXCEPT !.wait = "end"]
  OBVIOUS
<1>2. PICK k : k = proc[p].owner
  OBVIOUS
<1>3. proc[p] \in ProcState /\ k \in Made /\ k \in Ctl /\ ctl[k] \in CtlState
  BY <1>0, <1>2, States DEF NamesInv
<1>4. /\ s \in ProcState /\ s.owner = proc[p].owner /\ s.closing = proc[p].closing
      /\ s.read = proc[p].read /\ s.exited /\ s.wait = "end" /\ s.done = proc[p].done
  BY <1>0, <1>1, <1>3 DEF ProcState
<1>5. PICK t : t = [ctl[k] EXCEPT !.status = IF ctl[k].status = "running" THEN "done" ELSE ctl[k].status]
  OBVIOUS
<1>6. /\ t \in CtlState /\ t.proc = ctl[k].proc /\ t.input = ctl[k].input /\ t.runLock = ctl[k].runLock
      /\ t.status # "running"
  BY <1>3, <1>5 DEF CtlState
<1>7. /\ proc' = [proc EXCEPT ![p] = s] /\ ctl' = [ctl EXCEPT ![k] = t]
      /\ UNCHANGED <<meta, edits, registry, route, call, run, raced>>
  BY <1>0, <1>1, <1>2, <1>3, <1>5 DEF WaitStatus, TypeInv
<1>8. /\ proc' \in [Proc -> ProcState \cup {None}] /\ Started' = Started /\ proc'[p] = s
      /\ \A q \in Proc : q # p => proc'[q] = proc[q]
  BY <1>0, <1>4, <1>7, ProcUpdate
<1>9. /\ ctl' \in [Ctl -> CtlState \cup {None}] /\ Made' = Made /\ ctl'[k] = t
      /\ \A j \in Ctl : j # k => ctl'[j] = ctl[j]
  BY <1>0, <1>3, <1>6, <1>7, CtlUpdate
<1>10. TypeInv'
  BY <1>0, <1>7, <1>8, <1>9 DEF TypeInv
<1>11. \A q \in Started : /\ proc'[q].owner = proc[q].owner /\ proc'[q].closing = proc[q].closing
                          /\ proc'[q].exited = proc[q].exited /\ proc'[q].done = proc[q].done
                          /\ proc'[q].read = proc[q].read
                          /\ q # p => proc'[q].wait = proc[q].wait
                          /\ Lingers(q)' => Lingers(q)
                          /\ Running(q)' <=> Running(q)
  <2>1. ASSUME NEW q \in Started
        PROVE  /\ proc'[q].owner = proc[q].owner /\ proc'[q].closing = proc[q].closing
               /\ proc'[q].exited = proc[q].exited /\ proc'[q].done = proc[q].done
               /\ proc'[q].read = proc[q].read
               /\ q # p => proc'[q].wait = proc[q].wait
               /\ Lingers(q)' => Lingers(q)
               /\ Running(q)' <=> Running(q)
    <3>1. CASE q = p
      BY <3>1, <1>0, <1>4, <1>8 DEF Lingers, Running, Alive
    <3>2. CASE q # p
      BY <3>2, <1>8 DEF Lingers, Running, Alive, Started
    <3>3. QED
      BY <3>1, <3>2
  <2>2. QED
    BY <2>1
<1>12. \A j \in Made : /\ ctl'[j].proc = ctl[j].proc /\ ctl'[j].input = ctl[j].input
                       /\ ctl'[j].runLock = ctl[j].runLock
                       /\ ctl'[j].status = "running" => ctl[j].status = "running" /\ j # k
  <2>1. ASSUME NEW j \in Made
        PROVE  /\ ctl'[j].proc = ctl[j].proc /\ ctl'[j].input = ctl[j].input
               /\ ctl'[j].runLock = ctl[j].runLock
               /\ ctl'[j].status = "running" => ctl[j].status = "running" /\ j # k
    <3>1. CASE j = k
      BY <3>1, <1>6, <1>9
    <3>2. CASE j # k
      BY <3>2, <1>9 DEF Made
    <3>3. QED
      BY <3>1, <3>2
  <2>2. QED
    BY <2>1
<1>13. NamesInv'
  <2>1. ASSUME NEW d \in Call
        PROVE  CallNames(call[d])'
    BY <1>0, <1>7, <1>8, <1>9, <1>11 DEF NamesInv, CallNames
  <2>2. QED
    BY <2>1, <1>0, <1>7, <1>8, <1>9, <1>11, <1>12 DEF NamesInv
<1>14. LivesInv'
  BY <1>0, <1>4, <1>8, <1>9, <1>11, <1>12 DEF LivesInv
<1>15. LockInv'
  <2>1. ASSUME NEW d \in Call, run[d].at = "publish"
        PROVE  Fresh(run[d].ctl, run[d].proc)'
    <3>1. Fresh(run[d].ctl, run[d].proc) /\ run[d].ctl \in Made
      BY <2>1, <1>0 DEF LockInv, NamesInv
    <3>2. run[d].proc # p
      BY <3>1, <1>0 DEF Fresh
    <3>3. QED
      BY <3>1, <3>2, <1>7, <1>8, <1>9, <1>11, <1>12 DEF Fresh
  <2>2. ASSUME NEW d \in Call, run[d].at # "none"
        PROVE  run[d].ctl \in Made
    BY <2>2, <1>0 DEF NamesInv
  <2>3. QED
    BY <2>1, <2>2, <1>0, <1>7, <1>12 DEF LockInv, Holds, Held
<1>16. ASSUME OneCtl
       PROVE  ~Says(registry)'
  <2>1. CASE Says(registry)
    <3>1. ctl[registry].proc = p
      BY <1>0, <1>16, <2>1 DEF OneCtl, Lingers
    <3>2. registry = k
      BY <1>0, <1>2, <2>1, <3>1, ShellAssumption DEF NamesInv, LivesInv, Says
    <3>3. QED
      BY <3>2, <1>6, <1>7, <1>9 DEF Says
  <2>2. CASE ~Says(registry)
    BY <2>2, <1>0, <1>7, <1>12 DEF Says, NamesInv
  <2>3. QED
    BY <2>1, <2>2
<1>17. Alone'
  <2>1. SUFFICES ASSUME raced \subseteq {"second", "lostStop"}
                 PROVE  OneCtl' /\ OneProc'
    BY <1>7 DEF Alone
  <2>2. OneCtl /\ OneProc
    BY <2>1 DEF IInv, Alone
  <2>3. ~Says(registry)'
    BY <2>2, <1>16
  <2>4. OneCtl'
    BY <2>2, <2>3, <1>7, <1>9, <1>12 DEF OneCtl, CallSole, Says
  <2>5. ASSUME NEW q \in Started, Running(q)'
        PROVE  /\ proc'[q].owner = registry'
               /\ \E d \in Call : run'[d].at = "publish" /\ run'[d].proc = q
    <3>1. Running(q) /\ proc[q].owner = registry
      BY <2>2, <2>5, <1>11 DEF OneProc
    <3>2. ~(Says(registry) /\ ctl[registry].proc = q)
      <4>1. SUFFICES ASSUME Says(registry), ctl[registry].proc = q
                     PROVE  FALSE
        OBVIOUS
      <4>2. p = q
        BY <4>1, <1>0, <2>2 DEF OneCtl, Lingers
      <4>3. QED
        BY <3>1, <4>2, <1>0 DEF Running, Alive
    <3>3. PICK d \in Call : run[d].at = "publish" /\ run[d].proc = q
      BY <2>2, <3>1, <3>2 DEF OneProc
    <3>4. QED
      BY <3>1, <3>3, <1>7, <1>11
  <2>6. OneProc'
    BY <2>5, <1>8 DEF OneProc
  <2>7. QED
    BY <2>4, <2>6
<1>18. InOrder'
  <2>1. SUFFICES ASSUME raced \subseteq {"lostStop"}
                 PROVE  NoSecond' /\ AllServed'
    BY <1>7 DEF InOrder
  <2>2. NoSecond /\ OneCtl
    BY <2>1 DEF IInv, InOrder, Alone
  <2>3. QED
    BY <2>2, <1>7, <1>16 DEF NoSecond, AllServed, Says
<1>19. QED
  BY <1>10, <1>13, <1>14, <1>15, <1>17, <1>18 DEF IInv, Always

\* The end of the read loop tells a process to end that may still run.
LEMMA ReadEofStep ==
    ASSUME IInv, NEW p \in Proc, ReadEof(p)
    PROVE  IInv'
<1>0. /\ TypeInv /\ NamesInv /\ LivesInv /\ LockInv
      /\ p \in Started /\ proc[p].read = "reading"
  BY DEF IInv, Always, ReadEof, LivesInv
<1>1. PICK s : s = [proc[p] EXCEPT !.read = "closed", !.closing = TRUE]
  OBVIOUS
<1>3. proc[p] \in ProcState
  BY <1>0, States
<1>4. /\ s \in ProcState /\ s.owner = proc[p].owner /\ s.closing /\ s.exited = proc[p].exited
      /\ s.read = "closed" /\ s.wait = proc[p].wait /\ s.done = proc[p].done
  BY <1>0, <1>1, <1>3 DEF ProcState
<1>7. /\ proc' = [proc EXCEPT ![p] = s]
      /\ UNCHANGED <<meta, edits, registry, ctl, route, call, run, raced>>
  BY <1>0, <1>1, <1>3 DEF ReadEof, TypeInv
<1>8. /\ proc' \in [Proc -> ProcState \cup {None}] /\ Started' = Started /\ proc'[p] = s
      /\ \A q \in Proc : q # p => proc'[q] = proc[q]
  BY <1>0, <1>4, <1>7, ProcUpdate
<1>9. ctl' = ctl /\ Made' = Made
  BY <1>7 DEF Made
<1>10. TypeInv'
  BY <1>0, <1>7, <1>8, <1>9 DEF TypeInv
<1>11. \A q \in Started : /\ proc'[q].owner = proc[q].owner
                          /\ proc'[q].exited = proc[q].exited /\ proc'[q].done = proc[q].done
                          /\ proc'[q].wait = proc[q].wait
                          /\ q # p => proc'[q] = proc[q]
                          /\ proc[q].closing => proc'[q].closing
                          /\ Lingers(q)' => Lingers(q)
                          /\ Running(q)' => Running(q)
  <2>1. ASSUME NEW q \in Started
        PROVE  /\ proc'[q].owner = proc[q].owner
               /\ proc'[q].exited = proc[q].exited /\ proc'[q].done = proc[q].done
               /\ proc'[q].wait = proc[q].wait
               /\ q # p => proc'[q] = proc[q]
               /\ proc[q].closing => proc'[q].closing
               /\ Lingers(q)' => Lingers(q)
               /\ Running(q)' => Running(q)
    <3>1. CASE q = p
      BY <3>1, <1>0, <1>4, <1>8 DEF Lingers, Running, Alive
    <3>2. CASE q # p
      BY <3>2, <1>8 DEF Lingers, Running, Alive, Started
    <3>3. QED
      BY <3>1, <3>2
  <2>2. QED
    BY <2>1
<1>13. NamesInv'
  <2>1. ASSUME NEW d \in Call
        PROVE  CallNames(call[d])'
    BY <1>0, <1>7, <1>8, <1>9, <1>11 DEF NamesInv, CallNames
  <2>2. QED
    BY <2>1, <1>0, <1>7, <1>8, <1>9, <1>11 DEF NamesInv
<1>14. LivesInv'
  <2>1. ASSUME NEW q \in Started
        PROVE  proc'[q].read \in {"closed", "end"} => proc'[q].closing
    BY <1>0, <1>4, <1>8, <1>11 DEF LivesInv
  <2>2. QED
    BY <2>1, <1>0, <1>8, <1>9, <1>11 DEF LivesInv
<1>15. LockInv'
  <2>1. ASSUME NEW d \in Call, run[d].at = "publish"
        PROVE  Fresh(run[d].ctl, run[d].proc)'
    <3>1. Fresh(run[d].ctl, run[d].proc) /\ run[d].ctl \in Made
      BY <2>1, <1>0 DEF LockInv, NamesInv
    <3>2. run[d].proc # p
      BY <3>1, <1>0 DEF Fresh
    <3>3. QED
      BY <3>1, <3>2, <1>7, <1>8, <1>9, <1>11 DEF Fresh
  <2>2. ASSUME NEW d \in Call, run[d].at # "none"
        PROVE  run[d].ctl \in Made
    BY <2>2, <1>0 DEF NamesInv
  <2>3. QED
    BY <2>1, <2>2, <1>0, <1>7 DEF LockInv, Holds, Held
<1>16. registry \in Made \cup {None}
  BY <1>0 DEF NamesInv
<1>17. Alone'
  <2>1. SUFFICES ASSUME raced \subseteq {"second", "lostStop"}
                 PROVE  OneCtl' /\ OneProc'
    BY <1>7 DEF Alone
  <2>2. OneCtl /\ OneProc
    BY <2>1 DEF IInv, Alone
  <2>3. OneCtl'
    BY <2>2, <1>7, <1>8, <1>9, <1>11, <1>16 DEF OneCtl, CallSole, Says
  <2>4. OneProc'
    BY <2>2, <1>7, <1>8, <1>11, <1>16 DEF OneProc, Says
  <2>5. QED
    BY <2>3, <2>4
<1>18. InOrder'
  <2>1. SUFFICES ASSUME raced \subseteq {"lostStop"}
                 PROVE  NoSecond' /\ AllServed'
    BY <1>7 DEF InOrder
  <2>2. NoSecond /\ AllServed /\ OneCtl
    BY <2>1 DEF IInv, InOrder, Alone
  <2>3. ASSUME Says(registry)
        PROVE  Served(ctl[registry].proc)'
    <3>1. PICK q \in Started : q = ctl[registry].proc
      BY <1>0, <1>16, <2>3 DEF Says, LivesInv, NamesInv
    <3>2. Served(q)
      BY <2>2, <2>3, <3>1 DEF AllServed
    <3>3. Served(q)'
      BY <1>7, <1>9, <1>11, <3>2 DEF Served
    <3>4. QED
      BY <3>1, <3>3, <1>7, <1>9
  <2>4. QED
    BY <2>2, <2>3, <1>7, <1>9 DEF NoSecond, AllServed, Says
<1>19. QED
  BY <1>10, <1>13, <1>14, <1>15, <1>17, <1>18 DEF IInv, Always
-----------------------------------------------------------------------------
(* Steps of run()                                                          *)

\* The read loop takes the input of the controller's process only when that
\* one was told to end.
LEMMA ClearInputStep ==
    ASSUME IInv, NEW p \in Proc, ClearInput(p)
    PROVE  IInv'
<1>0. /\ TypeInv /\ NamesInv /\ LivesInv /\ LockInv
      /\ p \in Started /\ proc[p].read = "closed" /\ proc[p].closing
  BY DEF IInv, Always, ClearInput, LivesInv
<1>1. PICK s : s = [proc[p] EXCEPT !.read = "end"]
  OBVIOUS
<1>2. PICK k : k = proc[p].owner
  OBVIOUS
<1>3. proc[p] \in ProcState /\ k \in Made /\ k \in Ctl /\ ctl[k] \in CtlState
  BY <1>0, <1>2, States DEF NamesInv
<1>4. /\ s \in ProcState /\ s.owner = proc[p].owner /\ s.closing /\ s.exited = proc[p].exited
      /\ s.read = "end" /\ s.wait = proc[p].wait /\ s.done = proc[p].done
  BY <1>0, <1>1, <1>3 DEF ProcState
<1>5. PICK t : t = [ctl[k] EXCEPT !.input = None]
  OBVIOUS
<1>6. /\ t \in CtlState /\ t.proc = ctl[k].proc /\ t.status = ctl[k].status /\ t.runLock = ctl[k].runLock
  BY <1>3, <1>5 DEF CtlState
<1>7. /\ proc' = [proc EXCEPT ![p] = s] /\ ctl' = [ctl EXCEPT ![k] = t]
      /\ UNCHANGED <<meta, edits, registry, route, call, run, raced>>
  BY <1>0, <1>1, <1>2, <1>3, <1>5 DEF ClearInput, TypeInv
<1>8. /\ proc' \in [Proc -> ProcState \cup {None}] /\ Started' = Started /\ proc'[p] = s
      /\ \A q \in Proc : q # p => proc'[q] = proc[q]
  BY <1>0, <1>4, <1>7, ProcUpdate
<1>9. /\ ctl' \in [Ctl -> CtlState \cup {None}] /\ Made' = Made /\ ctl'[k] = t
      /\ \A j \in Ctl : j # k => ctl'[j] = ctl[j]
  BY <1>0, <1>3, <1>6, <1>7, CtlUpdate
<1>10. TypeInv'
  BY <1>0, <1>7, <1>8, <1>9 DEF TypeInv
<1>11. \A q \in Started : /\ proc'[q].owner = proc[q].owner
                          /\ proc'[q].exited = proc[q].exited /\ proc'[q].done = proc[q].done
                          /\ proc'[q].wait = proc[q].wait
                          /\ q # p => proc'[q] = proc[q]
                          /\ proc[q].closing => proc'[q].closing
                          /\ Lingers(q)' => Lingers(q)
                          /\ Running(q)' <=> Running(q)
  <2>1. ASSUME NEW q \in Started
        PROVE  /\ proc'[q].owner = proc[q].owner
               /\ proc'[q].exited = proc[q].exited /\ proc'[q].done = proc[q].done
               /\ proc'[q].wait = proc[q].wait
               /\ q # p => proc'[q] = proc[q]
               /\ proc[q].closing => proc'[q].closing
               /\ Lingers(q)' => Lingers(q)
               /\ Running(q)' <=> Running(q)
    <3>1. CASE q = p
      BY <3>1, <1>0, <1>4, <1>8 DEF Lingers, Running, Alive
    <3>2. CASE q # p
      BY <3>2, <1>8 DEF Lingers, Running, Alive, Started
    <3>3. QED
      BY <3>1, <3>2
  <2>2. QED
    BY <2>1
<1>12. \A j \in Made : /\ ctl'[j].proc = ctl[j].proc /\ ctl'[j].status = ctl[j].status
                       /\ ctl'[j].runLock = ctl[j].runLock
  <2>1. ASSUME NEW j \in Made
        PROVE  /\ ctl'[j].proc = ctl[j].proc /\ ctl'[j].status = ctl[j].status
               /\ ctl'[j].runLock = ctl[j].runLock
    <3>1. CASE j = k
      BY <3>1, <1>6, <1>9
    <3>2. CASE j # k
      BY <3>2, <1>9 DEF Made
    <3>3. QED
      BY <3>1, <3>2
  <2>2. QED
    BY <2>1
<1>13. NamesInv'
  <2>1. ASSUME NEW d \in Call
        PROVE  CallNames(call[d])'
    BY <1>0, <1>7, <1>8, <1>9, <1>11 DEF NamesInv, CallNames
  <2>2. QED
    BY <2>1, <1>0, <1>7, <1>8, <1>9, <1>11, <1>12 DEF NamesInv
<1>14. LivesInv'
  BY <1>0, <1>8, <1>9, <1>11, <1>12 DEF LivesInv
<1>15. LockInv'
  <2>1. ASSUME NEW d \in Call, run[d].at = "publish"
        PROVE  Fresh(run[d].ctl, run[d].proc)'
    <3>1. Fresh(run[d].ctl, run[d].proc) /\ run[d].ctl \in Made
      BY <2>1, <1>0 DEF LockInv, NamesInv
    <3>2. run[d].proc # p
      BY <3>1, <1>0 DEF Fresh
    <3>3. QED
      BY <3>1, <3>2, <1>7, <1>8, <1>9, <1>11, <1>12 DEF Fresh
  <2>2. ASSUME NEW d \in Call, run[d].at # "none"
        PROVE  run[d].ctl \in Made
    BY <2>2, <1>0 DEF NamesInv
  <2>3. QED
    BY <2>1, <2>2, <1>0, <1>7, <1>12 DEF LockInv, Holds, Held
<1>16. registry \in Made \cup {None}
  BY <1>0 DEF NamesInv
<1>17. Alone'
  <2>1. SUFFICES ASSUME raced \subseteq {"second", "lostStop"}
                 PROVE  OneCtl' /\ OneProc'
    BY <1>7 DEF Alone
  <2>2. OneCtl /\ OneProc
    BY <2>1 DEF IInv, Alone
  <2>3. OneCtl'
    BY <2>2, <1>7, <1>8, <1>9, <1>11, <1>12, <1>16 DEF OneCtl, CallSole, Says
  <2>4. OneProc'
    BY <2>2, <1>7, <1>8, <1>11, <1>12, <1>16 DEF OneProc, Says
  <2>5. QED
    BY <2>3, <2>4
<1>18. InOrder'
  <2>1. SUFFICES ASSUME raced \subseteq {"lostStop"}
                 PROVE  NoSecond' /\ AllServed'
    BY <1>7 DEF InOrder
  <2>2. NoSecond /\ AllServed /\ OneCtl
    BY <2>1 DEF IInv, InOrder, Alone
  <2>3. ASSUME Says(registry)
        PROVE  Served(ctl[registry].proc)'
    <3>1. ctl[registry].proc = p
      BY <1>0, <2>2, <2>3 DEF OneCtl, Lingers
    <3>2. Served(p)
      BY <2>2, <2>3, <3>1 DEF AllServed
    <3>3. ~Running(p)' /\ proc'[p].wait # "end"
      BY <1>0, <1>4, <1>8, <1>11, <3>2 DEF Running, Alive, Served
    <3>4. Served(p)'
      BY <3>3 DEF Served
    <3>5. QED
      BY <3>1, <3>4, <1>7, <1>12, <1>16, <2>3 DEF Says
  <2>4. QED
    BY <2>2, <2>3, <1>7, <1>12, <1>16 DEF NoSecond, AllServed, Says
<1>19. QED
  BY <1>10, <1>13, <1>14, <1>15, <1>17, <1>18 DEF IInv, Always
-----------------------------------------------------------------------------
(* Steps of run()                                                          *)

\* A run() goes from one place to another, not to or from the places where it
\* has a process, and the run lock is its own or nothing else changes.
LEMMA LockRunLockStep ==
    ASSUME IInv, NEW c \in Call, LockRunLock(c)
    PROVE  IInv'
<1>0. /\ TypeInv /\ NamesInv /\ LivesInv /\ LockInv
      /\ run[c] \in RunType /\ run[c].at = "lock"
  BY DEF IInv, Always, LockRunLock, TypeInv
<1>1. PICK k : k = run[c].ctl
  OBVIOUS
<1>2. k \in Made /\ k \in Ctl /\ ctl[k] \in CtlState
  BY <1>0, <1>1, States DEF NamesInv
<1>3. PICK t : t = [ctl[k] EXCEPT !.runLock = TRUE]
  OBVIOUS
<1>4. /\ t \in CtlState /\ t.proc = ctl[k].proc /\ t.status = ctl[k].status /\ t.input = ctl[k].input
      /\ t.runLock
  BY <1>2, <1>3 DEF CtlState
<1>5. PICK r : r = IF ctl[k].runLock THEN NoRun ELSE [run[c] EXCEPT !.at = "status"]
  OBVIOUS
<1>6. /\ r \in RunType
      /\ ctl[k].runLock => r.at = "none"
      /\ ~ctl[k].runLock => r.at = "status" /\ r.ctl = k
  <2>1. CASE ctl[k].runLock
    BY <2>1, <1>5, RunKinds DEF NoRun
  <2>2. CASE ~ctl[k].runLock
    <3>1. run[c] \in [at : {"lock", "status"}, ctl : Ctl, force : BOOLEAN, conn : Conn \cup {None}]
      BY <1>0, RunFields
    <3>2. /\ r \in [at : {"lock", "status", "unlock"}, ctl : Ctl, force : BOOLEAN, conn : Conn \cup {None}]
          /\ r.at = "status" /\ r.ctl = k
      BY <1>1, <1>5, <2>2, <3>1
    <3>3. QED
      BY <2>2, <3>2, RunKinds
  <2>3. QED
    BY <2>1, <2>2
<1>7. RunGoto(c, r) /\ UNCHANGED <<meta, edits, registry, proc, route, call, raced>>
  BY <1>1, <1>5 DEF LockRunLock
<1>8. /\ ctl[k].runLock => ctl' = ctl
      /\ ~ctl[k].runLock => ctl' = [ctl EXCEPT ![k] = t]
  BY <1>1, <1>2, <1>3 DEF LockRunLock
<1>9. /\ run' \in [Call -> RunType] /\ run'[c] = r
      /\ \A d \in Call : d # c => run'[d] = run[d]
  BY <1>0, <1>6, <1>7, RunUpdate
<1>10. /\ ctl' \in [Ctl -> CtlState \cup {None}] /\ Made' = Made /\ Started' = Started
       /\ \A j \in Made : /\ ctl'[j].proc = ctl[j].proc /\ ctl'[j].status = ctl[j].status
                          /\ ctl'[j].input = ctl[j].input
                          /\ ctl[j].runLock => ctl'[j].runLock
       /\ ~ctl[k].runLock => ctl'[k].runLock
  <2>1. CASE ctl[k].runLock
    BY <2>1, <1>0, <1>7, <1>8 DEF TypeInv, Made, Started
  <2>2. CASE ~ctl[k].runLock
    <3>1. /\ ctl' \in [Ctl -> CtlState \cup {None}] /\ Made' = Made /\ ctl'[k] = t
          /\ \A j \in Ctl : j # k => ctl'[j] = ctl[j]
      BY <2>2, <1>0, <1>2, <1>4, <1>8, CtlUpdate
    <3>2. Started' = Started
      BY <1>7 DEF Started
    <3>3. QED
      BY <3>1, <3>2, <1>4 DEF Made
  <2>3. QED
    BY <2>1, <2>2
<1>11. TypeInv'
  BY <1>0, <1>7, <1>9, <1>10 DEF TypeInv
<1>12. call[c].at = "end"
  BY <1>0 DEF NamesInv, NoRun
<1>13. NamesInv'
  <2>1. ASSUME NEW d \in Call
        PROVE  CallNames(call[d])'
    BY <1>0, <1>7, <1>10 DEF NamesInv, CallNames
  <2>2. ASSUME NEW d \in Call, run'[d].at # "none"
        PROVE  run'[d].ctl \in Made
    BY <2>2, <1>0, <1>2, <1>6, <1>9 DEF NamesInv
  <2>3. ASSUME NEW d \in Call, call'[d].at # "end"
        PROVE  run'[d] = NoRun
    BY <2>3, <1>0, <1>7, <1>9, <1>12 DEF NamesInv
  <2>4. QED
    BY <2>1, <2>2, <2>3, <1>0, <1>7, <1>10 DEF NamesInv
<1>14. LivesInv'
  BY <1>0, <1>7, <1>10 DEF LivesInv
<1>15. \A d \in Call : Holds(d)' => \/ d # c /\ Holds(d)
                                    \/ d = c /\ ~ctl[k].runLock /\ run'[c].ctl = k
  BY <1>6, <1>9 DEF Holds, Held
<1>16. \A d \in Call : run'[d].at \in {"publish", "input", "route"} => d # c
  BY <1>6, <1>9
<1>17. LockInv'
  <2>1. ASSUME NEW d \in Call, Holds(d)'
        PROVE  ctl'[run'[d].ctl].runLock
    <3>1. CASE d # c /\ Holds(d)
      BY <3>1, <1>0, <1>9, <1>10 DEF LockInv, NamesInv, Holds, Held
    <3>2. CASE d = c /\ ~ctl[k].runLock /\ run'[c].ctl = k
      BY <3>2, <1>10
    <3>3. QED
      BY <2>1, <3>1, <3>2, <1>15
  <2>2. ASSUME NEW d \in Call, NEW e \in Call, Holds(d)', Holds(e)', run'[d].ctl = run'[e].ctl
        PROVE  d = e
    BY <2>2, <1>0, <1>9, <1>15 DEF LockInv
  <2>3. ASSUME NEW d \in Call, run'[d].at = "publish"
        PROVE  Fresh(run[d].ctl, run[d].proc)'
    <3>1. d # c /\ run'[d] = run[d]
      BY <2>3, <1>9, <1>16
    <3>2. Fresh(run[d].ctl, run[d].proc) /\ run[d].ctl \in Made
      BY <2>3, <3>1, <1>0 DEF LockInv, NamesInv
    <3>3. QED
      BY <3>1, <3>2, <1>7, <1>10 DEF Fresh
  <2>4. ASSUME NEW d \in Call, run'[d].at \in {"input", "route"}, run'[d].proc # Nobody
        PROVE  ctl'[run'[d].ctl].proc = run'[d].proc
    <3>1. d # c /\ run'[d] = run[d]
      BY <2>4, <1>9, <1>16
    <3>2. QED
      BY <2>4, <3>1, <1>0, <1>10 DEF LockInv, NamesInv
  <2>5. QED
    BY <2>1, <2>2, <2>3, <2>4 DEF LockInv
<1>18. Alone'
  <2>1. SUFFICES ASSUME raced \subseteq {"second", "lostStop"}
                 PROVE  OneCtl' /\ OneProc'
    BY <1>7 DEF Alone
  <2>2. OneCtl /\ OneProc
    BY <2>1 DEF IInv, Alone
  <2>3. ASSUME NEW d \in Call, run'[d].at # "none"
        PROVE  run'[d].ctl = registry
    BY <2>2, <2>3, <1>0, <1>1, <1>6, <1>9 DEF OneCtl
  <2>4. registry \in Made \cup {None}
    BY <1>0 DEF NamesInv
  <2>5. OneCtl'
    BY <2>2, <2>3, <2>4, <1>7, <1>10 DEF OneCtl, CallSole, Says, Lingers
  <2>6. ASSUME NEW q \in Started, Running(q)'
        PROVE  /\ proc'[q].owner = registry'
               /\ \/ Says(registry)' /\ ctl'[registry].proc = q
                  \/ \E d \in Call : run'[d].at = "publish" /\ run'[d].proc = q
    <3>1. Running(q)
      BY <2>6, <1>7 DEF Running, Alive, Started
    <3>2. CASE Says(registry) /\ ctl[registry].proc = q
      BY <3>1, <3>2, <2>2, <2>4, <1>7, <1>10 DEF OneProc, Says
    <3>3. CASE \E d \in Call : run[d].at = "publish" /\ run[d].proc = q
      <4>1. PICK d \in Call : run[d].at = "publish" /\ run[d].proc = q
        BY <3>3
      <4>2. d # c
        BY <4>1, <1>0
      <4>3. QED
        BY <3>1, <4>1, <4>2, <2>2, <1>7, <1>9 DEF OneProc
    <3>4. QED
      BY <3>1, <3>2, <3>3, <2>2 DEF OneProc
  <2>7. OneProc'
    BY <2>6, <1>7, <1>10 DEF OneProc
  <2>8. QED
    BY <2>5, <2>7
<1>19. InOrder'
  <2>1. SUFFICES ASSUME raced \subseteq {"lostStop"}
                 PROVE  NoSecond' /\ AllServed'
    BY <1>7 DEF InOrder
  <2>2. NoSecond /\ AllServed
    BY <2>1 DEF IInv, InOrder
  <2>3. NoSecond'
    BY <2>2, <1>9, <1>16 DEF NoSecond
  <2>4. ASSUME Says(registry)'
        PROVE  Served(ctl[registry].proc)'
    <3>1. registry \in Made /\ Says(registry)
      BY <2>4, <1>0, <1>7, <1>10 DEF Says, NamesInv
    <3>2. PICK p : p = ctl[registry].proc
      OBVIOUS
    <3>3. Served(p)
      BY <2>2, <3>1, <3>2 DEF AllServed
    <3>4. \A d \in Call : run[d].at \in {"input", "route"} => run'[d] = run[d]
      BY <1>0, <1>9
    <3>5. Running(p)' <=> Running(p)
      BY <1>7 DEF Running, Alive, Started
    <3>6. Served(p)'
      BY <3>1, <3>3, <3>4, <3>5, <1>7, <1>10 DEF Served
    <3>7. QED
      BY <3>1, <3>2, <3>6, <1>7, <1>10
  <2>5. QED
    BY <2>3, <2>4 DEF AllServed
<1>20. QED
  BY <1>11, <1>13, <1>14, <1>17, <1>18, <1>19 DEF IInv, Always
\* A run() that has the lock and no process goes on, or goes on without one.
LEMMA RunChange ==
    ASSUME IInv, NEW c \in Call, NEW r \in RunType, RunGoto(c, r),
           run[c].at \in {"status", "setup"},
           r.ctl = run[c].ctl, r.at \in {"setup", "unlock", "input"},
           r.at = "input" => r.proc = Nobody /\ "second" \in raced',
           raced \subseteq raced', raced' \subseteq Race,
           UNCHANGED <<meta, edits, registry, ctl, proc, route, call>>
    PROVE  IInv'
<1>0. TypeInv /\ NamesInv /\ LivesInv /\ LockInv
  BY DEF IInv, Always
<1>1. /\ run' \in [Call -> RunType] /\ run'[c] = r
      /\ \A d \in Call : d # c => run'[d] = run[d]
  BY <1>0, RunUpdate
<1>2. TypeInv'
  BY <1>0, <1>1 DEF TypeInv
<1>3. call[c].at = "end" /\ run[c].at # "none" /\ r.at # "none"
  BY <1>0 DEF NamesInv, NoRun
<1>4. NamesInv'
  <2>1. ASSUME NEW d \in Call
        PROVE  CallNames(call[d])'
    BY <1>0 DEF NamesInv, CallNames, Made, Started
  <2>2. ASSUME NEW d \in Call, run'[d].at # "none"
        PROVE  run'[d].ctl \in Made
    BY <2>2, <1>0, <1>1, <1>3 DEF NamesInv
  <2>3. ASSUME NEW d \in Call, call'[d].at # "end"
        PROVE  run'[d] = NoRun
    BY <2>3, <1>0, <1>1, <1>3 DEF NamesInv
  <2>4. QED
    BY <2>1, <2>2, <2>3, <1>0 DEF NamesInv, Made, Started
<1>5. LivesInv'
  BY <1>0 DEF LivesInv, Made, Started
<1>6. \A d \in Call : /\ Holds(d)' <=> Holds(d)
                      /\ run'[d].at # "none" => run'[d].ctl = run[d].ctl /\ run[d].at # "none"
                      /\ run'[d].at \in {"publish", "route"} => d # c
                      /\ run'[d].at = "input" => d # c \/ run'[d].proc = Nobody
  BY <1>1, <1>3 DEF Holds, Held
<1>7. LockInv'
  <2>1. ASSUME NEW d \in Call, Holds(d)'
        PROVE  ctl[run'[d].ctl].runLock
    BY <2>1, <1>0, <1>6 DEF LockInv, Holds, Held
  <2>2. ASSUME NEW d \in Call, NEW e \in Call, Holds(d)', Holds(e)', run'[d].ctl = run'[e].ctl
        PROVE  d = e
    BY <2>2, <1>0, <1>6 DEF LockInv, Holds, Held
  <2>3. ASSUME NEW d \in Call, run'[d].at = "publish"
        PROVE  Fresh(run[d].ctl, run[d].proc)'
    <3>1. run'[d] = run[d] /\ Fresh(run[d].ctl, run[d].proc)
      BY <2>3, <1>0, <1>1, <1>6 DEF LockInv
    <3>2. QED
      BY <3>1 DEF Fresh, Made, Started
  <2>4. ASSUME NEW d \in Call, run'[d].at \in {"input", "route"}, run'[d].proc # Nobody
        PROVE  ctl[run'[d].ctl].proc = run'[d].proc
    BY <2>4, <1>0, <1>1, <1>6 DEF LockInv
  <2>5. QED
    BY <2>1, <2>2, <2>3, <2>4 DEF LockInv
<1>8. Alone'
  <2>1. SUFFICES ASSUME raced' \subseteq {"second", "lostStop"}
                 PROVE  OneCtl' /\ OneProc'
    BY DEF Alone
  <2>2. OneCtl /\ OneProc
    BY <2>1 DEF IInv, Alone
  <2>3. OneCtl'
    BY <2>2, <1>6 DEF OneCtl, CallSole, Says, Made, Started, Lingers
  <2>4. ASSUME NEW d \in Call, run[d].at = "publish"
        PROVE  run'[d] = run[d]
    BY <2>4, <1>1
  <2>5. OneProc'
    BY <2>2, <2>4 DEF OneProc, Says, Started, Running, Alive
  <2>6. QED
    BY <2>3, <2>5
<1>9. InOrder'
  <2>1. SUFFICES ASSUME raced' \subseteq {"lostStop"}
                 PROVE  NoSecond' /\ AllServed'
    BY DEF InOrder
  <2>2. NoSecond /\ AllServed
    BY <2>1 DEF IInv, InOrder
  <2>3. r.at # "input"
    BY <2>1
  <2>4. NoSecond'
    BY <2>2, <2>3, <1>1 DEF NoSecond
  <2>5. \A d \in Call : run[d].at \in {"input", "route"} => run'[d] = run[d]
    BY <1>1
  <2>6. AllServed'
    BY <2>2, <2>5 DEF AllServed, Served, Says, Started, Running, Alive
  <2>7. QED
    BY <2>4, <2>6
<1>10. QED
  BY <1>2, <1>4, <1>5, <1>7, <1>8, <1>9 DEF IInv, Always

LEMMA RunStatusStep ==
    ASSUME IInv, NEW c \in Call, RunStatus(c)
    PROVE  IInv'
<1>0. TypeInv /\ NamesInv /\ run[c] \in RunType /\ run[c].at = "status"
  BY DEF IInv, Always, TypeInv, RunStatus
<1>1. run[c] \in [at : {"lock", "status"}, ctl : Ctl, force : BOOLEAN, conn : Conn \cup {None}]
  BY <1>0, RunFields
<1>2. PICK r : /\ RunGoto(c, r)
               /\ \/ run[c].conn # None /\ r = [run[c] EXCEPT !.at = "setup"]
                  \/ r = [run[c] EXCEPT !.at = "unlock"]
  BY <1>0 DEF RunStatus
<1>3. /\ r.ctl = run[c].ctl /\ r.at \in {"setup", "unlock"}
      /\ \/ r \in [at : {"setup"}, ctl : Ctl, force : BOOLEAN, conn : Conn]
         \/ r \in [at : {"lock", "status", "unlock"}, ctl : Ctl, force : BOOLEAN, conn : Conn \cup {None}]
  BY <1>1, <1>2
<1>4. r \in RunType
  BY <1>3, RunKinds, Zenon
<1>5. UNCHANGED <<meta, edits, registry, ctl, proc, route, call, raced>> /\ raced \subseteq Race
  BY <1>0 DEF RunStatus, TypeInv
<1>6. QED
  BY <1>0, <1>2, <1>3, <1>4, <1>5, RunChange
\* A process is started: it lingers until its goroutines have run, and the
\* controller of the one that has the run lock says nothing of it yet.
LEMMA SetupProc ==
    ASSUME IInv, NEW c \in Call, NEW p \in Proc, proc[p] = None,
           run[c].at = "setup", ctl[run[c].ctl].status # "running",
           RunGoto(c, [at |-> "publish", ctl |-> run[c].ctl, proc |-> p]),
           proc' = [proc EXCEPT ![p] = NewProc(run[c].ctl, run[c].conn)],
           UNCHANGED <<meta, edits, registry, ctl, route, call, raced>>
    PROVE  IInv'
<1>0. TypeInv /\ NamesInv /\ LivesInv /\ LockInv
  BY DEF IInv, Always
<1>1. PICK k : k = run[c].ctl
  OBVIOUS
<1>2. PICK r : r = [at |-> "publish", ctl |-> k, proc |-> p]
  OBVIOUS
<1>3. PICK s : s = NewProc(k, run[c].conn)
  OBVIOUS
<1>4. k \in Made /\ k \in Ctl /\ run[c].conn \in Conn
  <2>1. run[c] \in [at : {"setup"}, ctl : Ctl, force : BOOLEAN, conn : Conn]
    BY <1>0, RunFields DEF TypeInv
  <2>2. QED
    BY <2>1, <1>0, <1>1 DEF NamesInv
<1>5. /\ s \in ProcState /\ s # None /\ s.owner = k /\ ~s.closing /\ ~s.exited /\ ~s.done
      /\ s.wait = "none" /\ s.read = "none"
  <2>1. /\ s \in ProcState /\ s.owner = k /\ ~s.closing /\ ~s.exited /\ ~s.done
        /\ s.wait = "none" /\ s.read = "none"
    BY <1>3, <1>4 DEF NewProc, ProcState
  <2>2. s # None
    BY <2>1, ShellAssumption
  <2>3. QED
    BY <2>1, <2>2
<1>6. r \in RunType /\ r.at = "publish" /\ r.ctl = k /\ r.proc = p
  <2>1. r \in [at : {"publish"}, ctl : Ctl, proc : Proc]
    BY <1>2, <1>4
  <2>2. QED
    BY <1>2, <2>1, RunKinds
<1>7. RunGoto(c, r) /\ proc' = [proc EXCEPT ![p] = s]
  BY <1>1, <1>2, <1>3
<1>8. /\ run' \in [Call -> RunType] /\ run'[c] = r
      /\ \A d \in Call : d # c => run'[d] = run[d]
  BY <1>0, <1>6, <1>7, RunUpdate
<1>9. /\ proc' \in [Proc -> ProcState \cup {None}] /\ proc'[p] = s
      /\ \A q \in Proc : q # p => proc'[q] = proc[q]
  BY <1>0, <1>5, <1>7 DEF TypeInv
<1>10. /\ Started' = Started \cup {p} /\ p \notin Started /\ Made' = Made
       /\ \A q \in Started : q # p /\ proc'[q] = proc[q]
  BY <1>5, <1>9 DEF Started, Made
<1>11. TypeInv'
  BY <1>0, <1>8, <1>9 DEF TypeInv
<1>12. call[c].at = "end" /\ run[c].at # "none"
  BY <1>0 DEF NamesInv, NoRun
<1>13. NamesInv'
  <2>1. ASSUME NEW d \in Call
        PROVE  CallNames(call[d])'
    BY <1>0, <1>10 DEF NamesInv, CallNames
  <2>2. ASSUME NEW d \in Call, run'[d].at # "none"
        PROVE  run'[d].ctl \in Made
    BY <2>2, <1>0, <1>4, <1>6, <1>8 DEF NamesInv
  <2>3. ASSUME NEW d \in Call, call'[d].at # "end"
        PROVE  run'[d] = NoRun
    BY <2>3, <1>0, <1>8, <1>12 DEF NamesInv
  <2>4. ASSUME NEW q \in Started'
        PROVE  proc'[q].owner \in Made
    BY <2>4, <1>0, <1>4, <1>5, <1>9, <1>10 DEF NamesInv
  <2>5. QED
    BY <2>1, <2>2, <2>3, <2>4, <1>0, <1>10 DEF NamesInv
<1>14. LivesInv'
  <2>1. ASSUME NEW q \in Started'
        PROVE  /\ proc'[q].done => proc'[q].exited
               /\ proc'[q].wait \in {"unregister", "status", "end"} => proc'[q].exited
               /\ proc'[q].read \in {"closed", "end"} => proc'[q].closing
    BY <2>1, <1>0, <1>5, <1>9, <1>10 DEF LivesInv
  <2>2. QED
    BY <2>1, <1>0, <1>10 DEF LivesInv
<1>15. \A d \in Call : /\ Holds(d)' <=> Holds(d)
                       /\ run'[d].at # "none" => run'[d].ctl = run[d].ctl /\ run[d].at # "none"
                       /\ run'[d].at \in {"input", "route"} => d # c
  BY <1>1, <1>6, <1>8, <1>12 DEF Holds, Held
<1>16. LockInv'
  <2>1. ASSUME NEW d \in Call, Holds(d)'
        PROVE  ctl[run'[d].ctl].runLock
    BY <2>1, <1>0, <1>15 DEF LockInv, Holds, Held
  <2>2. ASSUME NEW d \in Call, NEW e \in Call, Holds(d)', Holds(e)', run'[d].ctl = run'[e].ctl
        PROVE  d = e
    BY <2>2, <1>0, <1>15 DEF LockInv, Holds, Held
  <2>3. ASSUME NEW d \in Call, run'[d].at = "publish"
        PROVE  Fresh(run[d].ctl, run[d].proc)'
    <3>1. CASE d = c
      <4>1. \A j \in Made : ctl[j].proc # p
        BY <1>0, <1>10, ShellAssumption DEF NamesInv
      <4>2. QED
        BY <3>1, <4>1, <1>1, <1>5, <1>6, <1>8, <1>9, <1>10 DEF Fresh
    <3>2. CASE d # c
      <4>1. run'[d] = run[d] /\ Fresh(run[d].ctl, run[d].proc)
        BY <2>3, <3>2, <1>0, <1>8 DEF LockInv
      <4>2. QED
        BY <4>1, <1>10 DEF Fresh
    <3>3. QED
      BY <3>1, <3>2
  <2>4. ASSUME NEW d \in Call, run'[d].at \in {"input", "route"}, run'[d].proc # Nobody
        PROVE  ctl[run'[d].ctl].proc = run'[d].proc
    BY <2>4, <1>0, <1>8, <1>15 DEF LockInv
  <2>5. QED
    BY <2>1, <2>2, <2>3, <2>4 DEF LockInv
<1>17. Alone'
  <2>1. SUFFICES ASSUME raced \subseteq {"second", "lostStop"}
                 PROVE  OneCtl' /\ OneProc'
    BY DEF Alone
  <2>2. OneCtl /\ OneProc
    BY <2>1 DEF IInv, Alone
  <2>3. k = registry /\ ~Says(registry)
    BY <2>2, <1>1, <1>12 DEF OneCtl, Says
  <2>4. OneCtl'
    BY <2>2, <2>3, <1>10, <1>15 DEF OneCtl, CallSole, Says
  <2>5. ASSUME NEW q \in Started', Running(q)'
        PROVE  /\ proc'[q].owner = registry
               /\ \E d \in Call : run'[d].at = "publish" /\ run'[d].proc = q
    <3>1. CASE q = p
      BY <3>1, <2>3, <1>5, <1>6, <1>8, <1>9
    <3>2. CASE q # p
      <4>1. q \in Started /\ proc'[q] = proc[q] /\ Running(q)
        BY <2>5, <3>2, <1>10 DEF Running, Alive
      <4>2. PICK d \in Call : run[d].at = "publish" /\ run[d].proc = q
        BY <4>1, <2>2, <2>3 DEF OneProc
      <4>3. proc[q].owner = registry
        BY <4>1, <2>2 DEF OneProc
      <4>4. QED
        BY <4>1, <4>2, <4>3, <1>8
    <3>3. QED
      BY <3>1, <3>2
  <2>6. OneProc'
    BY <2>5 DEF OneProc
  <2>7. QED
    BY <2>4, <2>6
<1>18. InOrder'
  <2>1. SUFFICES ASSUME raced \subseteq {"lostStop"}
                 PROVE  NoSecond' /\ AllServed'
    BY DEF InOrder
  <2>2. NoSecond /\ OneCtl
    BY <2>1 DEF IInv, InOrder, Alone
  <2>3. NoSecond'
    BY <2>2, <1>8, <1>15 DEF NoSecond
  <2>4. ~Says(registry)'
    BY <2>2, <1>12 DEF OneCtl, Says
  <2>5. QED
    BY <2>3, <2>4 DEF AllServed
<1>19. QED
  BY <1>11, <1>13, <1>14, <1>16, <1>17, <1>18 DEF IInv, Always

LEMMA SetupStep ==
    ASSUME IInv, NEW c \in Call, Setup(c)
    PROVE  IInv'
<1>0. TypeInv /\ NamesInv /\ run[c] \in RunType /\ run[c].at = "setup"
  BY DEF IInv, Always, TypeInv, Setup
<1>1. run[c] \in [at : {"setup"}, ctl : Ctl, force : BOOLEAN, conn : Conn]
  BY <1>0, RunFields
<1>2. UNCHANGED <<meta, edits, registry, ctl, route, call>> /\ raced \subseteq Race
  BY <1>0 DEF Setup, TypeInv
<1>3. CASE ctl[run[c].ctl].status = "running"
  <2>1. PICK r : r = [at |-> "input", ctl |-> run[c].ctl, proc |-> Nobody]
    OBVIOUS
  <2>2. r \in [at : {"input", "route", "unlock"}, ctl : Ctl, proc : Proc \cup {Nobody}]
    BY <1>1, <2>1
  <2>3. r \in RunType /\ r.at = "input" /\ r.ctl = run[c].ctl /\ r.proc = Nobody
    BY <2>1, <2>2, RunKinds
  <2>4. RunGoto(c, r) /\ raced' = raced \cup {"second"} /\ proc' = proc
    BY <1>3, <2>1 DEF Setup
  <2>5. raced \subseteq raced' /\ raced' \subseteq Race /\ "second" \in raced'
    BY <1>2, <2>4 DEF Race
  <2>6. QED
    BY <1>0, <1>2, <2>3, <2>4, <2>5, RunChange
<1>4. CASE ctl[run[c].ctl].status # "running" /\ RunGoto(c, [run[c] EXCEPT !.at = "unlock"])
           /\ UNCHANGED <<proc, raced>>
  <2>1. PICK r : r = [run[c] EXCEPT !.at = "unlock"]
    OBVIOUS
  <2>2. r \in [at : {"lock", "status", "unlock"}, ctl : Ctl, force : BOOLEAN, conn : Conn \cup {None}]
    BY <1>1, <2>1
  <2>3. r \in RunType /\ r.at = "unlock" /\ r.ctl = run[c].ctl
    BY <1>1, <2>1, <2>2, RunKinds
  <2>4. QED
    BY <1>0, <1>2, <1>4, <2>1, <2>3, RunChange
<1>5. CASE ctl[run[c].ctl].status # "running" /\ Started # Proc /\ UNCHANGED raced
           /\ \E p \in Proc : /\ p = CHOOSE q \in Proc : proc[q] = None
                              /\ RunGoto(c, [at |-> "publish", ctl |-> run[c].ctl, proc |-> p])
                              /\ proc' = [proc EXCEPT ![p] = NewProc(run[c].ctl, run[c].conn)]
  <2>1. PICK p \in Proc : /\ p = CHOOSE q \in Proc : proc[q] = None
                          /\ RunGoto(c, [at |-> "publish", ctl |-> run[c].ctl, proc |-> p])
                          /\ proc' = [proc EXCEPT ![p] = NewProc(run[c].ctl, run[c].conn)]
    BY <1>5
  <2>2. proc[p] = None
    BY <1>5, <2>1 DEF Started
  <2>3. QED
    BY <1>0, <1>2, <1>5, <2>1, <2>2, SetupProc
<1>6. ASSUME Started # Proc
      PROVE  (CHOOSE q \in Proc : proc[q] = None) \in Proc
  BY <1>6 DEF Started
<1>7. QED
  BY <1>3, <1>4, <1>5, <1>6, Zenon DEF Setup
\* The status says running, and unless goroutines overlap all other processes
\* of the block are past.
LEMMA PublishStep ==
    ASSUME IInv, NEW c \in Call, Publish(c)
    PROVE  IInv'
<1>0. /\ TypeInv /\ NamesInv /\ LivesInv /\ LockInv
      /\ run[c] \in RunType /\ run[c].at = "publish"
  BY DEF IInv, Always, TypeInv, Publish
<1>1. PICK k : k = run[c].ctl
  OBVIOUS
<1>2. PICK p : p = run[c].proc
  OBVIOUS
<1>3. /\ k \in Made /\ k \in Ctl /\ ctl[k] \in CtlState
      /\ p \in Started /\ p \in Proc /\ Fresh(k, p)
  BY <1>0, <1>1, <1>2, States DEF NamesInv, LockInv, Fresh
<1>4. PICK t : t = [ctl[k] EXCEPT !.proc = p, !.status = "running"]
  OBVIOUS
<1>5. /\ t \in CtlState /\ t.proc = p /\ t.status = "running" /\ t.input = ctl[k].input
      /\ t.runLock = ctl[k].runLock
  BY <1>3, <1>4 DEF CtlState
<1>6. PICK r : r = [run[c] EXCEPT !.at = "input"]
  OBVIOUS
<1>7. r \in RunType /\ r.at = "input" /\ r.ctl = k /\ r.proc = p
  <2>1. run[c] \in [at : {"publish"}, ctl : Ctl, proc : Proc]
    BY <1>0, RunFields
  <2>2. /\ r \in [at : {"input", "route", "unlock"}, ctl : Ctl, proc : Proc \cup {Nobody}]
        /\ r.at = "input" /\ r.ctl = k /\ r.proc = p
    BY <1>1, <1>2, <1>6, <2>1
  <2>3. QED
    BY <2>2, RunKinds
<1>8. /\ RunGoto(c, r) /\ ctl' = [ctl EXCEPT ![k] = t]
      /\ UNCHANGED <<meta, edits, registry, proc, route, call>>
  BY <1>0, <1>1, <1>2, <1>3, <1>4, <1>6 DEF Publish, TypeInv
<1>9. /\ raced' = raced \/ (raced' = raced \cup {"overlap"})
      /\ "overlap" \notin raced' => \A q \in Started \ {p} : Running(q) \/ ~Lingers(q)
  BY <1>2 DEF Publish
<1>10. /\ run' \in [Call -> RunType] /\ run'[c] = r
       /\ \A d \in Call : d # c => run'[d] = run[d]
  BY <1>0, <1>7, <1>8, RunUpdate
<1>11. /\ ctl' \in [Ctl -> CtlState \cup {None}] /\ Made' = Made /\ ctl'[k] = t
       /\ \A j \in Ctl : j # k => ctl'[j] = ctl[j]
  BY <1>0, <1>3, <1>5, <1>8, CtlUpdate
<1>12. Started' = Started /\ \A j \in Made : j \in Ctl
  BY <1>8 DEF Started, Made
<1>13. TypeInv'
  BY <1>0, <1>8, <1>9, <1>10, <1>11 DEF TypeInv, Race
<1>14. call[c].at = "end"
  BY <1>0 DEF NamesInv, NoRun
<1>15. NamesInv'
  <2>1. ASSUME NEW d \in Call
        PROVE  CallNames(call[d])'
    BY <1>0, <1>8, <1>11, <1>12 DEF NamesInv, CallNames
  <2>2. ASSUME NEW d \in Call, run'[d].at # "none"
        PROVE  run'[d].ctl \in Made
    BY <2>2, <1>0, <1>3, <1>7, <1>10 DEF NamesInv
  <2>3. ASSUME NEW d \in Call, call'[d].at # "end"
        PROVE  run'[d] = NoRun
    BY <2>3, <1>0, <1>8, <1>10, <1>14 DEF NamesInv
  <2>4. ASSUME NEW j \in Made, ctl'[j].proc # None
        PROVE  ctl'[j].proc \in Started /\ proc[ctl'[j].proc].owner = j
    BY <2>4, <1>0, <1>3, <1>5, <1>11, <1>12 DEF NamesInv, Fresh
  <2>5. QED
    BY <2>1, <2>2, <2>3, <2>4, <1>0, <1>8, <1>11, <1>12 DEF NamesInv
<1>16. LivesInv'
  <2>1. p # None
    BY <1>3, ShellAssumption
  <2>2. ASSUME NEW j \in Made, ctl'[j].status = "running"
        PROVE  ctl'[j].proc # None
    BY <2>1, <2>2, <1>0, <1>5, <1>11, <1>12 DEF LivesInv
  <2>3. QED
    BY <2>2, <1>0, <1>8, <1>11, <1>12 DEF LivesInv
<1>17. \A d \in Call : /\ Holds(d)' <=> Holds(d)
                       /\ run'[d].at # "none" => run'[d].ctl = run[d].ctl /\ run[d].at # "none"
                       /\ run'[d].at \in {"publish", "route"} => d # c
  BY <1>0, <1>1, <1>7, <1>10 DEF Holds, Held
<1>18. ASSUME NEW d \in Call, d # c, Holds(d)
       PROVE  run[d].ctl # k
  BY <1>18, <1>0, <1>1 DEF LockInv, Holds, Held
<1>19. LockInv'
  <2>1. ASSUME NEW d \in Call, Holds(d)'
        PROVE  ctl'[run'[d].ctl].runLock
    <3>1. ctl[run[d].ctl].runLock /\ run'[d].ctl = run[d].ctl /\ run[d].ctl \in Made
      BY <2>1, <1>0, <1>17 DEF LockInv, NamesInv, Holds, Held
    <3>2. QED
      BY <3>1, <1>5, <1>11, <1>12
  <2>2. ASSUME NEW d \in Call, NEW e \in Call, Holds(d)', Holds(e)', run'[d].ctl = run'[e].ctl
        PROVE  d = e
    BY <2>2, <1>0, <1>17 DEF LockInv, Holds, Held
  <2>3. ASSUME NEW d \in Call, run'[d].at = "publish"
        PROVE  Fresh(run[d].ctl, run[d].proc)'
    <3>1. /\ d # c /\ run'[d] = run[d] /\ Fresh(run[d].ctl, run[d].proc)
          /\ run[d].ctl \in Made /\ run[d].ctl # k
      BY <2>3, <1>0, <1>10, <1>17, <1>18 DEF LockInv, NamesInv, Holds, Held
    <3>2. run[d].proc # p
      BY <3>1, <1>3 DEF Fresh
    <3>3. QED
      BY <3>1, <3>2, <1>5, <1>8, <1>11, <1>12 DEF Fresh
  <2>4. ASSUME NEW d \in Call, run'[d].at \in {"input", "route"}, run'[d].proc # Nobody
        PROVE  ctl'[run'[d].ctl].proc = run'[d].proc
    <3>1. CASE d = c
      BY <3>1, <1>5, <1>7, <1>10, <1>11
    <3>2. CASE d # c
      <4>1. run'[d] = run[d] /\ run[d].ctl \in Made /\ run[d].ctl # k
        BY <2>4, <3>2, <1>0, <1>10, <1>18 DEF NamesInv, Holds, Held
      <4>2. QED
        BY <2>4, <4>1, <1>0, <1>11, <1>12 DEF LockInv
    <3>3. QED
      BY <3>1, <3>2
  <2>5. QED
    BY <2>1, <2>2, <2>3, <2>4 DEF LockInv
<1>20. ASSUME OneCtl, OneProc
       PROVE  /\ k = registry /\ ~Says(registry)
              /\ \A q \in Started \ {p} : ~Running(q)
  <2>1. k = registry /\ ~Says(registry)
    BY <1>0, <1>1, <1>3, <1>20 DEF OneCtl, Says, Fresh
  <2>2. ASSUME NEW q \in Started \ {p}, Running(q)
        PROVE  FALSE
    <3>1. PICK d \in Call : run[d].at = "publish" /\ run[d].proc = q
      BY <2>1, <2>2, <1>20 DEF OneProc
    <3>2. d # c /\ run[d].ctl = k
      BY <2>1, <2>2, <3>1, <1>2, <1>20 DEF OneCtl
    <3>3. QED
      BY <3>1, <3>2, <1>18 DEF Holds, Held
  <2>3. QED
    BY <2>1, <2>2
<1>21. Alone'
  <2>1. SUFFICES ASSUME raced' \subseteq {"second", "lostStop"}
                 PROVE  OneCtl' /\ OneProc'
    BY DEF Alone
  <2>2. OneCtl /\ OneProc
    BY <2>1, <1>9 DEF IInv, Alone
  <2>3. k = registry /\ (\A q \in Started \ {p} : ~Running(q)) /\ "overlap" \notin raced'
    BY <2>1, <2>2, <1>20
  <2>4. \A q \in Started \ {p} : ~Lingers(q)
    BY <2>3, <1>9
  <2>5. \A q \in Started : (Lingers(q)' <=> Lingers(q)) /\ (Running(q)' <=> Running(q))
    BY <1>8, <1>12 DEF Lingers, Running, Alive
  <2>6. ASSUME NEW j \in Made, Says(j)'
        PROVE  j = registry
    BY <2>2, <2>3, <2>6, <1>11, <1>12 DEF OneCtl, Says
  <2>7. OneCtl'
    BY <2>2, <2>3, <2>4, <2>5, <2>6, <1>5, <1>8, <1>11, <1>12, <1>17 DEF OneCtl, CallSole
  <2>8. Says(registry)' /\ ctl'[registry].proc = p
    BY <2>3, <1>3, <1>5, <1>8, <1>11, ShellAssumption DEF Says
  <2>9. OneProc'
    BY <2>3, <2>5, <2>8, <1>3, <1>8, <1>12 DEF OneProc, Fresh
  <2>10. QED
    BY <2>7, <2>9
<1>22. InOrder'
  <2>1. SUFFICES ASSUME raced' \subseteq {"lostStop"}
                 PROVE  NoSecond' /\ AllServed'
    BY DEF InOrder
  <2>2. NoSecond /\ OneCtl /\ OneProc
    BY <2>1, <1>9 DEF IInv, InOrder, Alone
  <2>3. p # Nobody
    BY <1>3, ShellAssumption
  <2>4. NoSecond'
    BY <2>2, <2>3, <1>7, <1>10 DEF NoSecond
  <2>5. k = registry
    BY <2>2, <1>20
  <2>6. Served(p)'
    BY <1>3, <1>7, <1>8, <1>10 DEF Served, Fresh
  <2>7. QED
    BY <2>4, <2>5, <2>6, <1>5, <1>8, <1>11 DEF AllServed
<1>23. QED
  BY <1>13, <1>15, <1>16, <1>19, <1>21, <1>22 DEF IInv, Always

LEMMA SetInputChStep ==
    ASSUME IInv, NEW c \in Call, SetInputCh(c)
    PROVE  IInv'
<1>0. /\ TypeInv /\ NamesInv /\ LivesInv /\ LockInv
      /\ run[c] \in RunType /\ run[c].at = "input"
  BY DEF IInv, Always, TypeInv, SetInputCh
<1>1. PICK k : k = run[c].ctl
  OBVIOUS
<1>2. PICK p : p = run[c].proc
  OBVIOUS
<1>3. run[c] \in [at : {"input", "route"}, ctl : Ctl, proc : Proc \cup {Nobody}]
  BY <1>0, RunFields
<1>4. /\ k \in Made /\ k \in Ctl /\ ctl[k] \in CtlState
      /\ p \in Proc \cup {Nobody}
      /\ p # Nobody => ctl[k].proc = p
  BY <1>0, <1>1, <1>2, <1>3, States DEF NamesInv, LockInv
<1>5. PICK t : t = [ctl[k] EXCEPT !.input = p]
  OBVIOUS
<1>6. /\ t \in CtlState /\ t.proc = ctl[k].proc /\ t.status = ctl[k].status /\ t.input = p
      /\ t.runLock = ctl[k].runLock
  BY <1>4, <1>5 DEF CtlState
<1>7. PICK r : r = [run[c] EXCEPT !.at = "route"]
  OBVIOUS
<1>8. r \in RunType /\ r.at = "route" /\ r.ctl = k /\ r.proc = p
  <2>1. /\ r \in [at : {"input", "route", "unlock"}, ctl : Ctl, proc : Proc \cup {Nobody}]
        /\ r.at = "route" /\ r.ctl = k /\ r.proc = p
    BY <1>1, <1>2, <1>3, <1>7
  <2>2. QED
    BY <2>1, RunKinds
<1>9. /\ RunGoto(c, r) /\ ctl' = [ctl EXCEPT ![k] = t]
      /\ UNCHANGED <<meta, edits, registry, proc, route, call, raced>>
  BY <1>0, <1>1, <1>2, <1>4, <1>5, <1>7 DEF SetInputCh, TypeInv
<1>10. /\ run' \in [Call -> RunType] /\ run'[c] = r
       /\ \A d \in Call : d # c => run'[d] = run[d]
  BY <1>0, <1>8, <1>9, RunUpdate
<1>11. /\ ctl' \in [Ctl -> CtlState \cup {None}] /\ Made' = Made /\ ctl'[k] = t
       /\ \A j \in Ctl : j # k => ctl'[j] = ctl[j]
  BY <1>0, <1>4, <1>6, <1>9, CtlUpdate
<1>12. /\ Started' = Started
       /\ \A j \in Made : /\ ctl'[j].proc = ctl[j].proc /\ ctl'[j].status = ctl[j].status
                          /\ ctl'[j].runLock = ctl[j].runLock
                          /\ j # k => ctl'[j] = ctl[j]
  BY <1>6, <1>9, <1>11 DEF Started, Made
<1>13. TypeInv'
  BY <1>0, <1>9, <1>10, <1>11 DEF TypeInv
<1>14. call[c].at = "end"
  BY <1>0 DEF NamesInv, NoRun
<1>15. NamesInv'
  <2>1. ASSUME NEW d \in Call
        PROVE  CallNames(call[d])'
    BY <1>0, <1>9, <1>11, <1>12 DEF NamesInv, CallNames
  <2>2. ASSUME NEW d \in Call, run'[d].at # "none"
        PROVE  run'[d].ctl \in Made
    BY <2>2, <1>0, <1>4, <1>8, <1>10 DEF NamesInv
  <2>3. ASSUME NEW d \in Call, call'[d].at # "end"
        PROVE  run'[d] = NoRun
    BY <2>3, <1>0, <1>9, <1>10, <1>14 DEF NamesInv
  <2>4. QED
    BY <2>1, <2>2, <2>3, <1>0, <1>9, <1>11, <1>12 DEF NamesInv
<1>16. LivesInv'
  BY <1>0, <1>9, <1>11, <1>12 DEF LivesInv
<1>17. \A d \in Call : /\ Holds(d)' <=> Holds(d)
                       /\ run'[d].at # "none" => run'[d].ctl = run[d].ctl /\ run[d].at # "none"
                       /\ run'[d].at = "publish" => d # c
                       /\ run'[d].at \in {"input", "route"} =>
                             run[d].at \in {"input", "route"} /\ run'[d].proc = run[d].proc
  BY <1>0, <1>1, <1>2, <1>8, <1>10 DEF Holds, Held
<1>18. LockInv'
  <2>1. ASSUME NEW d \in Call, Holds(d)'
        PROVE  ctl'[run'[d].ctl].runLock
    BY <2>1, <1>0, <1>12, <1>17 DEF LockInv, NamesInv, Holds, Held
  <2>2. ASSUME NEW d \in Call, NEW e \in Call, Holds(d)', Holds(e)', run'[d].ctl = run'[e].ctl
        PROVE  d = e
    BY <2>2, <1>0, <1>17 DEF LockInv, Holds, Held
  <2>3. ASSUME NEW d \in Call, run'[d].at = "publish"
        PROVE  Fresh(run[d].ctl, run[d].proc)'
    <3>1. run'[d] = run[d] /\ Fresh(run[d].ctl, run[d].proc) /\ run[d].ctl \in Made
      BY <2>3, <1>0, <1>10, <1>17 DEF LockInv, NamesInv
    <3>2. QED
      BY <3>1, <1>9, <1>11, <1>12 DEF Fresh
  <2>4. ASSUME NEW d \in Call, run'[d].at \in {"input", "route"}, run'[d].proc # Nobody
        PROVE  ctl'[run'[d].ctl].proc = run'[d].proc
    <3>1. /\ run[d].at \in {"input", "route"} /\ run'[d].proc = run[d].proc /\ run'[d].ctl = run[d].ctl
          /\ run[d].ctl \in Made
      BY <2>4, <1>0, <1>17 DEF NamesInv
    <3>2. QED
      BY <2>4, <3>1, <1>0, <1>12 DEF LockInv
  <2>5. QED
    BY <2>1, <2>2, <2>3, <2>4 DEF LockInv
<1>19. registry \in Made \cup {None}
  BY <1>0 DEF NamesInv
<1>20. Alone'
  <2>1. SUFFICES ASSUME raced \subseteq {"second", "lostStop"}
                 PROVE  OneCtl' /\ OneProc'
    BY <1>9 DEF Alone
  <2>2. OneCtl /\ OneProc
    BY <2>1 DEF IInv, Alone
  <2>3. \A q \in Started : (Lingers(q)' <=> Lingers(q)) /\ (Running(q)' <=> Running(q))
    BY <1>9, <1>12 DEF Lingers, Running, Alive
  <2>4. Says(registry)' <=> Says(registry)
    BY <1>9, <1>12, <1>19 DEF Says
  <2>5. OneCtl'
    <3>1. \A j \in Made : Says(j)' => j = registry
      BY <2>2, <1>12 DEF OneCtl, Says
    <3>2. Says(registry) => ctl'[registry].proc = ctl[registry].proc
      BY <1>12, <1>19 DEF Says
    <3>3. QED
      BY <2>2, <2>3, <2>4, <3>1, <3>2, <1>9, <1>11, <1>12, <1>17 DEF OneCtl, CallSole
  <2>6. ASSUME NEW d \in Call, run[d].at = "publish"
        PROVE  run'[d] = run[d]
    BY <2>6, <1>0, <1>10
  <2>7. OneProc'
    BY <2>2, <2>3, <2>4, <2>6, <1>9, <1>12, <1>19 DEF OneProc, Says
  <2>8. QED
    BY <2>5, <2>7
<1>21. InOrder'
  <2>1. SUFFICES ASSUME raced \subseteq {"lostStop"}
                 PROVE  NoSecond' /\ AllServed'
    BY <1>9 DEF InOrder
  <2>2. NoSecond /\ AllServed /\ OneCtl
    BY <2>1 DEF IInv, InOrder, Alone
  <2>3. NoSecond'
    BY <2>2, <1>17 DEF NoSecond
  <2>4. k = registry /\ p # Nobody
    BY <2>2, <1>0, <1>1, <1>2 DEF OneCtl, NoSecond
  <2>5. ASSUME Says(registry)'
        PROVE  Served(ctl[registry].proc)'
    <3>1. Served(p) /\ ctl[k].proc = p
      BY <2>2, <2>4, <2>5, <1>4, <1>9, <1>12 DEF AllServed, Says
    <3>2. ctl'[registry].input = p /\ ctl'[registry].proc = p /\ registry' = registry
      BY <2>4, <3>1, <1>6, <1>9, <1>11
    <3>3. route = p \/ (\E d \in Call : run[d].at \in {"input", "route"} /\ run[d].proc = p)
             => route' = p \/ (\E d \in Call : run'[d].at \in {"input", "route"} /\ run'[d].proc = p)
      BY <1>8, <1>9, <1>10
    <3>4. Running(p)' <=> Running(p)
      BY <1>9, <1>12 DEF Running, Alive
    <3>5. Served(p)'
      BY <3>1, <3>2, <3>3, <3>4, <1>9 DEF Served
    <3>6. QED
      BY <3>2, <3>5
  <2>6. QED
    BY <2>3, <2>5 DEF AllServed
<1>22. QED
  BY <1>13, <1>15, <1>16, <1>18, <1>20, <1>21 DEF IInv, Always
LEMMA RegisterRouteStep ==
    ASSUME IInv, NEW c \in Call, RegisterRoute(c)
    PROVE  IInv'
<1>0. /\ TypeInv /\ NamesInv /\ LivesInv /\ LockInv
      /\ run[c] \in RunType /\ run[c].at = "route"
  BY DEF IInv, Always, TypeInv, RegisterRoute
<1>1. PICK k : k = run[c].ctl
  OBVIOUS
<1>2. PICK p : p = run[c].proc
  OBVIOUS
<1>3. run[c] \in [at : {"input", "route"}, ctl : Ctl, proc : Proc \cup {Nobody}]
  BY <1>0, RunFields
<1>4. /\ k \in Made /\ k \in Ctl /\ p \in Proc \cup {Nobody}
      /\ p # Nobody => ctl[k].proc = p /\ p \in Started /\ p \in Proc /\ proc[p] \in ProcState
  <2>1. k \in Made /\ k \in Ctl /\ p \in Proc \cup {Nobody} /\ (p # Nobody => ctl[k].proc = p)
    BY <1>0, <1>1, <1>2, <1>3 DEF NamesInv, LockInv
  <2>2. ASSUME p # Nobody
        PROVE  p \in Started
    BY <2>1, <2>2, <1>0, ShellAssumption DEF NamesInv
  <2>3. QED
    BY <2>1, <2>2, <1>0, States
<1>5. PICK r : r = [run[c] EXCEPT !.at = "unlock"]
  OBVIOUS
<1>6. r \in RunType /\ r.at = "unlock" /\ r.ctl = k
  <2>1. /\ r \in [at : {"input", "route", "unlock"}, ctl : Ctl, proc : Proc \cup {Nobody}]
        /\ r.at = "unlock" /\ r.ctl = k
    BY <1>1, <1>3, <1>5
  <2>2. QED
    BY <2>1, RunKinds
<1>7. /\ RunGoto(c, r) /\ route' = p
      /\ UNCHANGED <<meta, edits, registry, ctl, call, raced>>
  BY <1>2, <1>5 DEF RegisterRoute
<1>8. /\ run' \in [Call -> RunType] /\ run'[c] = r
      /\ \A d \in Call : d # c => run'[d] = run[d]
  BY <1>0, <1>6, <1>7, RunUpdate
<1>9. /\ proc' \in [Proc -> ProcState \cup {None}] /\ Started' = Started
      /\ \A q \in Started : /\ proc'[q].owner = proc[q].owner /\ proc'[q].closing = proc[q].closing
                            /\ proc'[q].exited = proc[q].exited /\ proc'[q].done = proc[q].done
                            /\ q # p \/ p = Nobody => proc'[q] = proc[q]
                            /\ q = p => proc'[q].wait = "waiting" /\ proc'[q].read = "reading"
                            /\ Running(q)' <=> Running(q)
  <2>1. CASE p = Nobody
    <3>1. proc' = proc
      BY <1>2, <2>1 DEF RegisterRoute
    <3>2. \A q \in Started : q # Nobody
      BY ShellAssumption DEF Started
    <3>3. QED
      BY <2>1, <3>1, <3>2, <1>0 DEF TypeInv, Started, Running, Alive
  <2>2. CASE p # Nobody
    <3>1. PICK s : s = [proc[p] EXCEPT !.wait = "waiting", !.read = "reading"]
      OBVIOUS
    <3>2. /\ s \in ProcState /\ s.owner = proc[p].owner /\ s.closing = proc[p].closing
          /\ s.exited = proc[p].exited /\ s.done = proc[p].done /\ s.wait = "waiting"
          /\ s.read = "reading"
      BY <2>2, <3>1, <1>4 DEF ProcState
    <3>3. proc' = [proc EXCEPT ![p] = s]
      BY <2>2, <3>1, <1>0, <1>2, <1>4 DEF RegisterRoute, TypeInv
    <3>4. /\ proc' \in [Proc -> ProcState \cup {None}] /\ Started' = Started /\ proc'[p] = s
          /\ \A q \in Proc : q # p => proc'[q] = proc[q]
      BY <2>2, <3>2, <3>3, <1>0, <1>4, ProcUpdate
    <3>5. ASSUME NEW q \in Started
          PROVE  /\ proc'[q].owner = proc[q].owner /\ proc'[q].closing = proc[q].closing
                 /\ proc'[q].exited = proc[q].exited /\ proc'[q].done = proc[q].done
                 /\ q # p => proc'[q] = proc[q]
                 /\ q = p => proc'[q].wait = "waiting" /\ proc'[q].read = "reading"
                 /\ Running(q)' <=> Running(q)
      BY <3>2, <3>4 DEF Running, Alive, Started
    <3>6. QED
      BY <2>2, <3>4, <3>5
  <2>3. QED
    BY <2>1, <2>2
<1>10. TypeInv'
  BY <1>0, <1>4, <1>7, <1>8, <1>9 DEF TypeInv
<1>11. call[c].at = "end" /\ Made' = Made
  BY <1>0, <1>7 DEF NamesInv, NoRun, Made
<1>12. NamesInv'
  <2>1. ASSUME NEW d \in Call
        PROVE  CallNames(call[d])'
    BY <1>0, <1>7, <1>9, <1>11 DEF NamesInv, CallNames
  <2>2. ASSUME NEW d \in Call, run'[d].at # "none"
        PROVE  run'[d].ctl \in Made
    BY <2>2, <1>0, <1>4, <1>6, <1>8 DEF NamesInv
  <2>3. ASSUME NEW d \in Call, call'[d].at # "end"
        PROVE  run'[d] = NoRun
    BY <2>3, <1>0, <1>7, <1>8, <1>11 DEF NamesInv
  <2>4. QED
    BY <2>1, <2>2, <2>3, <1>0, <1>7, <1>9, <1>11 DEF NamesInv
<1>13. LivesInv'
  <2>1. ASSUME NEW q \in Started
        PROVE  /\ proc'[q].done => proc'[q].exited
               /\ proc'[q].wait \in {"unregister", "status", "end"} => proc'[q].exited
               /\ proc'[q].read \in {"closed", "end"} => proc'[q].closing
    BY <1>0, <1>9 DEF LivesInv
  <2>2. QED
    BY <2>1, <1>0, <1>7, <1>9, <1>11 DEF LivesInv
<1>14. \A d \in Call : /\ Holds(d)' <=> Holds(d)
                       /\ run'[d].at # "none" => run'[d].ctl = run[d].ctl /\ run[d].at # "none"
                       /\ run'[d].at \in {"publish", "input", "route"} => d # c /\ run'[d] = run[d]
                       /\ run[d].at \in {"publish", "input"} => run'[d] = run[d]
  BY <1>0, <1>1, <1>6, <1>8 DEF Holds, Held
<1>15. LockInv'
  <2>1. ASSUME NEW d \in Call, Holds(d)'
        PROVE  ctl'[run'[d].ctl].runLock
    BY <2>1, <1>0, <1>7, <1>14 DEF LockInv, Holds, Held
  <2>2. ASSUME NEW d \in Call, NEW e \in Call, Holds(d)', Holds(e)', run'[d].ctl = run'[e].ctl
        PROVE  d = e
    BY <2>2, <1>0, <1>14 DEF LockInv, Holds, Held
  <2>3. ASSUME NEW d \in Call, run'[d].at = "publish"
        PROVE  Fresh(run[d].ctl, run[d].proc)'
    <3>1. run'[d] = run[d] /\ Fresh(run[d].ctl, run[d].proc)
      BY <2>3, <1>0, <1>14 DEF LockInv
    <3>2. p # Nobody => run[d].proc # p
      BY <3>1, <1>4 DEF Fresh
    <3>3. QED
      BY <3>1, <3>2, <1>7, <1>9, <1>11 DEF Fresh
  <2>4. ASSUME NEW d \in Call, run'[d].at \in {"input", "route"}, run'[d].proc # Nobody
        PROVE  ctl'[run'[d].ctl].proc = run'[d].proc
    BY <2>4, <1>0, <1>7, <1>14 DEF LockInv
  <2>5. QED
    BY <2>1, <2>2, <2>3, <2>4 DEF LockInv
<1>16. Alone'
  <2>1. SUFFICES ASSUME raced \subseteq {"second", "lostStop"}
                 PROVE  OneCtl' /\ OneProc'
    BY <1>7 DEF Alone
  <2>2. OneCtl /\ OneProc
    BY <2>1 DEF IInv, Alone
  <2>3. Says(registry) /\ p # Nobody => p = ctl[registry].proc
    BY <2>2, <1>0, <1>1, <1>4 DEF OneCtl
  <2>4. ASSUME Says(registry), NEW q \in Started, q # ctl[registry].proc
        PROVE  ~Lingers(q)'
    BY <2>2, <2>3, <2>4, <1>9 DEF OneCtl, Lingers
  <2>5. OneCtl'
    BY <2>2, <2>4, <1>7, <1>9, <1>11, <1>14 DEF OneCtl, CallSole, Says
  <2>6. OneProc'
    BY <2>2, <1>7, <1>9, <1>14 DEF OneProc, Says
  <2>7. QED
    BY <2>5, <2>6
<1>17. InOrder'
  <2>1. SUFFICES ASSUME raced \subseteq {"lostStop"}
                 PROVE  NoSecond' /\ AllServed'
    BY <1>7 DEF InOrder
  <2>2. NoSecond /\ AllServed /\ OneCtl
    BY <2>1 DEF IInv, InOrder, Alone
  <2>3. NoSecond'
    BY <2>2, <1>14 DEF NoSecond
  <2>4. k = registry /\ p # Nobody
    BY <2>2, <1>0, <1>1, <1>2 DEF OneCtl, NoSecond
  <2>5. ASSUME Says(registry)
        PROVE  Served(ctl[registry].proc)'
    <3>1. Served(p) /\ ctl[registry].proc = p /\ p \in Started
      BY <2>2, <2>4, <2>5, <1>4 DEF AllServed
    <3>2. ctl[registry].input = p \/ (\E d \in Call : run[d].at = "input" /\ run[d].proc = p)
             => ctl'[registry].input = p \/ (\E d \in Call : run'[d].at = "input" /\ run'[d].proc = p)
      BY <1>7, <1>14
    <3>3. Served(p)'
      BY <3>1, <3>2, <1>7, <1>9 DEF Served
    <3>4. QED
      BY <3>1, <3>3, <1>7
  <2>6. QED
    BY <2>3, <2>5, <1>7 DEF AllServed, Says
<1>18. QED
  BY <1>10, <1>12, <1>13, <1>15, <1>16, <1>17 DEF IInv, Always

LEMMA UnlockRunLockStep ==
    ASSUME IInv, NEW c \in Call, UnlockRunLock(c)
    PROVE  IInv'
<1>0. /\ TypeInv /\ NamesInv /\ LivesInv /\ LockInv
      /\ run[c] \in RunType /\ run[c].at = "unlock"
  BY DEF IInv, Always, TypeInv, UnlockRunLock
<1>1. PICK k : k = run[c].ctl
  OBVIOUS
<1>2. k \in Made /\ k \in Ctl /\ ctl[k] \in CtlState
  BY <1>0, <1>1, States DEF NamesInv
<1>3. PICK t : t = [ctl[k] EXCEPT !.runLock = FALSE]
  OBVIOUS
<1>4. t \in CtlState /\ t.proc = ctl[k].proc /\ t.status = ctl[k].status /\ t.input = ctl[k].input
  BY <1>2, <1>3 DEF CtlState
<1>5. /\ RunGoto(c, NoRun) /\ ctl' = [ctl EXCEPT ![k] = t]
      /\ UNCHANGED <<meta, edits, registry, proc, route, call, raced>>
  BY <1>0, <1>1, <1>2, <1>3 DEF UnlockRunLock, TypeInv
<1>6. /\ run' \in [Call -> RunType] /\ run'[c] = NoRun
      /\ \A d \in Call : d # c => run'[d] = run[d]
  BY <1>0, <1>5, RunKinds, RunUpdate
<1>7. /\ ctl' \in [Ctl -> CtlState \cup {None}] /\ Made' = Made /\ ctl'[k] = t
      /\ \A j \in Ctl : j # k => ctl'[j] = ctl[j]
  BY <1>0, <1>2, <1>4, <1>5, CtlUpdate
<1>8. /\ Started' = Started
      /\ \A j \in Made : /\ ctl'[j].proc = ctl[j].proc /\ ctl'[j].status = ctl[j].status
                         /\ ctl'[j].input = ctl[j].input
                         /\ j # k => ctl'[j] = ctl[j]
  BY <1>4, <1>5, <1>7 DEF Started, Made
<1>9. TypeInv'
  BY <1>0, <1>5, <1>6, <1>7 DEF TypeInv
<1>10. \A d \in Call : /\ run'[d].at # "none" => d # c /\ run'[d] = run[d]
                       /\ run[d].at \in {"publish", "input", "route"} => run'[d] = run[d]
  BY <1>0, <1>6 DEF NoRun
<1>11. NamesInv'
  <2>1. ASSUME NEW d \in Call
        PROVE  CallNames(call[d])'
    BY <1>0, <1>5, <1>7, <1>8 DEF NamesInv, CallNames
  <2>2. ASSUME NEW d \in Call, run'[d].at # "none"
        PROVE  run'[d].ctl \in Made
    BY <2>2, <1>0, <1>10 DEF NamesInv
  <2>3. ASSUME NEW d \in Call, call'[d].at # "end"
        PROVE  run'[d] = NoRun
    BY <2>3, <1>0, <1>5, <1>6 DEF NamesInv
  <2>4. QED
    BY <2>1, <2>2, <2>3, <1>0, <1>5, <1>7, <1>8 DEF NamesInv
<1>12. LivesInv'
  BY <1>0, <1>5, <1>7, <1>8 DEF LivesInv
<1>13. ASSUME NEW d \in Call, Holds(d)'
       PROVE  Holds(d) /\ run'[d] = run[d] /\ run[d].ctl # k /\ run[d].ctl \in Made
  BY <1>13, <1>0, <1>1, <1>10 DEF LockInv, NamesInv, Holds, Held
<1>14. LockInv'
  <2>1. ASSUME NEW d \in Call, Holds(d)'
        PROVE  ctl'[run'[d].ctl].runLock
    BY <2>1, <1>0, <1>8, <1>13 DEF LockInv
  <2>2. ASSUME NEW d \in Call, NEW e \in Call, Holds(d)', Holds(e)', run'[d].ctl = run'[e].ctl
        PROVE  d = e
    BY <2>2, <1>0, <1>13 DEF LockInv
  <2>3. ASSUME NEW d \in Call, run'[d].at = "publish"
        PROVE  Fresh(run[d].ctl, run[d].proc)'
    <3>1. run'[d] = run[d] /\ Fresh(run[d].ctl, run[d].proc) /\ run[d].ctl \in Made
      BY <2>3, <1>0, <1>10 DEF LockInv, NamesInv
    <3>2. QED
      BY <3>1, <1>5, <1>7, <1>8 DEF Fresh
  <2>4. ASSUME NEW d \in Call, run'[d].at \in {"input", "route"}, run'[d].proc # Nobody
        PROVE  ctl'[run'[d].ctl].proc = run'[d].proc
    BY <2>4, <1>0, <1>8, <1>10 DEF LockInv, NamesInv
  <2>5. QED
    BY <2>1, <2>2, <2>3, <2>4 DEF LockInv
<1>15. registry \in Made \cup {None}
  BY <1>0 DEF NamesInv
<1>16. /\ \A q \in Started : (Lingers(q)' <=> Lingers(q)) /\ (Running(q)' <=> Running(q))
       /\ Says(registry)' <=> Says(registry)
       /\ Says(registry) => /\ ctl'[registry].proc = ctl[registry].proc
                            /\ ctl'[registry].input = ctl[registry].input
  BY <1>5, <1>8, <1>15 DEF Lingers, Running, Alive, Says
<1>17. Alone'
  <2>1. SUFFICES ASSUME raced \subseteq {"second", "lostStop"}
                 PROVE  OneCtl' /\ OneProc'
    BY <1>5 DEF Alone
  <2>2. OneCtl /\ OneProc
    BY <2>1 DEF IInv, Alone
  <2>3. \A j \in Made : Says(j)' => j = registry
    BY <2>2, <1>8 DEF OneCtl, Says
  <2>4. OneCtl'
    BY <2>2, <2>3, <1>5, <1>7, <1>8, <1>10, <1>16 DEF OneCtl, CallSole
  <2>5. OneProc'
    BY <2>2, <1>5, <1>8, <1>10, <1>16 DEF OneProc
  <2>6. QED
    BY <2>4, <2>5
<1>18. InOrder'
  <2>1. SUFFICES ASSUME raced \subseteq {"lostStop"}
                 PROVE  NoSecond' /\ AllServed'
    BY <1>5 DEF InOrder
  <2>2. NoSecond /\ AllServed
    BY <2>1 DEF IInv, InOrder
  <2>3. NoSecond'
    BY <2>2, <1>10 DEF NoSecond
  <2>4. ASSUME Says(registry)
        PROVE  Served(ctl[registry].proc)'
    <3>1. PICK p : p = ctl[registry].proc
      OBVIOUS
    <3>2. Served(p) /\ p \in Started
      BY <2>2, <2>4, <3>1, <1>0, <1>15 DEF AllServed, Says, NamesInv, LivesInv
    <3>3. Served(p)'
      BY <2>4, <3>2, <1>5, <1>10, <1>16 DEF Served
    <3>4. QED
      BY <2>4, <3>1, <3>3, <1>5, <1>16
  <2>5. QED
    BY <2>3, <2>4, <1>16 DEF AllServed
<1>19. QED
  BY <1>9, <1>11, <1>12, <1>14, <1>17, <1>18 DEF IInv, Always
-----------------------------------------------------------------------------
(* Steps of Stop                                                           *)

\* A process is told to end.
LEMMA CloseUpdate ==
    ASSUME TypeInv, NEW p \in Started, Close(p)
    PROVE  /\ proc' \in [Proc -> ProcState \cup {None}]
           /\ Started' = Started
           /\ \A q \in Started : /\ proc'[q].owner = proc[q].owner /\ proc'[q].exited = proc[q].exited
                                 /\ proc'[q].done = proc[q].done /\ proc'[q].wait = proc[q].wait
                                 /\ proc'[q].read = proc[q].read
                                 /\ proc[q].closing => proc'[q].closing
                                 /\ q # p => proc'[q] = proc[q]
           /\ proc'[p].closing
<1>1. p \in Proc /\ proc[p] \in ProcState
  BY States
<1>2. PICK s : s = [proc[p] EXCEPT !.closing = TRUE]
  OBVIOUS
<1>3. /\ s \in ProcState /\ s.owner = proc[p].owner /\ s.exited = proc[p].exited /\ s.done = proc[p].done
      /\ s.wait = proc[p].wait /\ s.read = proc[p].read /\ s.closing
  BY <1>1, <1>2 DEF ProcState
<1>4. proc' = [proc EXCEPT ![p] = s]
  BY <1>1, <1>2 DEF Close, TypeInv
<1>5. /\ proc' \in [Proc -> ProcState \cup {None}] /\ Started' = Started /\ proc'[p] = s
      /\ \A q \in Proc : q # p => proc'[q] = proc[q]
  BY <1>3, <1>4, ProcUpdate
<1>6. QED
  BY <1>3, <1>5 DEF Started

\* A Stop sets the status and returns: no process runs of a controller that
\* said running.
LEMMA StopEnds ==
    ASSUME IInv, NEW c \in Call, call[c].at \in {"Stop", "Stop:wait"},
           Goto(c, call[c].next),
           ctl' = [ctl EXCEPT ![call[c].ctl].status = call[c].status],
           UNCHANGED proc \/ (ctl[call[c].ctl].proc # None /\ Close(ctl[call[c].ctl].proc)),
           raced \subseteq raced' /\ raced' \subseteq Race,
           raced' \subseteq {"second", "lostStop"} /\ Says(call[c].ctl) =>
              ~Running(ctl[call[c].ctl].proc) \/ (ctl[call[c].ctl].proc # None /\ Close(ctl[call[c].ctl].proc)),
           UNCHANGED <<meta, edits, registry, route, run>>
    PROVE  IInv'
<1>0. TypeInv /\ NamesInv /\ LivesInv /\ LockInv /\ call[c] \in CallType
  BY DEF IInv, Always, TypeInv
<1>1. PICK k : k = call[c].ctl
  OBVIOUS
<1>2. PICK f : f = call[c].next
  OBVIOUS
<1>3. /\ k \in Made /\ k \in Ctl /\ ctl[k] \in CtlState
      /\ call[c].status \in StopStatus /\ f \in NextType /\ f \in CallType
  BY <1>0, <1>1, <1>2, CallFields, CallKinds, States DEF NamesInv, CallNames
<1>4. /\ f.at \in {"end", "deleteController", "sleep", "status"}
      /\ CallNames(f)
      /\ OneCtl => k = registry /\ CallSole(f)
  <2>1. CallNames(call[c]) /\ call[c].at \in StopAts
    BY <1>0 DEF NamesInv, StopAts
  <2>2. f.at \in {"end", "deleteController", "sleep", "status"} /\ CallNames(f)
    BY <2>1, <1>2, NextGood DEF CallNames
  <2>3. ASSUME OneCtl
        PROVE  k = registry /\ CallSole(f)
    <3>1. CallSole(call[c])
      BY <2>3 DEF OneCtl
    <3>2. k # None
      BY <1>3, ShellAssumption
    <3>3. QED
      BY <2>1, <3>1, <3>2, <1>1, <1>2, NextGood DEF CallSole
  <2>4. QED
    BY <2>2, <2>3
<1>5. PICK t : t = [ctl[k] EXCEPT !.status = call[c].status]
  OBVIOUS
<1>6. /\ t \in CtlState /\ t.proc = ctl[k].proc /\ t.input = ctl[k].input /\ t.runLock = ctl[k].runLock
      /\ t.status # "running"
  BY <1>3, <1>5 DEF CtlState, StopStatus
<1>7. Goto(c, f) /\ ctl' = [ctl EXCEPT ![k] = t]
  BY <1>0, <1>1, <1>2, <1>3, <1>5 DEF TypeInv
<1>8. /\ call' \in [Call -> CallType] /\ call'[c] = f
      /\ \A d \in Call : d # c => call'[d] = call[d]
  BY <1>0, <1>3, <1>7, CallUpdate
<1>9. /\ ctl' \in [Ctl -> CtlState \cup {None}] /\ Made' = Made /\ ctl'[k] = t
      /\ \A j \in Ctl : j # k => ctl'[j] = ctl[j]
  BY <1>0, <1>3, <1>6, <1>7, CtlUpdate
<1>10. \A j \in Made : /\ ctl'[j].proc = ctl[j].proc /\ ctl'[j].input = ctl[j].input
                       /\ ctl'[j].runLock = ctl[j].runLock
                       /\ ctl'[j].status = "running" => ctl[j].status = "running" /\ j # k
                       /\ j # k => ctl'[j] = ctl[j]
  BY <1>6, <1>9 DEF Made
<1>11. /\ proc' \in [Proc -> ProcState \cup {None}] /\ Started' = Started
       /\ \A q \in Started : /\ proc'[q].owner = proc[q].owner /\ proc'[q].exited = proc[q].exited
                             /\ proc'[q].done = proc[q].done /\ proc'[q].wait = proc[q].wait
                             /\ proc'[q].read = proc[q].read
                             /\ proc[q].closing => proc'[q].closing
                             /\ q # ctl[k].proc => proc'[q] = proc[q]
  <2>1. CASE UNCHANGED proc
    BY <2>1, <1>0 DEF TypeInv, Started
  <2>2. CASE ctl[k].proc # None /\ Close(ctl[k].proc)
    <3>1. ctl[k].proc \in Started
      BY <2>2, <1>0, <1>3 DEF NamesInv
    <3>2. PICK p \in Started : p = ctl[k].proc
      BY <3>1
    <3>3. QED
      BY <2>2, <3>2, <1>0, CloseUpdate
  <2>3. QED
    BY <2>1, <2>2, <1>1
<1>12. TypeInv'
  BY <1>0, <1>8, <1>9, <1>11 DEF TypeInv
<1>13. run[c] = NoRun
  BY <1>0 DEF NamesInv
<1>14. NamesInv'
  <2>1. ASSUME NEW d \in Call
        PROVE  CallNames(call[d])'
    <3>1. CASE d = c
      BY <3>1, <1>4, <1>8, <1>9, <1>11 DEF CallNames, StopAts
    <3>2. CASE d # c
      BY <3>2, <1>0, <1>8, <1>9, <1>11 DEF NamesInv, CallNames
    <3>3. QED
      BY <3>1, <3>2
  <2>2. ASSUME NEW d \in Call, call'[d].at # "end"
        PROVE  run'[d] = NoRun
    BY <2>2, <1>0, <1>8, <1>13 DEF NamesInv
  <2>3. QED
    BY <2>1, <2>2, <1>0, <1>9, <1>10, <1>11 DEF NamesInv
<1>15. LivesInv'
  BY <1>0, <1>9, <1>10, <1>11 DEF LivesInv
<1>16. LockInv'
  <2>1. ASSUME NEW d \in Call, run[d].at = "publish"
        PROVE  Fresh(run[d].ctl, run[d].proc)'
    <3>1. Fresh(run[d].ctl, run[d].proc) /\ run[d].ctl \in Made
      BY <2>1, <1>0 DEF LockInv, NamesInv
    <3>2. run[d].proc # ctl[k].proc
      BY <3>1, <1>3 DEF Fresh
    <3>3. QED
      BY <3>1, <3>2, <1>9, <1>10, <1>11 DEF Fresh
  <2>2. ASSUME NEW d \in Call, run[d].at # "none"
        PROVE  run[d].ctl \in Made
    BY <2>2, <1>0 DEF NamesInv
  <2>3. QED
    BY <2>1, <2>2, <1>0, <1>10 DEF LockInv, Holds, Held
<1>17. \A q \in Started : (Lingers(q)' <=> Lingers(q)) /\ (Running(q)' => Running(q))
  BY <1>11 DEF Lingers, Running, Alive
<1>18. ASSUME OneCtl
       PROVE  ~Says(registry)'
  BY <1>4, <1>6, <1>9, <1>18 DEF Says
<1>19. Alone'
  <2>1. SUFFICES ASSUME raced' \subseteq {"second", "lostStop"}
                 PROVE  OneCtl' /\ OneProc'
    BY DEF Alone
  <2>2. OneCtl /\ OneProc
    BY <2>1 DEF IInv, Alone
  <2>3. ASSUME NEW d \in Call
        PROVE  CallSole(call[d])'
    <3>1. CASE d = c
      BY <3>1, <2>2, <1>4, <1>8 DEF CallSole
    <3>2. CASE d # c
      BY <3>2, <2>2, <1>8 DEF OneCtl, CallSole
    <3>3. QED
      BY <3>1, <3>2
  <2>4. OneCtl'
    BY <2>2, <2>3, <1>9, <1>10, <1>18 DEF OneCtl, Says
  <2>5. ASSUME NEW q \in Started, Running(q)'
        PROVE  /\ proc'[q].owner = registry
               /\ \E d \in Call : run'[d].at = "publish" /\ run'[d].proc = q
    <3>1. Running(q) /\ proc[q].owner = registry /\ proc'[q].owner = proc[q].owner
      BY <2>2, <2>5, <1>11, <1>17 DEF OneProc
    <3>2. CASE Says(registry) /\ ctl[registry].proc = q
      <4>1. k = registry /\ ctl[k].proc = q /\ Says(k)
        BY <2>2, <3>2, <1>4
      <4>2. Close(q)
        BY <2>1, <3>1, <4>1, <1>1
      <4>3. proc'[q].closing
        BY <4>2, <1>0, CloseUpdate
      <4>4. QED
        BY <2>5, <4>3 DEF Running
    <3>3. CASE \E d \in Call : run[d].at = "publish" /\ run[d].proc = q
      BY <3>1, <3>3
    <3>4. QED
      BY <2>2, <3>1, <3>2, <3>3 DEF OneProc
  <2>6. OneProc'
    BY <2>5, <1>11 DEF OneProc
  <2>7. QED
    BY <2>4, <2>6
<1>20. InOrder'
  <2>1. SUFFICES ASSUME raced' \subseteq {"lostStop"}
                 PROVE  NoSecond' /\ AllServed'
    BY DEF InOrder
  <2>2. NoSecond /\ OneCtl
    BY <2>1 DEF IInv, InOrder, Alone
  <2>3. QED
    BY <2>2, <1>18 DEF NoSecond, AllServed
<1>21. QED
  BY <1>12, <1>14, <1>15, <1>16, <1>19, <1>20 DEF IInv, Always

LEMMA StopWaitedStep ==
    ASSUME IInv, NEW c \in Call, StopWaited(c)
    PROVE  IInv'
<1>0. /\ TypeInv /\ NamesInv /\ LivesInv
      /\ call[c].at = "Stop:wait" /\ proc[call[c].proc].done
  BY DEF IInv, Always, StopWaited
<1>1. call[c].proc \in Started /\ ~Running(call[c].proc)
  BY <1>0 DEF NamesInv, CallNames, Running
<1>2. /\ Goto(c, call[c].next)
      /\ ctl' = [ctl EXCEPT ![call[c].ctl].status = call[c].status]
      /\ UNCHANGED proc /\ UNCHANGED <<meta, edits, registry, route, run>>
  BY DEF StopWaited
<1>3. /\ raced' = raced \/ raced' = raced \cup {"lateStop"}
      /\ "lateStop" \notin raced' => ctl[call[c].ctl].proc = call[c].proc
  BY DEF StopWaited
<1>4. raced \subseteq raced' /\ raced' \subseteq Race
  BY <1>0, <1>3 DEF TypeInv, Race
<1>5. raced' \subseteq {"second", "lostStop"} /\ Says(call[c].ctl) =>
        ~Running(ctl[call[c].ctl].proc) \/ (ctl[call[c].ctl].proc # None /\ Close(ctl[call[c].ctl].proc))
  BY <1>1, <1>3
<1>6. QED
  BY <1>0, <1>2, <1>4, <1>5, StopEnds
\* The process is told to end, and the call waits for its end.
LEMMA StopWaits ==
    ASSUME IInv, NEW c \in Call, call[c].at = "Stop",
           ctl[call[c].ctl].proc # None, Close(ctl[call[c].ctl].proc),
           Goto(c, [at |-> "Stop:wait", proc |-> ctl[call[c].ctl].proc, ctl |-> call[c].ctl,
                    status |-> call[c].status, next |-> call[c].next]),
           UNCHANGED <<meta, edits, registry, ctl, route, run, raced>>
    PROVE  IInv'
<1>0. TypeInv /\ NamesInv /\ LivesInv /\ LockInv /\ call[c] \in CallType
  BY DEF IInv, Always, TypeInv
<1>1. PICK k : k = call[c].ctl
  OBVIOUS
<1>2. PICK p : p = ctl[k].proc
  OBVIOUS
<1>3. /\ k \in Made /\ k \in Ctl /\ p \in Started /\ p \in Proc
      /\ call[c].status \in StopStatus /\ call[c].next \in NextType
  BY <1>0, <1>1, <1>2, CallFields, States DEF NamesInv, CallNames
<1>4. PICK f : f = [at |-> "Stop:wait", proc |-> p, ctl |-> k,
                    status |-> call[c].status, next |-> call[c].next]
  OBVIOUS
<1>5. f \in CallType
  BY <1>3, <1>4, CallKinds, Zenon
<1>6. /\ call' \in [Call -> CallType] /\ call'[c] = f
      /\ \A d \in Call : d # c => call'[d] = call[d]
  BY <1>0, <1>1, <1>2, <1>4, <1>5, CallUpdate
<1>7. /\ proc' \in [Proc -> ProcState \cup {None}] /\ Started' = Started
      /\ \A q \in Started : /\ proc'[q].owner = proc[q].owner /\ proc'[q].exited = proc[q].exited
                            /\ proc'[q].done = proc[q].done /\ proc'[q].wait = proc[q].wait
                            /\ proc'[q].read = proc[q].read
                            /\ proc[q].closing => proc'[q].closing
                            /\ q # p => proc'[q] = proc[q]
      /\ proc'[p].closing
  BY <1>0, <1>1, <1>2, <1>3, CloseUpdate
<1>8. Made' = Made
  BY DEF Made
<1>9. TypeInv'
  BY <1>0, <1>6, <1>7 DEF TypeInv
<1>10. NamesInv'
  <2>1. CallNames(call[c])
    BY <1>0 DEF NamesInv
  <2>2. ASSUME NEW d \in Call
        PROVE  CallNames(call[d])'
    <3>1. CASE d = c
      <4>1. f.at = "Stop:wait" /\ f.ctl = k /\ f.proc = p /\ f.next = call[c].next
        BY <1>4
      <4>2. QED
        BY <2>1, <3>1, <4>1, <1>3, <1>6, <1>7, <1>8 DEF CallNames, StopAts
    <3>2. CASE d # c
      BY <3>2, <1>0, <1>6, <1>7, <1>8 DEF NamesInv, CallNames
    <3>3. QED
      BY <3>1, <3>2
  <2>3. ASSUME NEW d \in Call, call'[d].at # "end"
        PROVE  run'[d] = NoRun
    BY <2>3, <1>0, <1>6 DEF NamesInv
  <2>4. QED
    BY <2>2, <2>3, <1>0, <1>7, <1>8 DEF NamesInv
<1>11. LivesInv'
  BY <1>0, <1>7, <1>8 DEF LivesInv
<1>12. LockInv'
  <2>1. ASSUME NEW d \in Call, run[d].at = "publish"
        PROVE  Fresh(run[d].ctl, run[d].proc)'
    <3>1. Fresh(run[d].ctl, run[d].proc) /\ run[d].proc # p
      BY <2>1, <1>0, <1>2, <1>3 DEF LockInv, Fresh
    <3>2. QED
      BY <3>1, <1>7, <1>8 DEF Fresh
  <2>2. QED
    BY <2>1, <1>0 DEF LockInv, Holds
<1>13. \A q \in Started : /\ Lingers(q)' <=> Lingers(q)
                          /\ Running(q)' => Running(q)
  BY <1>7 DEF Lingers, Running, Alive
<1>14. Alone'
  <2>1. SUFFICES ASSUME raced \subseteq {"second", "lostStop"}
                 PROVE  OneCtl' /\ OneProc'
    BY DEF Alone
  <2>2. OneCtl /\ OneProc
    BY <2>1 DEF IInv, Alone
  <2>3. ASSUME NEW d \in Call
        PROVE  CallSole(call[d])'
    <3>1. CASE d = c
      <4>1. CallSole(call[c])
        BY <2>2 DEF OneCtl
      <4>2. f.at = "Stop:wait" /\ f.ctl = k /\ f.next = call[c].next
        BY <1>4
      <4>3. QED
        BY <3>1, <4>1, <4>2, <1>1, <1>6 DEF CallSole, StopAts
    <3>2. CASE d # c
      BY <3>2, <2>2, <1>6 DEF OneCtl, CallSole
    <3>3. QED
      BY <3>1, <3>2
  <2>4. OneCtl'
    BY <2>2, <2>3, <1>7, <1>8, <1>13 DEF OneCtl, Says
  <2>5. OneProc'
    BY <2>2, <1>7, <1>13 DEF OneProc, Says
  <2>6. QED
    BY <2>4, <2>5
<1>15. InOrder'
  <2>1. SUFFICES ASSUME raced \subseteq {"lostStop"}
                 PROVE  NoSecond' /\ AllServed'
    BY DEF InOrder
  <2>2. NoSecond /\ AllServed /\ OneCtl
    BY <2>1 DEF IInv, InOrder, Alone
  <2>3. call'[c].at = "Stop:wait"
    BY <1>4, <1>6
  <2>4. ASSUME Says(registry)
        PROVE  Served(ctl[registry].proc)'
    <3>1. PICK q : q = ctl[registry].proc
      OBVIOUS
    <3>2. Served(q) /\ q \in Started
      BY <2>2, <2>4, <3>1, <1>0 DEF AllServed, Says, NamesInv, LivesInv
    <3>3. Served(q)'
      BY <2>3, <3>2, <1>7, <1>13 DEF Served
    <3>4. QED
      BY <3>1, <3>3
  <2>5. QED
    BY <2>2, <2>4 DEF NoSecond, AllServed, Says
<1>16. QED
  BY <1>9, <1>10, <1>11, <1>12, <1>14, <1>15 DEF IInv, Always

LEMMA StopLockedStep ==
    ASSUME IInv, NEW c \in Call, StopLocked(c)
    PROVE  IInv'
<1>0. TypeInv /\ NamesInv /\ LivesInv /\ call[c].at = "Stop" /\ call[c].ctl \in Made
  BY DEF IInv, Always, StopLocked, NamesInv, CallNames
<1>1. PICK k : k = call[c].ctl
  OBVIOUS
<1>2. PICK idle \in BOOLEAN : idle = (ctl[k].proc = None \/ ctl[k].status \in {"done", "init"})
  OBVIOUS
<1>3. /\ raced' = raced \/ (idle /\ raced' = raced \cup {"lostStop"})
      /\ UNCHANGED <<meta, edits, registry, route, run>>
  BY <1>1, <1>2 DEF StopLocked
<1>4. raced \subseteq raced' /\ raced' \subseteq Race
  BY <1>0, <1>3 DEF TypeInv, Race
<1>5. CASE idle
  <2>1. /\ Goto(c, call[c].next) /\ UNCHANGED proc
        /\ ctl' = [ctl EXCEPT ![call[c].ctl].status = call[c].status]
    BY <1>1, <1>2, <1>5 DEF StopLocked
  <2>2. ~Says(k)
    BY <1>0, <1>1, <1>2, <1>5 DEF Says, LivesInv
  <2>3. QED
    BY <2>1, <2>2, <1>0, <1>1, <1>3, <1>4, StopEnds
<1>6. CASE ~idle /\ ~call[c].graceful
  <2>1. /\ Goto(c, call[c].next) /\ Close(ctl[k].proc) /\ ctl[k].proc # None
        /\ ctl' = [ctl EXCEPT ![call[c].ctl].status = call[c].status]
    BY <1>1, <1>2, <1>6 DEF StopLocked
  <2>2. QED
    BY <2>1, <1>0, <1>1, <1>3, <1>4, StopEnds
<1>7. CASE ~idle /\ call[c].graceful
  <2>1. /\ Goto(c, [at |-> "Stop:wait", proc |-> ctl[k].proc, ctl |-> k,
                    status |-> call[c].status, next |-> call[c].next])
        /\ Close(ctl[k].proc) /\ ctl[k].proc # None /\ ctl' = ctl /\ raced' = raced
    BY <1>1, <1>2, <1>7 DEF StopLocked
  <2>2. QED
    BY <2>1, <1>0, <1>1, <1>3, StopWaits
<1>8. QED
  BY <1>5, <1>6, <1>7
-----------------------------------------------------------------------------
(* Controllers come, start and go                                          *)

LEMMA StartControllerStep ==
    ASSUME IInv, NEW c \in Call, StartController(c)
    PROVE  IInv'
<1>0. /\ TypeInv /\ NamesInv /\ LivesInv /\ LockInv
      /\ call[c] \in CallType /\ call[c].at = "status" /\ run[c] = NoRun
  BY DEF IInv, Always, TypeInv, NamesInv, StartController
<1>1. PICK k : k = call[c].ctl
  OBVIOUS
<1>2. k \in Made /\ k \in Ctl /\ call[c] \in ResyncType /\ (OneCtl => k = registry)
  BY <1>0, <1>1, CallFields, ShellAssumption DEF NamesInv, CallNames, OneCtl, CallSole, Made
<1>3. Goto(c, End) /\ UNCHANGED <<meta, edits, registry, ctl, proc, route, raced>>
  BY DEF StartController
<1>4. End \in CallType /\ CallNames(End) /\ CallSole(End)
  BY CallKinds DEF End, CallNames, CallSole, StopAts
<1>5. CASE UNCHANGED run
  BY <1>0, <1>3, <1>4, <1>5, CallChange
<1>6. CASE ~UNCHANGED run
  <2>1. PICK r : r = [at |-> "lock", ctl |-> k, force |-> call[c].force, conn |-> meta]
    OBVIOUS
  <2>2. RunGoto(c, r)
    BY <2>1, <1>1, <1>6 DEF StartController
  <2>3. /\ r \in [at : {"lock", "status", "unlock"}, ctl : Ctl, force : BOOLEAN, conn : Conn \cup {None}]
        /\ r.at = "lock" /\ r.ctl = k
    BY <2>1, <1>0, <1>2 DEF ResyncType, TypeInv
  <2>4. r \in RunType
    BY <2>3, RunKinds
  <2>5. /\ call' \in [Call -> CallType] /\ call'[c] = End
        /\ \A d \in Call : d # c => call'[d] = call[d]
    BY <1>0, <1>3, <1>4, CallUpdate
  <2>6. /\ run' \in [Call -> RunType] /\ run'[c] = r
        /\ \A d \in Call : d # c => run'[d] = run[d]
    BY <2>2, <2>4, <1>0, RunUpdate
  <2>7. TypeInv'
    BY <2>5, <2>6, <1>0, <1>3 DEF TypeInv
  <2>8. Made' = Made /\ Started' = Started
    BY <1>3 DEF Made, Started
  <2>9. NamesInv'
    <3>1. ASSUME NEW d \in Call
          PROVE  CallNames(call[d])'
      <4>1. CASE d = c
        BY <4>1, <2>5 DEF End, CallNames, StopAts
      <4>2. CASE d # c
        BY <4>2, <2>5, <2>8, <1>0, <1>3 DEF NamesInv, CallNames
      <4>3. QED
        BY <4>1, <4>2
    <3>2. ASSUME NEW d \in Call, run'[d].at # "none"
          PROVE  run'[d].ctl \in Made
      BY <3>2, <2>3, <2>6, <1>0, <1>2 DEF NamesInv
    <3>3. ASSUME NEW d \in Call, call'[d].at # "end"
          PROVE  run'[d] = NoRun
      BY <3>3, <2>5, <2>6, <1>0 DEF NamesInv, End
    <3>4. QED
      BY <3>1, <3>2, <3>3, <2>8, <1>0, <1>3 DEF NamesInv
  <2>10. LivesInv'
    BY <2>8, <1>0, <1>3 DEF LivesInv
  <2>11. \A d \in Call : /\ run'[d].at \notin {"none", "lock"} => run'[d] = run[d]
                         /\ run[d].at # "none" => run'[d] = run[d]
    BY <2>3, <2>6, <1>0 DEF NoRun
  <2>12. LockInv'
    <3>1. \A d \in Call : Holds(d)' => Holds(d) /\ run'[d] = run[d]
      BY <2>11 DEF Holds, Held
    <3>2. ASSUME NEW d \in Call, run'[d].at = "publish"
          PROVE  Fresh(run[d].ctl, run[d].proc)'
      <4>1. run'[d] = run[d] /\ Fresh(run[d].ctl, run[d].proc)
        BY <3>2, <2>11, <1>0 DEF LockInv
      <4>2. QED
        BY <4>1, <2>8, <1>3 DEF Fresh
    <3>3. \A d \in Call : Holds(d)' => ctl'[run'[d].ctl].runLock
      BY <3>1, <1>0, <1>3 DEF LockInv
    <3>4. ASSUME NEW d \in Call, NEW e \in Call, Holds(d)', Holds(e)', run'[d].ctl = run'[e].ctl
          PROVE  d = e
      BY <3>1, <3>4, <1>0 DEF LockInv
    <3>5. \A d \in Call : run'[d].at \in {"input", "route"} /\ run'[d].proc # Nobody =>
              ctl'[run'[d].ctl].proc = run'[d].proc
      BY <2>11, <1>0, <1>3 DEF LockInv
    <3>6. QED
      BY <3>2, <3>3, <3>4, <3>5 DEF LockInv
  <2>13. Alone'
    <3>1. SUFFICES ASSUME raced \subseteq {"second", "lostStop"}
                   PROVE  OneCtl' /\ OneProc'
      BY <1>3 DEF Alone
    <3>2. OneCtl /\ OneProc
      BY <3>1 DEF IInv, Alone
    <3>3. ASSUME NEW d \in Call
          PROVE  CallSole(call[d])'
      <4>1. CASE d = c
        BY <4>1, <2>5 DEF End, CallSole, StopAts
      <4>2. CASE d # c
        BY <4>2, <3>2, <2>5, <1>3 DEF OneCtl, CallSole
      <4>3. QED
        BY <4>1, <4>2
    <3>4. ASSUME NEW d \in Call, run'[d].at # "none"
          PROVE  run'[d].ctl = registry
      BY <3>2, <3>4, <2>3, <2>6, <1>2 DEF OneCtl
    <3>5. OneCtl'
      BY <3>2, <3>3, <3>4, <2>8, <1>3 DEF OneCtl, Says, Lingers
    <3>6. OneProc'
      BY <3>2, <2>8, <2>11, <1>3 DEF OneProc, Says, Running, Alive
    <3>7. QED
      BY <3>5, <3>6
  <2>14. InOrder'
    <3>1. SUFFICES ASSUME raced \subseteq {"lostStop"}
                   PROVE  NoSecond' /\ AllServed'
      BY <1>3 DEF InOrder
    <3>2. NoSecond /\ AllServed
      BY <3>1 DEF IInv, InOrder
    <3>3. NoSecond'
      BY <3>2, <2>11 DEF NoSecond
    <3>4. \A d \in Call : /\ run[d].at \in {"input", "route"} => run'[d] = run[d]
                          /\ call[d].at = "Stop:wait" => call'[d] = call[d]
      BY <2>5, <2>11, <1>0
    <3>5. AllServed'
      BY <3>2, <3>4, <2>8, <1>3 DEF AllServed, Served, Says, Running, Alive
    <3>6. QED
      BY <3>3, <3>5
  <2>15. QED
    BY <2>7, <2>9, <2>10, <2>12, <2>13, <2>14 DEF IInv, Always
<1>7. QED
  BY <1>5, <1>6

\* The controller goes when no other call has it and it does not run.
LEMMA DeleteControllerStep ==
    ASSUME IInv, NEW c \in Call, DeleteController(c)
    PROVE  IInv'
<1>0. /\ TypeInv /\ NamesInv /\ LivesInv /\ LockInv
      /\ call[c].at = "deleteController" /\ run[c] = NoRun
  BY DEF IInv, Always, NamesInv, DeleteController
<1>1. /\ Goto(c, End) /\ registry' = None
      /\ UNCHANGED <<meta, edits, ctl, proc, route, run>>
      /\ raced' = raced \/ raced' = raced \cup {"lostDelete"}
      /\ "lostDelete" \notin raced' => ~OthersBusy(c) /\ ~Says(registry)
  BY DEF DeleteController, Says
<1>2. End \in CallType /\ Made' = Made /\ Started' = Started
  BY <1>1, CallKinds DEF Made, Started
<1>3. /\ call' \in [Call -> CallType] /\ call'[c] = End
      /\ \A d \in Call : d # c => call'[d] = call[d]
  BY <1>0, <1>1, <1>2, CallUpdate
<1>4. TypeInv'
  BY <1>0, <1>1, <1>3 DEF TypeInv, Race
<1>5. NamesInv'
  <2>1. ASSUME NEW d \in Call
        PROVE  CallNames(call[d])'
    <3>1. CASE d = c
      BY <3>1, <1>3 DEF End, CallNames, StopAts
    <3>2. CASE d # c
      BY <3>2, <1>0, <1>1, <1>2, <1>3 DEF NamesInv, CallNames
    <3>3. QED
      BY <3>1, <3>2
  <2>2. ASSUME NEW d \in Call, call'[d].at # "end"
        PROVE  run'[d] = NoRun
    BY <2>2, <1>0, <1>1, <1>3 DEF NamesInv
  <2>3. QED
    BY <2>1, <2>2, <1>0, <1>1, <1>2 DEF NamesInv
<1>6. LivesInv' /\ LockInv'
  BY <1>0, <1>1, <1>2 DEF LivesInv, LockInv, Holds, Fresh
<1>7. ASSUME raced' \subseteq {"second", "lostStop"}
      PROVE  OneCtl' /\ OneProc' /\ (\A d \in Call : run[d] = NoRun)
  <2>1. /\ OneCtl /\ OneProc /\ ~OthersBusy(c) /\ ~Says(registry)
    BY <1>7, <1>1 DEF IInv, Alone
  <2>2. \A d \in Call : /\ d # c => call[d] \in {NoCall, End}
                        /\ run[d] = NoRun
    BY <2>1, <1>0 DEF OthersBusy
  <2>3. ASSUME NEW d \in Call
        PROVE  CallSole(call[d])'
    BY <2>2, <1>3 DEF CallSole, NoCall, End, StopAts
  <2>4. \A k \in Made : ~Says(k)
    BY <2>1 DEF OneCtl
  <2>5. \A d \in Call : run[d].at = "none"
    BY <2>2 DEF NoRun
  <2>6. OneCtl'
    BY <2>3, <2>4, <2>5, <1>1, <1>2 DEF OneCtl, Says
  <2>7. OneProc'
    BY <2>1, <2>5, <1>1, <1>2 DEF OneProc, Running, Alive
  <2>8. QED
    BY <2>2, <2>6, <2>7
<1>8. Alone'
  BY <1>7 DEF Alone
<1>9. InOrder'
  BY <1>1, <1>7 DEF InOrder, NoSecond, NoRun, AllServed, Says
<1>10. QED
  BY <1>4, <1>5, <1>6, <1>8, <1>9 DEF IInv, Always
\* A controller is made and registered; a process or a call of an earlier one
\* is there only when two calls make one.
LEMMA MakeNew ==
    ASSUME IInv, NEW c \in Call, NEW new \in Ctl, ctl[new] = None,
           call[c].at = "make", call[c].ctl = None,
           ctl' = [ctl EXCEPT ![new] = [status |-> "init", proc |-> None,
                                        input |-> None, runLock |-> FALSE]],
           registry' = new,
           raced' = IF registry = None THEN raced ELSE raced \cup {"twoMakers"},
           Goto(c, IF registry = None THEN [call[c] EXCEPT !.at = "status", !.ctl = new]
                   ELSE [at |-> "Stop", ctl |-> registry, graceful |-> FALSE, status |-> "done",
                         next |-> [call[c] EXCEPT !.at = "status", !.ctl = new]]),
           UNCHANGED <<meta, edits, proc, route, run>>
    PROVE  IInv'
<1>0. /\ TypeInv /\ NamesInv /\ LivesInv /\ LockInv
      /\ call[c] \in CallType /\ call[c] \in ResyncType /\ run[c] = NoRun
  BY CallFields DEF IInv, Always, TypeInv, NamesInv
<1>1. PICK made : made = [call[c] EXCEPT !.at = "status", !.ctl = new]
  OBVIOUS
<1>2. made \in ResyncType /\ made \in NextType /\ made.at = "status" /\ made.ctl = new
  <2>1. made \in ResyncType /\ made.at = "status" /\ made.ctl = new
    BY <1>0, <1>1 DEF ResyncType
  <2>2. QED
    BY <2>1, CallKinds
<1>3. PICK g : g = IF registry = None THEN made
                   ELSE [at |-> "Stop", ctl |-> registry, graceful |-> FALSE, status |-> "done", next |-> made]
  OBVIOUS
<1>4. registry # None => registry \in Made /\ registry \in Ctl
  BY <1>0 DEF NamesInv, Made
<1>5. g \in CallType
  BY <1>2, <1>3, <1>4, CallKinds DEF StopStatus
<1>6. /\ call' \in [Call -> CallType] /\ call'[c] = g
      /\ \A d \in Call : d # c => call'[d] = call[d]
  BY <1>0, <1>1, <1>3, <1>5, CallUpdate
<1>7. PICK t : t = [status |-> "init", proc |-> None, input |-> None, runLock |-> FALSE]
  OBVIOUS
<1>8. t \in CtlState /\ t.status = "init" /\ t.proc = None /\ t # None
  <2>1. t \in CtlState /\ t.status = "init" /\ t.proc = None
    BY <1>7 DEF CtlState
  <2>2. QED
    BY <2>1, ShellAssumption
<1>9. /\ ctl' \in [Ctl -> CtlState \cup {None}] /\ ctl'[new] = t
      /\ \A j \in Ctl : j # new => ctl'[j] = ctl[j]
  BY <1>0, <1>7, <1>8 DEF TypeInv
<1>10. /\ Made' = Made \cup {new} /\ new \notin Made /\ Started' = Started
       /\ \A j \in Made : j # new /\ ctl'[j] = ctl[j]
  BY <1>8, <1>9 DEF Made, Started
<1>11. TypeInv'
  <2>1. raced' \subseteq Race
    BY <1>0 DEF TypeInv, Race
  <2>2. QED
    BY <2>1, <1>0, <1>6, <1>9 DEF TypeInv
<1>12. NamesInv'
  <2>1. ASSUME NEW d \in Call
        PROVE  CallNames(call[d])'
    <3>1. CASE d = c
      <4>1. CASE registry = None
        BY <3>1, <4>1, <1>2, <1>3, <1>6, <1>10 DEF CallNames, StopAts
      <4>2. CASE registry # None
        <5>1. g.at = "Stop" /\ g.ctl = registry /\ g.next = made
          BY <4>2, <1>3
        <5>2. QED
          BY <3>1, <5>1, <4>2, <1>2, <1>4, <1>6, <1>10 DEF CallNames, StopAts
      <4>3. QED
        BY <4>1, <4>2
    <3>2. CASE d # c
      BY <3>2, <1>0, <1>6, <1>10 DEF NamesInv, CallNames
    <3>3. QED
      BY <3>1, <3>2
  <2>2. ASSUME NEW d \in Call, call'[d].at # "end"
        PROVE  run'[d] = NoRun
    BY <2>2, <1>0, <1>6 DEF NamesInv
  <2>3. ASSUME NEW j \in Made', ctl'[j].proc # None
        PROVE  ctl'[j].proc \in Started /\ proc[ctl'[j].proc].owner = j
    BY <2>3, <1>0, <1>8, <1>9, <1>10 DEF NamesInv
  <2>4. QED
    BY <2>1, <2>2, <2>3, <1>0, <1>10 DEF NamesInv
<1>13. LivesInv'
  <2>1. ASSUME NEW j \in Made', ctl'[j].status = "running"
        PROVE  ctl'[j].proc # None
    BY <2>1, <1>0, <1>8, <1>9, <1>10 DEF LivesInv
  <2>2. QED
    BY <2>1, <1>0, <1>10 DEF LivesInv
<1>14. LockInv'
  <2>1. ASSUME NEW d \in Call, run[d].at = "publish"
        PROVE  Fresh(run[d].ctl, run[d].proc)'
    <3>1. Fresh(run[d].ctl, run[d].proc) /\ run[d].ctl \in Made
      BY <2>1, <1>0 DEF LockInv, NamesInv
    <3>2. run[d].proc # None
      BY <3>1, ShellAssumption DEF Fresh, Started
    <3>3. QED
      BY <3>1, <3>2, <1>8, <1>9, <1>10 DEF Fresh
  <2>2. ASSUME NEW d \in Call, run[d].at # "none"
        PROVE  run[d].ctl \in Made
    BY <2>2, <1>0 DEF NamesInv
  <2>3. QED
    BY <2>1, <2>2, <1>0, <1>10 DEF LockInv, Holds, Held
<1>15. ASSUME raced' \subseteq {"second", "lostStop"}
       PROVE  OneCtl' /\ OneProc' /\ ~Says(registry)'
  <2>1. registry = None /\ raced' = raced /\ OneCtl /\ OneProc
    BY <1>15 DEF IInv, Alone
  <2>2. None \notin Made
    BY ShellAssumption DEF Made
  <2>3. \A d \in Call : run[d].at = "none"
    BY <2>1, <2>2, <1>0 DEF OneCtl, NamesInv
  <2>4. ASSUME NEW d \in Call
        PROVE  CallSole(call[d])'
    <3>1. CASE d = c
      BY <3>1, <2>1, <1>2, <1>3, <1>6 DEF CallSole, StopAts
    <3>2. CASE d # c
      <4>1. CallNames(call[d]) /\ CallSole(call[d]) /\ call'[d] = call[d]
        BY <3>2, <2>1, <1>0, <1>6 DEF NamesInv, OneCtl
      <4>2. QED
        BY <4>1, <2>1, <2>2 DEF CallNames, CallSole
    <3>3. QED
      BY <3>1, <3>2
  <2>5. \A j \in Made' : ~Says(j)'
    <3>1. \A j \in Made : ~Says(j)
      BY <2>1, <2>2 DEF OneCtl
    <3>2. ~Says(new)'
      BY <1>8, <1>9 DEF Says
    <3>3. QED
      BY <3>1, <3>2, <1>10 DEF Says
  <2>6. ~Says(registry)'
    BY <1>8, <1>9 DEF Says
  <2>7. OneCtl'
    BY <2>3, <2>4, <2>5, <2>6 DEF OneCtl
  <2>8. \A q \in Started : ~Running(q)'
    <3>1. \A q \in Started : Running(q)' <=> Running(q)
      BY <1>10 DEF Running, Alive
    <3>2. QED
      BY <3>1, <2>1, <2>2, <1>0 DEF OneProc, NamesInv
  <2>9. OneProc'
    BY <2>8, <1>10 DEF OneProc
  <2>10. QED
    BY <2>6, <2>7, <2>9
<1>16. Alone'
  BY <1>15 DEF Alone
<1>17. InOrder'
  <2>1. SUFFICES ASSUME raced' \subseteq {"lostStop"}
                 PROVE  NoSecond' /\ AllServed'
    BY DEF InOrder
  <2>2. NoSecond
    BY <2>1 DEF IInv, InOrder
  <2>3. QED
    BY <2>1, <2>2, <1>15 DEF NoSecond, AllServed
<1>18. QED
  BY <1>11, <1>12, <1>13, <1>14, <1>16, <1>17 DEF IInv, Always

LEMMA MakeStep ==
    ASSUME IInv, NEW c \in Call, Make(c)
    PROVE  IInv'
<1>0. /\ TypeInv /\ NamesInv /\ call[c] \in CallType /\ call[c].at = "make" /\ call[c] \in ResyncType
  BY CallFields DEF IInv, Always, TypeInv, Make
<1>1. CASE call[c].ctl # None
  <2>1. PICK f : f = [call[c] EXCEPT !.at = "status"]
    OBVIOUS
  <2>2. f \in ResyncType /\ f.at = "status" /\ f.ctl = call[c].ctl
    BY <2>1, <1>0 DEF ResyncType
  <2>3. call[c].ctl \in Made /\ (OneCtl => call[c].ctl \in {None, registry})
    BY <1>0, <1>1 DEF NamesInv, CallNames, OneCtl, CallSole
  <2>4. CallNames(f) /\ (OneCtl => CallSole(f))
    BY <2>2, <2>3 DEF CallNames, CallSole, StopAts
  <2>5. f \in CallType
    BY <2>2, CallKinds
  <2>6. Goto(c, f) /\ UNCHANGED <<meta, edits, registry, ctl, proc, route, run, raced>>
    BY <2>1, <1>1 DEF Make
  <2>7. QED
    BY <2>4, <2>5, <2>6, <1>0, CallChange
<1>2. CASE call[c].ctl = None
  <2>1. PICK new : new = CHOOSE k \in Ctl : ctl[k] = None
    OBVIOUS
  <2>2. Made # Ctl
    BY <1>2 DEF Make
  <2>3. new \in Ctl /\ ctl[new] = None
    BY <2>1, <2>2 DEF Made
  <2>4. /\ ctl' = [ctl EXCEPT ![new] = [status |-> "init", proc |-> None,
                                        input |-> None, runLock |-> FALSE]]
        /\ registry' = new
        /\ raced' = IF registry = None THEN raced ELSE raced \cup {"twoMakers"}
        /\ Goto(c, IF registry = None THEN [call[c] EXCEPT !.at = "status", !.ctl = new]
                   ELSE [at |-> "Stop", ctl |-> registry, graceful |-> FALSE, status |-> "done",
                         next |-> [call[c] EXCEPT !.at = "status", !.ctl = new]])
        /\ UNCHANGED <<meta, edits, proc, route, run>>
    BY <2>1, <1>2, Zenon DEF Make
  <2>5. QED
    BY <2>3, <2>4, <1>0, <1>2, MakeNew
<1>3. QED
  BY <1>1, <1>2

-----------------------------------------------------------------------------
(* The invariant holds                                                     *)

LEMMA InitIInv == Init => IInv
<1>1. SUFFICES ASSUME Init
               PROVE  IInv
  OBVIOUS
<1>2. /\ meta \in Conn \cup {None} /\ meta \in Conn /\ edits \in 0 .. MaxEdits /\ raced = {}
      /\ \A c \in Call : call[c] = NoCall /\ run[c] = NoRun
      /\ call \in [Call -> CallType] /\ run \in [Call -> RunType]
  BY <1>1, ShellAssumption, CallKinds, RunKinds DEF Init
<1>3. \A c \in Call : /\ CallNames(call[c]) /\ CallSole(call[c]) /\ run[c] = NoRun
                      /\ run[c].at = "none" /\ ~Holds(c)
  BY <1>2 DEF CallNames, CallSole, NoCall, NoRun, StopAts, Holds, Held
<1>4. CASE Blank
  <2>1. Made = {} /\ Started = {} /\ registry = None /\ route = None
    BY <1>4 DEF Blank, Made, Started
  <2>2. TypeInv
    BY <1>2, <1>4 DEF TypeInv, Blank, Race
  <2>3. NamesInv /\ LivesInv /\ LockInv
    BY <2>1, <1>3 DEF NamesInv, LivesInv, LockInv
  <2>4. OneCtl /\ OneProc /\ NoSecond /\ AllServed
    BY <2>1, <1>3 DEF OneCtl, OneProc, NoSecond, AllServed, Says
  <2>5. QED
    BY <2>2, <2>3, <2>4 DEF IInv, Always, Alone, InOrder
<1>5. CASE Settled
  <2>1. PICK k, p : k \in Ctl /\ p \in Proc /\ k = (CHOOSE x \in Ctl : TRUE) /\ p = (CHOOSE x \in Proc : TRUE)
    BY ShellAssumption
  <2>2. PICK t : t = [status |-> "running", proc |-> p, input |-> p, runLock |-> FALSE]
    OBVIOUS
  <2>3. PICK s : s = [NewProc(k, meta) EXCEPT !.wait = "waiting", !.read = "reading"]
    OBVIOUS
  <2>4. t \in CtlState /\ t.status = "running" /\ t.proc = p /\ t.input = p
    BY <2>1, <2>2 DEF CtlState
  <2>5. /\ s \in ProcState /\ s.owner = k /\ ~s.closing /\ ~s.exited /\ ~s.done
        /\ s.wait = "waiting" /\ s.read = "reading"
    BY <2>1, <2>3, <1>2 DEF NewProc, ProcState
  <2>6. t # None /\ s # None /\ k # None /\ p # None
    BY <2>1, <2>4, <2>5, ShellAssumption
  <2>7. /\ registry = k /\ route = p
        /\ ctl = [x \in Ctl |-> IF x = k THEN t ELSE None]
        /\ proc = [x \in Proc |-> IF x = p THEN s ELSE None]
    BY <2>1, <2>2, <2>3, <1>5 DEF Settled
  <2>8. Made = {k} /\ Started = {p} /\ ctl[k] = t /\ proc[p] = s
    BY <2>1, <2>6, <2>7 DEF Made, Started
  <2>9. TypeInv
    BY <2>1, <2>4, <2>5, <2>7, <1>2 DEF TypeInv, Race
  <2>10. NamesInv /\ LivesInv /\ LockInv
    BY <2>4, <2>5, <2>6, <2>7, <2>8, <1>3 DEF NamesInv, LivesInv, LockInv
  <2>11. OneCtl /\ OneProc
    BY <2>4, <2>5, <2>6, <2>7, <2>8, <1>3 DEF OneCtl, OneProc, Says
  <2>12. Served(p)
    BY <2>4, <2>5, <2>7, <2>8 DEF Served
  <2>13. NoSecond /\ AllServed
    BY <2>4, <2>7, <2>8, <2>12, <1>3 DEF NoSecond, AllServed
  <2>14. QED
    BY <2>9, <2>10, <2>11, <2>13 DEF IInv, Always, Alone, InOrder
<1>6. QED
  BY <1>1, <1>4, <1>5 DEF Init

LEMMA StepIInv == IInv /\ [Next]_vars => IInv'
<1>1. SUFFICES ASSUME IInv, [Next]_vars
               PROVE  IInv'
  OBVIOUS
<1>2. CASE SetMeta
  BY <1>1, <1>2, SetMetaStep
<1>3. ASSUME NEW c \in Call, BeginResync(c) \/ BeginStop(c)
      PROVE  IInv'
  BY <1>1, <1>3, BeginResyncStep, BeginStopStep
<1>4. ASSUME NEW c \in Call, CallStep(c)
      PROVE  IInv'
  BY <1>1, <1>4, StopBlockControllerStep, StopLockedStep, StopWaitedStep, GetControllerStep,
     DeleteControllerStep, CheckConnStep, SleepStep, MakeStep, StartControllerStep, Zenon DEF CallStep
<1>5. ASSUME NEW c \in Call, RunStep(c)
      PROVE  IInv'
  BY <1>1, <1>5, LockRunLockStep, RunStatusStep, SetupStep, PublishStep, SetInputChStep,
     RegisterRouteStep, UnlockRunLockStep, Zenon DEF RunStep
<1>6. ASSUME NEW p \in Proc, Exit(p) \/ ReadEof(p) \/ ProcStep(p)
      PROVE  IInv'
  BY <1>1, <1>6, ExitStep, CloseDoneStep, WaitSignalStep, WaitUnregisterStep, WaitStatusStep,
     ReadEofStep, ClearInputStep, Zenon DEF ProcStep
<1>7. CASE UNCHANGED vars
  <2>1. UNCHANGED <<meta, edits, registry, ctl, proc, route, call, run, raced>>
    BY <1>7 DEF vars
  <2>2. TypeInv /\ NamesInv /\ LivesInv /\ LockInv /\ Alone /\ InOrder
    BY <1>1 DEF IInv, Always
  <2>3. TypeInv' /\ NamesInv' /\ LivesInv' /\ LockInv'
    BY <2>1, <2>2 DEF TypeInv, NamesInv, CallNames, LivesInv, LockInv, Made, Started, Holds, Fresh
  <2>4. Alone' /\ InOrder'
    BY <2>1, <2>2 DEF Alone, OneCtl, CallSole, OneProc, InOrder, NoSecond, AllServed, Served, Says,
                      Made, Started, Lingers, Running, Alive
  <2>5. QED
    BY <2>3, <2>4 DEF IInv, Always
<1>8. QED
  BY <1>1, <1>2, <1>3, <1>4, <1>5, <1>6, <1>7, Zenon DEF Next

\* The invariant holds: a controller's run lock lets one run() at a time
\* publish a process and, until a race of the list happens, no process runs
\* but the registered controller's.
THEOREM Inductive == Spec => []IInv
<1>1. QED
  BY InitIInv, StepIInv, PTL DEF Spec

\* Every variable has its type.
THEOREM TypeCorrect == Spec => []TypeOK
<1>1. IInv => TypeOK
  BY States DEF IInv, Always, TypeInv, TypeOK
<1>2. QED
  BY <1>1, Inductive, PTL

\* Whatever calls resync, restart and stop the block at the same time, two
\* shells run for it only after one of the races that the history excludes,
\* and what runs when all is quiet is the registered controller's.
THEOREM ShellIsOne == Spec => []OneShell
<1>1. ASSUME IInv
      PROVE  OneShell
  <2>1. SUFFICES ASSUME raced \subseteq {"second", "lostStop"}, NEW p \in Started, Running(p)
                 PROVE  /\ \A q \in Started : Running(q) => q = p
                        /\ Quiet => registry = proc[p].owner /\ ctl[registry].proc = p
    BY DEF OneShell
  <2>2. NamesInv /\ LockInv /\ OneCtl /\ OneProc
    BY <1>1, <2>1 DEF IInv, Always, Alone
  <2>3. ASSUME NEW d \in Call, run[d].at = "publish"
        PROVE  run[d].ctl = registry /\ ~Says(registry) /\ Holds(d)
    BY <2>2, <2>3 DEF LockInv, Fresh, OneCtl, Says, Holds, Held
  <2>4. ASSUME NEW q \in Started, Running(q)
        PROVE  q = p
    <3>1. CASE Says(registry)
      BY <2>1, <2>2, <2>3, <2>4, <3>1 DEF OneProc
    <3>2. CASE ~Says(registry)
      <4>1. PICK d \in Call : run[d].at = "publish" /\ run[d].proc = p
        BY <2>1, <2>2, <3>2 DEF OneProc
      <4>2. PICK e \in Call : run[e].at = "publish" /\ run[e].proc = q
        BY <2>2, <2>4, <3>2 DEF OneProc
      <4>3. d = e
        BY <2>2, <2>3, <4>1, <4>2 DEF LockInv
      <4>4. QED
        BY <4>1, <4>2, <4>3
    <3>3. QED
      BY <3>1, <3>2
  <2>5. ASSUME Quiet
        PROVE  registry = proc[p].owner /\ ctl[registry].proc = p
    <3>1. \A d \in Call : run[d].at = "none"
      BY <2>5 DEF Quiet, NoRun
    <3>2. QED
      BY <2>1, <2>2, <3>1 DEF OneProc
  <2>6. QED
    BY <2>4, <2>5
<1>2. QED
  BY <1>1, Inductive, PTL

\* When no call, run() or goroutine is left, a shell that runs has its input
\* and its route and its controller says so, and what says so runs, unless one
\* of the races happened; a Stop that finds no process is none of them.
THEOREM ShellIsConnected == Spec => []Connected
<1>1. ASSUME IInv
      PROVE  Connected
  <2>1. SUFFICES ASSUME Quiet, raced \subseteq {"lostStop"}
                 PROVE  /\ \A p \in Started : Running(p) =>
                              /\ route = p
                              /\ ctl[proc[p].owner].input = p
                              /\ ctl[proc[p].owner].status = "running"
                        /\ \A k \in Made : ctl[k].status = "running" => Running(ctl[k].proc)
    BY DEF Connected
  <2>2. NamesInv /\ LivesInv /\ OneCtl /\ OneProc /\ AllServed
    BY <1>1, <2>1 DEF IInv, Always, Alone, InOrder
  <2>3. \A d \in Call : run[d].at = "none" /\ call[d].at # "Stop:wait"
    BY <2>1 DEF Quiet, NoRun, NoCall, End
  <2>4. ASSUME NEW p \in Started, Running(p)
        PROVE  /\ route = p
               /\ ctl[proc[p].owner].input = p
               /\ ctl[proc[p].owner].status = "running"
    <3>1. proc[p].owner = registry /\ Says(registry) /\ ctl[registry].proc = p
      BY <2>2, <2>3, <2>4 DEF OneProc
    <3>2. Served(p)
      BY <2>2, <3>1 DEF AllServed
    <3>3. QED
      BY <2>3, <2>4, <3>1, <3>2 DEF Served, Says
  <2>5. ASSUME NEW k \in Made, ctl[k].status = "running"
        PROVE  Running(ctl[k].proc)
    <3>1. k = registry /\ Says(registry)
      BY <2>2, <2>5, ShellAssumption DEF OneCtl, Says, Made
    <3>2. PICK p \in Started : p = ctl[k].proc
      BY <2>2, <2>5 DEF NamesInv, LivesInv
    <3>3. Served(p)
      BY <2>2, <3>1, <3>2 DEF AllServed
    <3>4. ~proc[p].exited /\ ~proc[p].closing
      BY <2>1, <3>3 DEF Quiet, Served
    <3>5. QED
      BY <3>2, <3>4 DEF Running, Alive
  <2>6. QED
    BY <2>4, <2>5
<1>2. QED
  BY <1>1, Inductive, PTL

=============================================================================
