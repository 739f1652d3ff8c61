-------------------------- MODULE ShellController --------------------------
(***************************************************************************)
(* The shell of one block in blockcontroller: the registry with the        *)
(* block's controller, the controller's status and process, the run() that *)
(* starts a process, and the goroutines that a process leaves behind: one  *)
(* that waits for its end and one that reads its pty.                      *)
(*                                                                         *)
(* Callers resync the block (after an edit of its metadata, or to restart  *)
(* it by force) or stop it, at the same time.  A section under the         *)
(* controller's lock is one step, and so is each access of the registry,   *)
(* of the run lock, of the router and of ShellInputCh.                     *)
(***************************************************************************)
EXTENDS Naturals, FiniteSets

CONSTANTS
    Call,           \* goroutines that resync or stop the block
    Ctl, Proc,      \* controllers and shell processes that may be made
    Conn,           \* connections that the block's metadata may name
    None,
    Nobody,         \* the input channel and the route of a run() without a process
    MaxEdits        \* how often the block's metadata changes

\* What is known of a controller that was made, and of a process.
CtlState  == [status : {"init", "running", "done"}, proc : Proc \cup {None},
              input : Proc \cup {None, Nobody}, runLock : BOOLEAN]
ProcState == [owner : Ctl, conn : Conn, closing : BOOLEAN, exited : BOOLEAN, done : BOOLEAN,
              wait : {"none", "waiting", "unregister", "status", "end"},
              read : {"none", "reading", "closed", "end"}]

ASSUME ShellAssumption == /\ MaxEdits \in Nat
                          /\ Ctl # {} /\ Proc # {} /\ Conn # {}
                          /\ None \notin Ctl \cup Proc \cup Conn \cup {Nobody}
                          /\ None \notin CtlState \cup ProcState
                          /\ Nobody \notin Ctl \cup Proc \cup Conn

VARIABLES
    meta,      \* the connection in the block's metadata; None: no controller wanted
    edits,     \* changes of it
    registry,  \* controllerRegistry[blockId]
    ctl,       \* the controllers made
    proc,      \* the processes started
    route,     \* whose proxy the router has for the block's controller
    call,      \* where each caller is
    run,       \* where the run() is that a caller started
    raced      \* history: which of the races below have happened

vars == <<meta, edits, registry, ctl, proc, route, call, run, raced>>

\* The races that the code knows of ("TODO better sync here") or sleeps over:
\*   overlap    a process is published before the goroutines of an earlier
\*              process that has ended, or was told to
\*   second     a run() finds the process of the run() before it
\*   lostStop   a Stop finds no process, and another call may start one
\*   lostDelete the controller is deleted when another call may have it, or
\*              when it has been started again
\*   lateStop   a Stop that has waited for a process finds another one
\*   twoMakers  two resyncs find no controller, and both make one
Race == {"overlap", "second", "lostStop", "lostDelete", "lateStop", "twoMakers"}

NoCall == [at |-> "none"]
NoRun  == [at |-> "none"]
End    == [at |-> "end"]

Made == {c \in Ctl : ctl[c] # None}
Started == {p \in Proc : proc[p] # None}
Alive(p) == p \in Started /\ ~proc[p].exited

\* A process that runs and that nobody has told to end.
Running(p) == Alive(p) /\ ~proc[p].closing

Goto(c, f) == call' = [call EXCEPT ![c] = f]
RunGoto(c, f) == run' = [run EXCEPT ![c] = f]

----------------------------------------------------------------------------
(* ShellProc                                                               *)

\* Close: the process is told to end; a goroutine waits for its end, signals
\* it (here unless the wait loop has) and closes the pty.
Close(p) == proc' = [proc EXCEPT ![p].closing = TRUE]

\* The process ends by itself, or because it was told to (and is killed if
\* it does not listen).
Exit(p) ==
    /\ Alive(p)
    /\ proc' = [proc EXCEPT ![p].exited = TRUE]
    /\ UNCHANGED <<meta, edits, registry, ctl, route, call, run, raced>>

CloseDone(p) ==
    /\ p \in Started /\ proc[p].closing /\ proc[p].exited /\ ~proc[p].done
    /\ proc' = [proc EXCEPT ![p].done = TRUE]
    /\ UNCHANGED <<meta, edits, registry, ctl, route, call, run, raced>>

----------------------------------------------------------------------------
(* The goroutines of manageRunningShellProcess                             *)

\* The wait loop: DoneCh is closed ...
WaitSignal(p) ==
    /\ p \in Started /\ proc[p].wait = "waiting" /\ proc[p].exited
    /\ proc' = [proc EXCEPT ![p].done = TRUE, ![p].wait = "unregister"]
    /\ UNCHANGED <<meta, edits, registry, ctl, route, call, run, raced>>

\* ... the controller's route goes, whoever has it by now ...
WaitUnregister(p) ==
    /\ p \in Started /\ proc[p].wait = "unregister"
    /\ route' = None
    /\ proc' = [proc EXCEPT ![p].wait = "status"]
    /\ UNCHANGED <<meta, edits, registry, ctl, call, run, raced>>

\* ... and a controller that says running is done.
WaitStatus(p) ==
    /\ p \in Started /\ proc[p].wait = "status"
    /\ ctl' = [ctl EXCEPT ![proc[p].owner].status = IF @ = "running" THEN "done" ELSE @]
    /\ proc' = [proc EXCEPT ![p].wait = "end"]
    /\ UNCHANGED <<meta, edits, registry, route, call, run, raced>>

\* The read loop ends with the pty, which a child of the shell can keep open,
\* or when a read fails, whether the process has ended or not: the process is
\* told to end ...
ReadEof(p) ==
    /\ p \in Started /\ proc[p].read = "reading"
    /\ proc' = [proc EXCEPT ![p].read = "closed", ![p].closing = TRUE]
    /\ UNCHANGED <<meta, edits, registry, ctl, route, call, run, raced>>

\* ... and no more input is sent: the controller's channel goes, whosever it is.
ClearInput(p) ==
    /\ p \in Started /\ proc[p].read = "closed"
    /\ ctl' = [ctl EXCEPT ![proc[p].owner].input = None]
    /\ proc' = [proc EXCEPT ![p].read = "end"]
    /\ UNCHANGED <<meta, edits, registry, route, call, run, raced>>

----------------------------------------------------------------------------
(* Stop(graceful, newStatus), reached from StopBlockController and from    *)
(* registerController; the caller goes on at f.next.                       *)

OthersBusy(c) == \E d \in Call \ {c} : call[d] \notin {NoCall, End} \/ run[d] # NoRun

\* Under the lock: without a process that may run only the status changes.
StopLocked(c) ==
    /\ call[c].at = "Stop"
    /\ LET f == call[c]
           s == ctl[f.ctl]
           idle == s.proc = None \/ s.status \in {"done", "init"}
       IN /\ raced' = IF idle /\ OthersBusy(c)
                      THEN raced \cup {"lostStop"} ELSE raced
          /\ IF idle THEN UNCHANGED proc ELSE Close(s.proc)
          /\ IF ~idle /\ f.graceful
             THEN /\ Goto(c, [at |-> "Stop:wait", proc |-> s.proc, ctl |-> f.ctl,
                              status |-> f.status, next |-> f.next])
                  /\ UNCHANGED ctl
             ELSE /\ Goto(c, f.next)
                  /\ ctl' = [ctl EXCEPT ![f.ctl].status = f.status]
    /\ UNCHANGED <<meta, edits, registry, route, run>>

StopWaited(c) ==
    /\ call[c].at = "Stop:wait"
    /\ proc[call[c].proc].done
    /\ ctl' = [ctl EXCEPT ![call[c].ctl].status = call[c].status]
    /\ raced' = IF ctl[call[c].ctl].proc = call[c].proc THEN raced
                                                       ELSE raced \cup {"lateStop"}
    /\ Goto(c, call[c].next)
    /\ UNCHANGED <<meta, edits, registry, proc, route, run>>

\* StopBlockController and StopBlockControllerAndSetStatus.
Stopping(status, next) == [at |-> "StopBlockController", status |-> status, next |-> next]

Found(f) == IF registry = None THEN f.next
            ELSE [at |-> "Stop", ctl |-> registry, graceful |-> TRUE,
                  status |-> f.status, next |-> f.next]

StopBlockController(c) ==
    /\ call[c].at = "StopBlockController"
    /\ Goto(c, Found(call[c]))
    /\ UNCHANGED <<meta, edits, registry, ctl, proc, route, run, raced>>

\* The block was deleted, or its terminal is stopped.
BeginStop(c) ==
    /\ call[c] = NoCall
    /\ Goto(c, Found(Stopping("done", End)))
    /\ UNCHANGED <<meta, edits, registry, ctl, proc, route, run, raced>>

----------------------------------------------------------------------------
(* ResyncController(force): f.ctl is the controller it has found, f.stop   *)
(* says that it still has to stop that one by force.                       *)

BeginResync(c) ==
    /\ call[c] = NoCall
    /\ \E force \in BOOLEAN :
          Goto(c, [at |-> "getController", force |-> force, stop |-> force,
                   meta |-> meta, ctl |-> None])
    /\ UNCHANGED <<meta, edits, registry, ctl, proc, route, run, raced>>

GetController(c) ==
    /\ call[c].at = "getController"
    /\ LET f == call[c]
       IN Goto(c, CASE f.meta = None /\ registry = None -> End
                    [] f.meta = None /\ registry # None ->
                         Stopping("done", [at |-> "deleteController"])
                    [] f.meta # None /\ registry = None -> [f EXCEPT !.at = "make"]
                    [] OTHER -> [f EXCEPT !.at = "checkConn", !.ctl = registry])
    /\ UNCHANGED <<meta, edits, registry, ctl, proc, route, run, raced>>

DeleteController(c) ==
    /\ call[c].at = "deleteController"
    /\ registry' = None
    /\ raced' = IF OthersBusy(c) \/ (registry # None /\ ctl[registry].status = "running")
                THEN raced \cup {"lostDelete"} ELSE raced
    /\ Goto(c, End)
    /\ UNCHANGED <<meta, edits, ctl, proc, route, run>>

\* With force the controller is stopped, once.
Restart(f) == IF f.stop /\ f.ctl # None
              THEN Stopping("done", [f EXCEPT !.at = "sleep", !.stop = FALSE])
              ELSE [f EXCEPT !.at = "make"]

\* A process on another connection is stopped, and the status says that the
\* controller has to start again.
CheckConn(c) ==
    /\ call[c].at = "checkConn"
    /\ LET f == call[c]
           s == ctl[f.ctl]
       IN Goto(c, IF s.status = "running" /\ proc[s.proc].conn # f.meta
                  THEN Stopping("init", [f EXCEPT !.at = "sleep"])
                  ELSE Restart(f))
    /\ UNCHANGED <<meta, edits, registry, ctl, proc, route, run, raced>>

\* The 100 ms, which may not be enough for the goroutines of a process that
\* has ended, and the registry is read again.
Sleep(c) ==
    /\ call[c].at = "sleep"
    /\ Goto(c, Restart([call[c] EXCEPT !.ctl = registry]))
    /\ UNCHANGED <<meta, edits, registry, ctl, proc, route, run, raced>>

\* MakeShellController and registerController, which stops a controller that
\* was registered in the meantime.
Make(c) ==
    /\ call[c].at = "make"
    /\ LET f == call[c]
           new == CHOOSE k \in Ctl : ctl[k] = None
           made == [f EXCEPT !.at = "status", !.ctl = new]
       IN IF f.ctl # None
          THEN /\ Goto(c, [f EXCEPT !.at = "status"])
               /\ UNCHANGED <<registry, ctl, raced>>
          ELSE /\ Made # Ctl
               /\ ctl' = [ctl EXCEPT ![new] = [status |-> "init", proc |-> None,
                                               input |-> None, runLock |-> FALSE]]
               /\ registry' = new
               /\ raced' = IF registry = None THEN raced ELSE raced \cup {"twoMakers"}
               /\ Goto(c, IF registry = None THEN made
                          ELSE [at |-> "Stop", ctl |-> registry, graceful |-> FALSE,
                                status |-> "done", next |-> made])
    /\ UNCHANGED <<meta, edits, proc, route, run>>

\* A controller without a process is started, with the metadata of now, if
\* its connection is connected.
StartController(c) ==
    /\ call[c].at = "status"
    /\ LET f == call[c]
       IN \/ /\ ctl[f.ctl].status \in {"init", "done"}
             /\ RunGoto(c, [at |-> "lock", ctl |-> f.ctl, force |-> f.force, conn |-> meta])
          \/ UNCHANGED run
    /\ Goto(c, End)
    /\ UNCHANGED <<meta, edits, registry, ctl, proc, route, raced>>

----------------------------------------------------------------------------
(* run(force), a goroutine                                                 *)

\* Mutant: a load and a store for the compare-and-swap, or neither.
LockRunLock_NoCas(c) ==
    /\ run[c].at = "lock"
    /\ RunGoto(c, [run[c] EXCEPT !.at = "status"])
    /\ ctl' = [ctl EXCEPT ![run[c].ctl].runLock = TRUE]
    /\ UNCHANGED <<meta, edits, registry, proc, route, call, raced>>

LockRunLock(c) ==
    /\ run[c].at = "lock"
    /\ LET k == run[c].ctl
       IN IF ctl[k].runLock
          THEN RunGoto(c, NoRun) /\ UNCHANGED ctl
          ELSE /\ RunGoto(c, [run[c] EXCEPT !.at = "status"])
               /\ ctl' = [ctl EXCEPT ![k].runLock = TRUE]
    /\ UNCHANGED <<meta, edits, registry, proc, route, call, raced>>

\* Mutant: a run() that starts nothing returns without a release of the lock.
RunStatus_KeepsLock(c) ==
    /\ run[c].at = "status"
    /\ LET r == run[c]
           starts == r.conn # None /\ (ctl[r.ctl].status = "init" \/ r.force)
       IN RunGoto(c, IF starts THEN [r EXCEPT !.at = "setup"] ELSE NoRun)
    /\ UNCHANGED <<meta, edits, registry, ctl, proc, route, call, raced>>

\* Only a controller in its initial state starts without force.
RunStatus(c) ==
    /\ run[c].at = "status"
    /\ LET r == run[c]
           starts == r.conn # None /\ (ctl[r.ctl].status = "init" \/ r.force)
       IN RunGoto(c, [r EXCEPT !.at = IF starts THEN "setup" ELSE "unlock"])
    /\ UNCHANGED <<meta, edits, registry, ctl, proc, route, call, raced>>

NewProc(k, c) == [owner |-> k, conn |-> c, closing |-> FALSE, exited |-> FALSE,
                  done |-> FALSE, wait |-> "none", read |-> "none"]

\* A process that runs already is no error: the run() goes on without one.
\* Otherwise the connection or the start of the process may fail.
Setup(c) ==
    /\ run[c].at = "setup"
    /\ LET r == run[c]
           p == CHOOSE q \in Proc : proc[q] = None
       IN IF ctl[r.ctl].status = "running"
          THEN /\ RunGoto(c, [at |-> "input", ctl |-> r.ctl, proc |-> Nobody])
               /\ raced' = raced \cup {"second"}
               /\ UNCHANGED proc
          ELSE /\ \/ /\ RunGoto(c, [r EXCEPT !.at = "unlock"])
                     /\ UNCHANGED proc
                  \/ /\ Started # Proc
                     /\ RunGoto(c, [at |-> "publish", ctl |-> r.ctl, proc |-> p])
                     /\ proc' = [proc EXCEPT ![p] = NewProc(r.ctl, r.conn)]
               /\ UNCHANGED raced
    /\ UNCHANGED <<meta, edits, registry, ctl, route, call>>

\* The goroutines of a process have not ended yet.
Lingers(p) == proc[p].wait # "end" \/ proc[p].read # "end"

\* Mutant: only a first start says running.
Publish_KeepsDone(c) ==
    /\ run[c].at = "publish"
    /\ LET r == run[c]
       IN /\ ctl' = [ctl EXCEPT ![r.ctl].proc = r.proc,
                                ![r.ctl].status = IF @ = "init" THEN "running" ELSE @]
          /\ raced' = IF \E p \in Started \ {r.proc} : ~Running(p) /\ Lingers(p)
                      THEN raced \cup {"overlap"} ELSE raced
          /\ RunGoto(c, [r EXCEPT !.at = "input"])
    /\ UNCHANGED <<meta, edits, registry, proc, route, call>>

Publish(c) ==
    /\ run[c].at = "publish"
    /\ LET r == run[c]
       IN /\ ctl' = [ctl EXCEPT ![r.ctl].proc = r.proc, ![r.ctl].status = "running"]
          /\ raced' = IF \E p \in Started \ {r.proc} : ~Running(p) /\ Lingers(p)
                      THEN raced \cup {"overlap"} ELSE raced
          /\ RunGoto(c, [r EXCEPT !.at = "input"])
    /\ UNCHANGED <<meta, edits, registry, proc, route, call>>

SetInputCh(c) ==
    /\ run[c].at = "input"
    /\ ctl' = [ctl EXCEPT ![run[c].ctl].input = run[c].proc]
    /\ RunGoto(c, [run[c] EXCEPT !.at = "route"])
    /\ UNCHANGED <<meta, edits, registry, proc, route, call, raced>>

\* Without a process the run() panics behind the registration.
RegisterRoute(c) ==
    /\ run[c].at = "route"
    /\ LET p == run[c].proc
       IN /\ route' = p
          /\ IF p = Nobody THEN UNCHANGED proc
             ELSE proc' = [proc EXCEPT ![p].wait = "waiting", ![p].read = "reading"]
    /\ RunGoto(c, [run[c] EXCEPT !.at = "unlock"])
    /\ UNCHANGED <<meta, edits, registry, ctl, call, raced>>

UnlockRunLock(c) ==
    /\ run[c].at = "unlock"
    /\ ctl' = [ctl EXCEPT ![run[c].ctl].runLock = FALSE]
    /\ RunGoto(c, NoRun)
    /\ UNCHANGED <<meta, edits, registry, proc, route, call, raced>>

----------------------------------------------------------------------------
(* The user names another connection, or another kind of block.            *)
SetMeta ==
    /\ edits < MaxEdits
    /\ \E m \in (Conn \cup {None}) \ {meta} : meta' = m
    /\ edits' = edits + 1
    /\ UNCHANGED <<registry, ctl, proc, route, call, run, raced>>

Blank ==
    /\ registry = None /\ route = None
    /\ ctl = [k \in Ctl |-> None]
    /\ proc = [p \in Proc |-> None]

\* A shell that an earlier resync has started.
Settled ==
    LET k == CHOOSE x \in Ctl : TRUE
        p == CHOOSE x \in Proc : TRUE
    IN /\ registry = k /\ route = p
       /\ ctl = [x \in Ctl |-> IF x = k THEN [status |-> "running", proc |-> p, input |-> p,
                                              runLock |-> FALSE] ELSE None]
       /\ proc = [x \in Proc |->
                    IF x = p THEN [NewProc(k, meta) EXCEPT !.wait = "waiting", !.read = "reading"]
                             ELSE None]

Init ==
    /\ meta = CHOOSE m \in Conn : TRUE  \* the connections are alike
    /\ edits = 0
    /\ Blank \/ Settled
    /\ call = [c \in Call |-> NoCall]
    /\ run = [c \in Call |-> NoRun]
    /\ raced = {}

CallStep(c) ==
    \/ StopBlockController(c) \/ StopLocked(c) \/ StopWaited(c)
    \/ GetController(c) \/ DeleteController(c) \/ CheckConn(c)
    \/ Sleep(c) \/ Make(c) \/ StartController(c)

RunStep(c) ==
    \/ LockRunLock(c) \/ RunStatus(c) \/ Setup(c) \/ Publish(c)
    \/ SetInputCh(c) \/ RegisterRoute(c) \/ UnlockRunLock(c)

ProcStep(p) ==
    \/ CloseDone(p) \/ WaitSignal(p) \/ WaitUnregister(p) \/ WaitStatus(p)
    \/ ClearInput(p)

Next ==
    \/ SetMeta
    \/ \E c \in Call : BeginResync(c) \/ BeginStop(c) \/ CallStep(c) \/ RunStep(c)
    \/ \E p \in Proc : Exit(p) \/ ReadEof(p) \/ ProcStep(p)

Spec == Init /\ [][Next]_vars

\* The goroutines run, and a process that is told to end does: it is killed
\* when it does not listen, and its pty is closed.  The pty of a process that
\* ends by itself may stay open.  As a behaviour has finitely many steps, one
\* condition says of all of them what one for each would.
Killed(p) == p \in Started /\ proc[p].closing /\ Exit(p)
PtyClosed(p) == p \in Started /\ proc[p].closing /\ proc[p].exited /\ ReadEof(p)

Fairness ==
    WF_vars(\/ \E c \in Call : CallStep(c) \/ RunStep(c)
            \/ \E p \in Proc : ProcStep(p) \/ Killed(p) \/ PtyClosed(p))

FairSpec == Spec /\ Fairness

----------------------------------------------------------------------------
(* Properties                                                              *)

TypeOK ==
    /\ meta \in Conn \cup {None} /\ edits \in 0 .. MaxEdits
    /\ registry \in Ctl \cup {None} /\ route \in Proc \cup {None, Nobody}
    /\ \A k \in Made : ctl[k] \in CtlState
    /\ \A p \in Started : proc[p] \in ProcState
    /\ raced \subseteq Race

\* Nothing is under way: no call and no run(), a process that was told to end
\* has, and one that has ended has been waited for and, if it was told to, read
\* to the end.
Quiet ==
    /\ \A c \in Call : call[c] \in {NoCall, End} /\ run[c] = NoRun
    /\ \A p \in Started :
          /\ proc[p].closing => proc[p].exited /\ proc[p].read = "end"
          /\ proc[p].exited => proc[p].wait = "end"

\* Two shells never run for one block, and none without a controller, but for
\* a controller that was deleted too early, two that were made at once, or the
\* goroutines and the Stop of an earlier process that come too late.
OneShell ==
    raced \subseteq {"second", "lostStop"} =>
       \A p \in Started : Running(p) =>
          /\ \A q \in Started : Running(q) => q = p
          /\ Quiet => registry = proc[p].owner /\ ctl[registry].proc = p

\* When nothing is under way, a shell that runs has its input and its route,
\* and its controller says so; a controller that says so has one.
Connected ==
    Quiet /\ raced \subseteq {"lostStop"} =>
       /\ \A p \in Started : Running(p) =>
             /\ route = p
             /\ ctl[proc[p].owner].input = p
             /\ ctl[proc[p].owner].status = "running"
       /\ \A k \in Made : ctl[k].status = "running" => Running(ctl[k].proc)

\* In the end every call has returned and every run() too, and no controller
\* says running of a process that has ended.
EndsQuiet ==
    <>[] /\ Quiet
         /\ \A k \in Made : /\ ~ctl[k].runLock
                            /\ ctl[k].status = "running" => Alive(ctl[k].proc)

=============================================================================
