------------------------------ MODULE Builder ------------------------------
(***************************************************************************)
(* One BuilderController: the builds of an app that Start and              *)
(* RestartAndWaitForBuild begin, the processes that they run, the output   *)
(* buffer through which a process tells its port, and Stop.                *)
(*                                                                         *)
(* A section under bc.lock is one step.  A caller first polls the status   *)
(* until no build is under way, without the lock, so that others may come  *)
(* in between.                                                             *)
(*                                                                         *)
(* The compiler has no deadline and cannot be cancelled: a build may stay  *)
(* there for ever, or panic, and then the status keeps saying "building".  *)
(***************************************************************************)
EXTENDS Naturals, FiniteSets

CONSTANTS
    Call,      \* callers; a caller's build and output buffer bear its name
    App,       \* apps that may be built
    Proc,      \* processes that may be started
    None

\* A process that was started; "replacedBy" is the app of the build that took its place.
Process == [app : App, alive : BOOLEAN, buffer : Call, told : BOOLEAN, watched : BOOLEAN,
            replacedBy : App \cup {None}]

ASSUME BuilderAssumption ==
    /\ None \notin Call \cup App \cup Proc \cup Process
    /\ Call # {} /\ App # {} /\ Proc # {}

VARIABLES
    bc,        \* the controller: app, process, buffer, status and port
    callback,  \* the build that looks for a port in a buffer's lines
    proc,      \* the processes
    call,      \* where each caller is
    build,     \* where the build is that a caller began
    overlap    \* history: a build began while another was under way

builderVars == <<bc, callback, proc, call, build, overlap>>

Started  == {p \in Proc : proc[p] # None}
Alive(p) == p \in Started /\ proc[p].alive

Goto(c, f) == call' = [call EXCEPT ![c] = f]
BuildGoto(b, f) == build' = [build EXCEPT ![b] = f]
Kill(p) == IF p = None THEN proc ELSE [proc EXCEPT ![p].alive = FALSE]

\* stopProcess_nolock and setStatus_nolock
Status(r, status, port) == [r EXCEPT !.status = status, !.port = port]

Underway(b) == build[b].at \notin {"none", "watch", "end", "panic"}

----------------------------------------------------------------------------
(* Calls                                                                   *)

BeginStart(c) ==
    /\ call[c].at = "none"
    /\ \E a \in App, wait \in BOOLEAN : Goto(c, [at |-> "poll", app |-> a, wait |-> wait])
    /\ UNCHANGED <<bc, callback, proc, build, overlap>>

BeginStop(c) ==
    /\ call[c].at = "none"
    /\ Goto(c, [at |-> "poll", app |-> None])
    /\ UNCHANGED <<bc, callback, proc, build, overlap>>

\* waitForBuildDone; only Stop waits without a deadline.
Poll(c) ==
    /\ call[c].at = "poll"
    /\ \/ bc.status # "building" /\ Goto(c, [call[c] EXCEPT !.at = "enter"])
       \/ call[c].app # None /\ Goto(c, [at |-> "end"])
    /\ UNCHANGED <<bc, callback, proc, build, overlap>>

\* Start, and RestartAndWaitForBuild (which also waits for the result): the
\* process of another app is stopped, and a build begins.
Start(c) ==
    /\ call[c].at = "enter" /\ call[c].app # None
    /\ LET a == call[c].app
           stops == bc.app # a
       IN /\ proc' = IF stops THEN Kill(bc.process) ELSE proc
          /\ bc' = [Status(bc, "building", None) EXCEPT
                      !.app = a, !.buffer = c, !.process = IF stops THEN None ELSE @]
          /\ BuildGoto(c, [at |-> "build", app |-> a])
    /\ overlap' = (overlap \/ \E b \in Call : Underway(b))
    /\ Goto(c, [at |-> IF call[c].wait THEN "result" ELSE "end"])
    /\ UNCHANGED callback

\* The result has come, or the caller's time is up.
Result(c) ==
    /\ call[c].at = "result"
    /\ Goto(c, [at |-> "end"])
    /\ UNCHANGED <<bc, callback, proc, build, overlap>>

\* A Stop may meet a build that began after it looked, which goes on.
Stop(c) ==
    /\ call[c].at = "enter" /\ call[c].app = None
    /\ proc' = Kill(bc.process)
    /\ bc' = [Status(bc, "stopped", None) EXCEPT !.process = None]
    /\ Goto(c, [at |-> "end"])
    /\ UNCHANGED <<callback, build, overlap>>

----------------------------------------------------------------------------
(* buildAndRun                                                             *)

\* The compiler ends, one way or the other, or panics: the handler of the
\* panic leaves the controller as it is.
Compile(b) ==
    /\ build[b].at = "build"
    /\ \/ \E next \in {"run", "error"} : BuildGoto(b, [build[b] EXCEPT !.at = next])
       \/ BuildGoto(b, [at |-> "panic"])
    /\ UNCHANGED <<bc, callback, proc, call, overlap>>

\* runBuilderApp: the lines of the controller's buffer are searched for a
\* port, which may be the buffer of a later build ...
SetLineCallback(b) ==
    /\ build[b].at = "run"
    /\ callback' = [callback EXCEPT ![bc.buffer] = b]
    /\ BuildGoto(b, [build[b] EXCEPT !.at = "exec"])
    /\ UNCHANGED <<bc, proc, call, overlap>>

\* ... and the process writes to the buffer of that moment.
Exec(b) ==
    /\ build[b].at = "exec"
    /\ \/ /\ BuildGoto(b, [build[b] EXCEPT !.at = "error"])
          /\ UNCHANGED proc
       \/ /\ Started # Proc
          /\ LET p == CHOOSE q \in Proc : proc[q] = None
             IN /\ proc' = [proc EXCEPT ![p] = [app |-> build[b].app, alive |-> TRUE,
                                                buffer |-> bc.buffer, told |-> FALSE,
                                                watched |-> FALSE, replacedBy |-> None]]
                /\ BuildGoto(b, [at |-> "port", app |-> build[b].app, proc |-> p, port |-> None])
    /\ UNCHANGED <<bc, callback, call, overlap>>

\* A line with the port of p goes to the build that looks for one.
TellPort(p) ==
    /\ Alive(p) /\ ~proc[p].told
    /\ proc' = [proc EXCEPT ![p].told = TRUE]
    /\ LET b == callback[proc[p].buffer]
       IN IF b # None /\ build[b].at = "port" /\ build[b].port = None
          THEN BuildGoto(b, [build[b] EXCEPT !.port = p])
          ELSE UNCHANGED build
    /\ UNCHANGED <<bc, callback, call, overlap>>

\* With a port the build goes on; else the process has died, or is killed
\* when the time is up.
GetPort(b) ==
    /\ build[b].at = "port"
    /\ \/ /\ build[b].port # None
          /\ BuildGoto(b, [build[b] EXCEPT !.at = "publish"])
          /\ UNCHANGED proc
       \/ /\ proc' = Kill(build[b].proc)
          /\ BuildGoto(b, [build[b] EXCEPT !.at = "error"])
    /\ UNCHANGED <<bc, callback, call, overlap>>

\* The process that was there (of the same app, if builds do not overlap) is
\* left to itself; replacedBy is history.
Publish(b) ==
    /\ build[b].at = "publish"
    /\ LET p == build[b].proc
       IN /\ bc' = [Status(bc, "running", build[b].port) EXCEPT !.process = p]
          /\ proc' = [q \in Proc |->
                        CASE q = p -> [proc[p] EXCEPT !.watched = TRUE]
                          [] q # p /\ q = bc.process -> [proc[q] EXCEPT !.replacedBy = build[b].app]
                          [] OTHER -> proc[q]]
    /\ BuildGoto(b, [at |-> "watch"])
    /\ UNCHANGED <<callback, call, overlap>>

\* Mutant: the error does not reach the status.
HandleBuildError_Silent(b) ==
    /\ build[b].at = "error"
    /\ BuildGoto(b, [at |-> "end"])
    /\ UNCHANGED <<bc, callback, proc, call, overlap>>

HandleBuildError(b) ==
    /\ build[b].at = "error"
    /\ bc' = Status(bc, "error", None)
    /\ BuildGoto(b, [at |-> "end"])
    /\ UNCHANGED <<callback, proc, call, overlap>>

\* Mutant: the end of any process is the end of the controller's.
WatchEnds_AnyProcess(p) ==
    /\ p \in Started /\ proc[p].watched /\ ~proc[p].alive
    /\ bc' = [Status(bc, "stopped", None) EXCEPT !.process = None]
    /\ proc' = [proc EXCEPT ![p].watched = FALSE]
    /\ UNCHANGED <<callback, call, build, overlap>>

\* The goroutine that waits for the process: one that was replaced or
\* stopped does not matter any more.
WatchEnds(p) ==
    /\ p \in Started /\ proc[p].watched /\ ~proc[p].alive
    /\ bc' = IF bc.process = p THEN [Status(bc, "stopped", None) EXCEPT !.process = None] ELSE bc
    /\ proc' = [proc EXCEPT ![p].watched = FALSE]
    /\ UNCHANGED <<callback, call, build, overlap>>

Exit(p) ==
    /\ Alive(p)
    /\ proc' = Kill(p)
    /\ UNCHANGED <<bc, callback, call, build, overlap>>

----------------------------------------------------------------------------
\* An earlier call has ended: its app is running, or it gave up.
Earlier == CHOOSE c \in Call : TRUE

Nothing ==
    /\ bc = [app |-> None, process |-> None, buffer |-> None, status |-> "init", port |-> None]
    /\ proc = [p \in Proc |-> None]
    /\ callback = [c \in Call |-> None]
    /\ build = [c \in Call |-> [at |-> "none"]]

Running ==
    LET p0 == CHOOSE p \in Proc : TRUE
        a0 == CHOOSE a \in App : TRUE
    IN /\ bc = [app |-> a0, process |-> p0, buffer |-> Earlier, status |-> "running",
                port |-> p0]
       /\ proc = [p \in Proc |-> IF p # p0 THEN None
                                 ELSE [app |-> a0, alive |-> TRUE, buffer |-> Earlier,
                                       told |-> TRUE, watched |-> TRUE, replacedBy |-> None]]
       /\ callback = [c \in Call |-> IF c = Earlier THEN c ELSE None]
       /\ build = [c \in Call |-> [at |-> IF c = Earlier THEN "watch" ELSE "none"]]

BuilderInit ==
    /\ Nothing \/ Running
    /\ call = [c \in Call |-> [at |-> IF c = Earlier THEN "end" ELSE "none"]]
    /\ overlap = FALSE

CallStep(c) == Poll(c) \/ Start(c) \/ Result(c) \/ Stop(c)

AfterCompile(b) ==
    SetLineCallback(b) \/ Exec(b) \/ GetPort(b) \/ Publish(b) \/ HandleBuildError(b)

BuildStep(b) == Compile(b) \/ AfterCompile(b)

BuilderNext ==
    \/ \E c \in Call : BeginStart(c) \/ BeginStop(c) \/ CallStep(c) \/ BuildStep(c)
    \/ \E p \in Proc : TellPort(p) \/ WatchEnds(p) \/ Exit(p)

BuilderSpec == BuilderInit /\ [][BuilderNext]_builderVars

\* The goroutines run, and once it is compiled a build has a deadline where it
\* waits (for the port).  Of the compiler nothing is assumed.
Fairness ==
    /\ \A c \in Call : WF_builderVars(CallStep(c)) /\ WF_builderVars(AfterCompile(c))
    /\ WF_builderVars(\E p \in Proc : WatchEnds(p))

FairBuilderSpec == BuilderSpec /\ Fairness

----------------------------------------------------------------------------
(* Properties                                                              *)

Statuses == {"init", "building", "running", "stopped", "error"}

BuilderTypeOK ==
    /\ bc \in [app : App \cup {None}, process : Proc \cup {None}, buffer : Call \cup {None},
               status : Statuses, port : Proc \cup {None}]
    /\ callback \in [Call -> Call \cup {None}]
    /\ \A p \in Started : proc[p] \in Process
    /\ overlap \in BOOLEAN

Quiet ==
    /\ \A b \in Call : ~Underway(b)
    /\ \A p \in Started : proc[p].watched => proc[p].alive

\* When no build is under way, wherever the calls are: a status of running has
\* a process that runs, one of stopped has none, and one of building was left
\* by a build that panicked.  Unless a build began while another was under
\* way, the port is that of the controller's process, and the only other
\* processes that run were replaced by a rebuild of their own app (which does
\* not stop the process of the build before it).
SettledIsTrue ==
    Quiet =>
       /\ bc.status = "running" => Alive(bc.process)
       /\ bc.status \in {"init", "stopped"} => bc.process = None
       /\ bc.status = "building" => \E b \in Call : build[b].at = "panic"
       /\ ~overlap =>
            /\ bc.status = "running" => bc.port = bc.process
            /\ \A p \in Started :
                  Alive(p) => p = bc.process \/ proc[p].replacedBy = proc[p].app

\* A Stop, which has no deadline, behind a build that does not say it ended.
StopHangs(c) ==
    /\ call[c].at = "poll" /\ call[c].app = None
    /\ bc.status = "building" /\ \E b \in Call : build[b].at \in {"build", "panic"}

\* Every call returns, but for a Stop behind a build whose compiler hangs or
\* panicked; every build that is compiled ends, and so does every watcher of
\* a process that ended.
EndsQuiet ==
    <>[](/\ \A c \in Call : call[c].at \in {"none", "end"} \/ StopHangs(c)
         /\ \A b \in Call : Underway(b) => build[b].at = "build"
         /\ \A p \in Started : proc[p].watched => proc[p].alive)

=============================================================================
