----------------------------- MODULE Scheduler -----------------------------
(***************************************************************************)
(* pkg/waveproxy: HTTP requests fail over between upstream channels.  A    *)
(* request asks the scheduler for a channel, sends one upstream attempt,   *)
(* reports success or failure to that channel's circuit breaker, and tries *)
(* again without the channels that failed it, at most MaxRetries times.    *)
(*                                                                         *)
(* SelectChannel holds Scheduler.mu throughout, but the channel list has a *)
(* lock of its own: the list is read once (GetActiveChannels) and then     *)
(* once more for each candidate (GetChannel by index), and an edit of the  *)
(* configuration (LoadChannels) may fall between two of these reads.  So a *)
(* selection is a sequence of steps here, one per candidate.               *)
(*                                                                         *)
(* Time is the flag "cooled" of an open breaker: OpenDuration has passed   *)
(* since OpenedAt.  FailureCount matters only when it is compared with the *)
(* threshold, so it is counted up to FailureBound.                         *)
(*                                                                         *)
(* "moved" is not in the code: it says of a selection, and then of the     *)
(* request it was made for, that while it ran an edit put another channel  *)
(* at an index it had read.  The call then returns a channel it did not    *)
(* look at; only for such a request the properties below make an exception.*)
(***************************************************************************)
EXTENDS Integers, Sequences, FiniteSets

CONSTANTS
    Requests,             \* HTTP requests in service at a time
    Users,                \* user IDs that requests carry
    NoUser,               \* a request without one
    Carries,              \* request -> the user IDs it may carry: all of them, unless bounded
    Channels,             \* channel IDs
    NoChannel,
    ChannelLists,         \* the lists of channels the configuration may hold
    FailureThreshold,     \* SchedulerConfig, as in the code
    SuccessThreshold,
    HalfOpenMaxAttempts,
    MaxRetries,
    FailureBound          \* bound on the FailureCount kept

ASSUME ThresholdAssumption ==
    /\ FailureThreshold \in Nat \ {0}
    /\ SuccessThreshold \in Nat \ {0}
    /\ HalfOpenMaxAttempts \in Nat \ {0}
    /\ MaxRetries \in Nat \ {0}
    /\ FailureBound \in Nat /\ FailureBound >= FailureThreshold

ASSUME ChannelAssumption ==
    /\ NoChannel \notin Channels
    /\ NoUser \notin Users
    /\ ChannelLists # {}
    /\ ChannelLists \subseteq
         Seq([id : Channels, priority : Nat, disabled : BOOLEAN, promotion : BOOLEAN])

ASSUME CarriesAssumption == Carries \in [Requests -> SUBSET (Users \cup {NoUser})]

Free == "free"
ASSUME FreeAssumption == Free \notin Requests

VARIABLES
    channels,    \* channel.Manager: the channels of the endpoint's type
    breakers,    \* Scheduler.breakers; a missing one is as a new one
    affinity,    \* Scheduler.affinity: user -> channel ID
    mu,          \* who holds Scheduler.mu across steps: a request, or Free
    sel,         \* the locals of the SelectChannel call that holds mu
    req          \* the locals of each request's handler

vars == <<channels, breakers, affinity, mu, sel, req>>

States == {"closed", "open", "halfopen"}
Stages == {"affinity", "promotion", "priority", "recovery"}
Phases == {"idle", "select", "upstream", "done"}

NewBreaker == [state |-> "closed", failures |-> 0, trips |-> 0, cooled |-> FALSE]
NoSel      == [stage |-> "affinity", i |-> 1, active |-> <<>>, moved |-> FALSE]
NoReq      == [phase |-> "idle", user |-> NoUser, attempt |-> 0, excluded |-> {},
               failed |-> FALSE, channel |-> NoChannel, at |-> "closed", moved |-> FALSE]
Done       == [NoReq EXCEPT !.phase = "done"]

-----------------------------------------------------------------------------
(* The circuit breaker                                                     *)

Capped(n) == IF n < FailureBound THEN n ELSE FailureBound

\* isChannelAvailable: whether a breaker lets a request through ...
Available(b) ==
    \/ b.state = "closed"
    \/ b.state = "open" /\ b.cooled
    \/ b.state = "halfopen" /\ b.trips < HalfOpenMaxAttempts

\* ... and the breaker after it was asked.
Asked(b) ==
    IF b.state = "open" /\ b.cooled
    THEN [b EXCEPT !.state = "halfopen", !.trips = 0, !.cooled = FALSE]
    ELSE b

\* Mutant: one success too many is asked for.
AfterSuccessLate(b) ==
    IF b.state = "halfopen"
    THEN IF b.trips >= SuccessThreshold
         THEN [b EXCEPT !.state = "closed", !.failures = 0, !.trips = 0]
         ELSE [b EXCEPT !.failures = 0, !.trips = b.trips + 1]
    ELSE IF b.state = "closed" THEN [b EXCEPT !.failures = 0] ELSE b

AfterSuccess(b) ==
    IF b.state = "halfopen"
    THEN IF b.trips + 1 >= SuccessThreshold
         THEN [b EXCEPT !.state = "closed", !.failures = 0, !.trips = 0]
         ELSE [b EXCEPT !.failures = 0, !.trips = b.trips + 1]
    ELSE IF b.state = "closed" THEN [b EXCEPT !.failures = 0] ELSE b

\* Mutant: a half-open failure forgets to reset the trips.
AfterFailureKeepingTrips(b) ==
    LET n == Capped(b.failures + 1)
    IN  IF b.state = "halfopen" \/ (b.state = "closed" /\ n >= FailureThreshold)
        THEN [b EXCEPT !.state = "open", !.failures = n, !.cooled = FALSE]
        ELSE [b EXCEPT !.failures = n]

\* A retryable failure; any other leaves the breaker as it is.
AfterFailure(b) ==
    LET n == Capped(b.failures + 1)
    IN  IF b.state = "halfopen" \/ (b.state = "closed" /\ n >= FailureThreshold)
        THEN [state |-> "open", failures |-> n, cooled |-> FALSE,
              trips |-> IF b.state = "halfopen" THEN 0 ELSE b.trips]
        ELSE [b EXCEPT !.failures = n]

-----------------------------------------------------------------------------
(* The channel list                                                        *)

EffectivePriority(list, k) ==
    IF list[k].priority = 0 THEN k - 1 ELSE list[k].priority

\* GetActiveChannels: the channels not disabled, by priority; sort.Slice
\* leaves the order of equal priorities open.
ActiveLists(list) ==
    LET enabled == {k \in DOMAIN list : ~list[k].disabled}
        n       == Cardinality(enabled)
    IN  {[j \in 1 .. n |-> [index |-> s[j], id |-> list[s[j]].id]] :
            s \in {t \in [1 .. n -> enabled] :
                     \A a, b \in 1 .. n : a < b =>
                        /\ t[a] # t[b]
                        /\ EffectivePriority(list, t[a]) <= EffectivePriority(list, t[b])}}

-----------------------------------------------------------------------------
(* SelectChannel, called by request r                                      *)

Init ==
    /\ channels \in ChannelLists
    /\ breakers = [c \in Channels |-> NewBreaker]
    /\ affinity = [u \in Users |-> NoChannel]
    /\ mu = Free
    /\ sel = NoSel
    /\ req = [r \in Requests |-> NoReq]

SelectStart(r) ==
    /\ mu = Free
    /\ req[r].phase = "select"
    /\ \E active \in ActiveLists(channels) :
         sel' = [NoSel EXCEPT !.active = active]
    /\ mu' = r
    /\ UNCHANGED <<channels, breakers, affinity, req>>

Candidate == sel.active[sel.i]

\* The candidate is passed over: on to the next one, or to the next stage.
NextCandidate ==
    LET following == [s \in Stages |->
                        CASE s = "affinity"  -> "promotion"
                          [] s = "promotion" -> "priority"
                          [] OTHER           -> "recovery"]
    IN  IF sel.i < Len(sel.active) \/ sel.stage = "recovery"
        THEN [sel EXCEPT !.i = sel.i + 1]
        ELSE [sel EXCEPT !.i = 1, !.stage = following[sel.stage]]

\* The call returns the channel now at the candidate's index to request r.
Return(r, setAffinity) ==
    /\ LET c == channels[Candidate.index].id
       IN  req' = [req EXCEPT ![r].phase = "upstream",
                              ![r].channel = c,
                              ![r].at = breakers'[c].state,
                              ![r].moved = sel.moved]
    /\ affinity' = IF setAffinity /\ req[r].user # NoUser
                   THEN [affinity EXCEPT ![req[r].user] = Candidate.id]
                   ELSE affinity
    /\ mu' = Free
    /\ sel' = NoSel
    /\ UNCHANGED channels

PassOver ==
    /\ sel' = NextCandidate
    /\ UNCHANGED <<channels, affinity, mu, req>>

Ask(c) == breakers' = [breakers EXCEPT ![c] = Asked(breakers[c])]

\* GetChannel(index) still finds a channel there.
Found == Candidate.index \in DOMAIN channels

Considering(r, stage) ==
    /\ mu = r
    /\ sel.stage = stage
    /\ sel.i <= Len(sel.active)

TryAffinity(r) ==
    /\ Considering(r, "affinity")
    /\ LET c    == Candidate.id
           mine == req[r].user # NoUser /\ affinity[req[r].user] = c /\ c \notin req[r].excluded
       IN  \/ /\ mine
              /\ Ask(c)
              /\ IF Available(breakers[c]) /\ Found THEN Return(r, FALSE) ELSE PassOver
           \/ ~mine /\ PassOver /\ UNCHANGED breakers

TryPromotion(r) ==
    /\ Considering(r, "promotion")
    /\ LET c       == Candidate.id
           offered == c \notin req[r].excluded /\ Found /\ channels[Candidate.index].promotion
       IN  \/ /\ offered
              /\ Ask(c)
              /\ IF Available(breakers[c]) THEN Return(r, TRUE) ELSE PassOver
           \/ ~offered /\ PassOver /\ UNCHANGED breakers

\* Mutant: the exclusions are not looked at.
TryPriorityAny(r) ==
    /\ Considering(r, "priority")
    /\ LET c == Candidate.id
       IN  /\ Ask(c)
           /\ IF Available(breakers[c]) /\ Found THEN Return(r, TRUE) ELSE PassOver

TryPriority(r) ==
    /\ Considering(r, "priority")
    /\ LET c       == Candidate.id
           allowed == c \notin req[r].excluded
       IN  \/ /\ allowed
              /\ Ask(c)
              /\ IF Available(breakers[c]) /\ Found THEN Return(r, TRUE) ELSE PassOver
           \/ ~allowed /\ PassOver /\ UNCHANGED breakers

\* "No available channels - try to find one in half-open state for recovery"
TryRecovery(r) ==
    /\ Considering(r, "recovery")
    /\ UNCHANGED breakers
    /\ LET c == Candidate.id
       IN  IF c \notin req[r].excluded /\ breakers[c].state = "halfopen" /\ Found
           THEN Return(r, FALSE)
           ELSE PassOver

\* Mutant: asking again is not counted as an attempt.
SelectFailUncounted(r) ==
    /\ mu = r
    /\ sel.i > Len(sel.active)
    /\ mu' = Free
    /\ sel' = NoSel
    /\ req' = IF req[r].failed \/ req[r].attempt = MaxRetries - 1
              THEN [req EXCEPT ![r] = Done]
              ELSE req
    /\ UNCHANGED <<channels, breakers, affinity>>

\* No channel: the handler answers with the last failure, with an error of
\* its own at the last attempt, or asks again.
SelectFail(r) ==
    /\ mu = r
    /\ sel.i > Len(sel.active)
    /\ mu' = Free
    /\ sel' = NoSel
    /\ req' = IF req[r].failed \/ req[r].attempt = MaxRetries - 1
              THEN [req EXCEPT ![r] = Done]
              ELSE [req EXCEPT ![r].attempt = req[r].attempt + 1]
    /\ UNCHANGED <<channels, breakers, affinity>>

-----------------------------------------------------------------------------
(* The handler, and the other callers of the scheduler                     *)

Arrive(r, user) ==
    /\ req[r].phase = "idle"
    /\ req' = [req EXCEPT ![r] = [NoReq EXCEPT !.phase = "select", !.user = user]]
    /\ UNCHANGED <<channels, breakers, affinity, mu, sel>>

RecordSuccess(r) ==
    /\ mu = Free
    /\ req[r].phase = "upstream"
    /\ LET c == req[r].channel
       IN  breakers' = [breakers EXCEPT ![c] = AfterSuccess(breakers[c])]
    /\ req' = [req EXCEPT ![r] = Done]
    /\ UNCHANGED <<channels, affinity, mu, sel>>

RecordFailure(r, retryable) ==
    /\ mu = Free
    /\ req[r].phase = "upstream"
    /\ LET c == req[r].channel
           n == req[r].attempt + 1
       IN  /\ breakers' = IF retryable
                          THEN [breakers EXCEPT ![c] = AfterFailure(breakers[c])]
                          ELSE breakers
           /\ req' = [req EXCEPT ![r] =
                        IF n < MaxRetries
                        THEN [NoReq EXCEPT !.phase = "select", !.user = req[r].user,
                                           !.attempt = n, !.failed = TRUE,
                                           !.excluded = req[r].excluded \cup {c}]
                        ELSE Done]
    /\ UNCHANGED <<channels, affinity, mu, sel>>

\* The response is written and the handler returns.
Leave(r) ==
    /\ req[r].phase = "done"
    /\ req' = [req EXCEPT ![r] = NoReq]
    /\ UNCHANGED <<channels, breakers, affinity, mu, sel>>

ResetCircuit(c) ==
    /\ mu = Free
    /\ breakers' = [breakers EXCEPT ![c].state = "closed", ![c].failures = 0,
                                    ![c].trips = 0, ![c].cooled = FALSE]
    /\ UNCHANGED <<channels, affinity, mu, sel, req>>

\* OpenDuration passes for an open breaker.
Cool(c) ==
    /\ breakers[c].state = "open"
    /\ breakers' = [breakers EXCEPT ![c].cooled = TRUE]
    /\ UNCHANGED <<channels, affinity, mu, sel, req>>

\* A list that holds another channel at an index that selection s has read.
Shifts(list, s) ==
    \E k \in DOMAIN s.active :
        LET seen == s.active[k]
        IN  seen.index \in DOMAIN list /\ list[seen.index].id # seen.id

\* A channel was created, updated or deleted by an RPC: LoadChannels.
LoadChannels ==
    /\ channels' \in ChannelLists
    /\ sel' = [sel EXCEPT !.moved = sel.moved \/ Shifts(channels', sel)]
    /\ UNCHANGED <<breakers, affinity, mu, req>>

Step(r) ==
    \/ SelectStart(r)
    \/ TryAffinity(r) \/ TryPromotion(r) \/ TryPriority(r) \/ TryRecovery(r)
    \/ SelectFail(r)
    \/ RecordSuccess(r)
    \/ \E retryable \in BOOLEAN : RecordFailure(r, retryable)

Next ==
    \/ \E r \in Requests :
         \/ \E user \in Carries[r] : Arrive(r, user)
         \/ Step(r)
         \/ Leave(r)
    \/ \E c \in Channels : ResetCircuit(c) \/ Cool(c)
    \/ LoadChannels

\* Each request has a goroutine, and upstream requests have a timeout.  A
\* sync.Mutex that is freed again and again is granted in the end (its
\* starvation mode hands it to the longest waiter): strong fairness.
Spec == Init /\ [][Next]_vars /\ \A r \in Requests : SF_vars(Step(r))

-----------------------------------------------------------------------------
(* Properties                                                              *)

BreakerType == [state : States, failures : 0 .. FailureBound,
                trips : 0 .. SuccessThreshold - 1, cooled : BOOLEAN]

ReqType == [phase : Phases, user : Users \cup {NoUser}, attempt : 0 .. MaxRetries,
            excluded : SUBSET Channels, failed : BOOLEAN,
            channel : Channels \cup {NoChannel}, at : States, moved : BOOLEAN]

TypeOK ==
    /\ channels \in ChannelLists
    /\ breakers \in [Channels -> BreakerType]
    /\ affinity \in [Users -> Channels \cup {NoChannel}]
    /\ mu \in Requests \cup {Free}
    /\ sel \in [stage : Stages, i : Nat \ {0}, active : Seq([index : Nat, id : Channels]),
               moved : BOOLEAN]
    /\ req \in [Requests -> ReqType]

\* Whatever order late answers, resets and selections come in, a breaker that
\* lets everything through has seen fewer failures than the threshold since
\* its last success, half-open trips are counted in half-open only, and the
\* cooling flag belongs to the open state.
BreakerOK(b) ==
    /\ b.state = "closed" => b.failures < FailureThreshold
    /\ b.state # "halfopen" => b.trips = 0
    /\ b.state # "open" => ~b.cooled

BreakerInv == \A c \in Channels : BreakerOK(breakers[c])

\* A request in flight has a channel, one still trying has attempts left, and
\* the request that holds mu is the one selecting.
ReqInv ==
    \A r \in Requests :
        /\ req[r].phase = "upstream" => req[r].channel \in Channels
        /\ req[r].phase \in {"select", "upstream"} => req[r].attempt < MaxRetries
        /\ mu = r => req[r].phase = "select"

\* A request that failed over is never sent to a channel that failed it
\* ("Record failure and try next channel"), although channels are added,
\* deleted, disabled and reordered meanwhile; unless the channel's place in
\* the list was taken by another between the two reads of the list.
NeverSameChannelTwice ==
    \A r \in Requests :
        req[r].phase = "upstream" /\ ~req[r].moved => req[r].channel \notin req[r].excluded

\* No request is handed a channel whose circuit was open when it was chosen,
\* with the same exception.
NeverThroughOpenCircuit ==
    \A r \in Requests : req[r].phase = "upstream" /\ ~req[r].moved => req[r].at # "open"

\* At most HalfOpenMaxAttempts requests are out at a time that were admitted
\* while their channel was half-open ("Max attempts in half-open state").
HalfOpenAttemptsLimited ==
    \A c \in Channels :
        breakers[c].state = "halfopen" =>
            Cardinality({r \in Requests : req[r].phase = "upstream" /\ req[r].channel = c
                                          /\ req[r].at = "halfopen"}) <= HalfOpenMaxAttempts

\* Every request is answered, however many channels fail and whatever the
\* other requests do to the circuits.
EveryRequestAnswered ==
    \A r \in Requests : req[r].phase = "select" ~> req[r].phase = "done"
=============================================================================
