----------------------- MODULE SchedulerBuilderProofs -----------------------
(***************************************************************************)
(* What the runs of Scheduler and of Builder show on small instances, for  *)
(* every number of channels, requests, users and every setting of the      *)
(* thresholds, and for any callers, apps and processes.  The two share no  *)
(* variable; what both have is named for Builder in its part.              *)
(***************************************************************************)
EXTENDS Scheduler, Builder, FiniteSetTheorems, SequenceTheorems, TLAPS

-----------------------------------------------------------------------------
(* Scheduler                                                               *)

CandidateType == [index : Nat, id : Channels]
SelType == [stage : Stages, i : Nat \ {0}, active : Seq(CandidateType), moved : BOOLEAN]

\* Every transition of a breaker keeps its type and its invariant.
LEMMA BreakerSteps ==
    ASSUME NEW b \in BreakerType, BreakerOK(b)
    PROVE  /\ Asked(b) \in BreakerType /\ BreakerOK(Asked(b))
           /\ AfterSuccess(b) \in BreakerType /\ BreakerOK(AfterSuccess(b))
           /\ AfterFailure(b) \in BreakerType /\ BreakerOK(AfterFailure(b))
<1>1. Asked(b) \in BreakerType /\ BreakerOK(Asked(b))
  BY ThresholdAssumption DEF BreakerType, BreakerOK, Asked, States
<1>2. AfterSuccess(b) \in BreakerType /\ BreakerOK(AfterSuccess(b))
  <2>0. 0 \in 0 .. FailureBound /\ 0 \in 0 .. SuccessThreshold - 1 /\ 0 < FailureThreshold
    BY ThresholdAssumption
  <2>1. CASE b.state = "halfopen" /\ b.trips + 1 >= SuccessThreshold
    <3>1. AfterSuccess(b) = [b EXCEPT !.state = "closed", !.failures = 0, !.trips = 0]
      BY <2>1 DEF AfterSuccess
    <3>2. AfterSuccess(b) = [state |-> "closed", failures |-> 0, trips |-> 0, cooled |-> b.cooled]
      BY <3>1 DEF BreakerType
    <3>3. ~b.cooled  BY <2>1 DEF BreakerOK
    <3> QED  BY <2>0, <3>2, <3>3 DEF BreakerType, BreakerOK, States
  <2>2. CASE b.state = "halfopen" /\ ~(b.trips + 1 >= SuccessThreshold)
    <3>1. AfterSuccess(b) = [b EXCEPT !.failures = 0, !.trips = b.trips + 1]
      BY <2>2 DEF AfterSuccess
    <3>2. b.trips + 1 \in 0 .. SuccessThreshold - 1
      BY <2>2, ThresholdAssumption DEF BreakerType
    <3>3. AfterSuccess(b) = [state |-> "halfopen", failures |-> 0, trips |-> b.trips + 1, cooled |-> b.cooled]
      BY <2>2, <3>1 DEF BreakerType
    <3>4. ~b.cooled  BY <2>2 DEF BreakerOK
    <3> QED  BY <2>0, <3>2, <3>3, <3>4 DEF BreakerType, BreakerOK, States
  <2>3. CASE b.state # "halfopen"
    BY <2>3, ThresholdAssumption DEF BreakerType, BreakerOK, AfterSuccess, States
  <2> QED  BY <2>1, <2>2, <2>3
<1>3. AfterFailure(b) \in BreakerType /\ BreakerOK(AfterFailure(b))
  BY ThresholdAssumption DEF BreakerType, BreakerOK, AfterFailure, Capped, States
<1> QED  BY <1>1, <1>2, <1>3

ChannelType == [id : Channels, priority : Nat, disabled : BOOLEAN, promotion : BOOLEAN]

LEMMA ListType ==
    ASSUME NEW list \in ChannelLists
    PROVE  /\ Len(list) \in Nat /\ DOMAIN list = 1 .. Len(list)
           /\ \A k \in DOMAIN list : list[k].id \in Channels
<1>1. list \in Seq(ChannelType)
  BY ChannelAssumption DEF ChannelType
<1>2. Len(list) \in Nat /\ DOMAIN list = 1 .. Len(list)
  BY <1>1, LenProperties
<1>3. \A k \in 1 .. Len(list) : list[k] \in ChannelType
  BY <1>1, ElementOfSeq
<1> QED  BY <1>2, <1>3 DEF ChannelType

\* A function on 1 .. n is a sequence of length n.
LEMMA IsASeqFcn ==
    ASSUME NEW S, NEW n \in Nat, NEW f \in [1 .. n -> S]
    PROVE  f \in Seq(S) /\ Len(f) = n
  OBVIOUS

\* GetActiveChannels pairs indices of the list with the IDs found there.
LEMMA ActiveListsType ==
    ASSUME NEW list \in ChannelLists, NEW active \in ActiveLists(list)
    PROVE  /\ active \in Seq(CandidateType)
           /\ \A k \in 1 .. Len(active) :
                /\ active[k].index \in DOMAIN list
                /\ active[k].id = list[active[k].index].id
<1> DEFINE enabled == {k \in DOMAIN list : ~list[k].disabled}
           n       == Cardinality(enabled)
<1>1. IsFiniteSet(enabled) /\ n \in Nat
  <2>1. IsFiniteSet(1 .. Len(list))  BY ListType, FS_Interval
  <2>2. enabled \in SUBSET (1 .. Len(list))  BY ListType
  <2>3. IsFiniteSet(enabled)  BY <2>1, <2>2, FS_Subset
  <2> QED  BY <2>3, FS_CardinalityType
<1>2. PICK s \in [1 .. n -> enabled] :
         active = [j \in 1 .. n |-> [index |-> s[j], id |-> list[s[j]].id]]
  BY DEF ActiveLists
<1>3. \A j \in 1 .. n : s[j] \in enabled
  BY <1>2
<1> HIDE DEF n
<1>4. \A j \in 1 .. n : s[j] \in Nat /\ s[j] \in DOMAIN list /\ list[s[j]].id \in Channels
  BY <1>3, ListType
<1>5. active \in [1 .. n -> CandidateType]
  BY <1>2, <1>4 DEF CandidateType
<1>6. active \in Seq(CandidateType) /\ Len(active) = n
  BY <1>1, <1>5, IsASeqFcn
<1> QED  BY <1>2, <1>4, <1>6

-----------------------------------------------------------------------------
IInv == TypeOK /\ BreakerInv /\ ReqInv

LEMMA InitIInv == Init => IInv
  BY ThresholdAssumption, ChannelAssumption, FreeAssumption, EmptySeq
  DEF Init, IInv, TypeOK, BreakerInv, BreakerOK, BreakerType, ReqInv, ReqType,
      NewBreaker, NoSel, NoReq, States, Stages, Phases, CandidateType

\* What a request leaves when it is answered.
LEMMA DoneFacts == Done \in ReqType /\ Done.phase = "done"
<1>1. NoReq \in ReqType
  BY ThresholdAssumption DEF NoReq, ReqType, Phases, States
<1> QED  BY <1>1 DEF Done, ReqType, Phases

\* A request that considers a candidate: the candidate is one of the snapshot.
LEMMA CandidateFacts ==
    ASSUME IInv, NEW r \in Requests, NEW stage, Considering(r, stage)
    PROVE  /\ Candidate \in CandidateType
           /\ NextCandidate \in SelType
           /\ NextCandidate.active = sel.active /\ NextCandidate.moved = sel.moved
<1>1. sel \in SelType
  BY DEF IInv, TypeOK, SelType, CandidateType
<1>2. sel.i \in 1 .. Len(sel.active)
  BY <1>1, LenProperties DEF Considering, SelType
<1>3. Candidate \in CandidateType
  BY <1>1, <1>2, ElementOfSeq DEF Candidate, SelType
<1>4. sel.i + 1 \in Nat \ {0} /\ 1 \in Nat \ {0}
  BY <1>1 DEF SelType
<1>5. CASE sel.i < Len(sel.active) \/ sel.stage = "recovery"
  <2>1. NextCandidate = [sel EXCEPT !.i = sel.i + 1]
    BY <1>5 DEF NextCandidate
  <2> QED  BY <1>1, <1>3, <1>4, <2>1 DEF SelType
<1>6. CASE ~(sel.i < Len(sel.active) \/ sel.stage = "recovery")
  <2>1. PICK next \in Stages : NextCandidate = [sel EXCEPT !.i = 1, !.stage = next]
    BY <1>1, <1>6 DEF NextCandidate, Stages, SelType
  <2> QED  BY <1>1, <1>3, <1>4, <2>1 DEF SelType
<1> QED  BY <1>5, <1>6

\* Asking any channel keeps what is known of the breakers.
LEMMA AskKeeps ==
    ASSUME IInv, NEW c \in Channels, Ask(c)
    PROVE  breakers' \in [Channels -> BreakerType] /\ BreakerInv'
  BY BreakerSteps DEF IInv, TypeOK, BreakerInv, Ask

\* Passing a candidate over disturbs only the cursor.
LEMMA PassOverKeeps ==
    ASSUME IInv, NEW r \in Requests, NEW stage, Considering(r, stage), PassOver,
           breakers' \in [Channels -> BreakerType], BreakerInv'
    PROVE  IInv'
  BY CandidateFacts DEF IInv, TypeOK, ReqInv, PassOver, CandidateType, SelType

\* Returning a channel to the request that holds mu.
LEMMA ReturnKeeps ==
    ASSUME IInv, NEW r \in Requests, NEW stage, Considering(r, stage), Found,
           NEW setAffinity \in BOOLEAN, Return(r, setAffinity),
           breakers' \in [Channels -> BreakerType], BreakerInv'
    PROVE  IInv'
<1>1. Candidate \in CandidateType
  BY CandidateFacts
<1>2. channels[Candidate.index].id \in Channels
  BY ListType DEF IInv, TypeOK, Found
<1>3. breakers'[channels[Candidate.index].id].state \in States
  BY <1>2 DEF BreakerType
<1>4. /\ req' \in [Requests -> ReqType]
      /\ \A q \in Requests \ {r} : req'[q] = req[q]
      /\ req'[r] = [req[r] EXCEPT !.phase = "upstream",
                                  !.channel = channels[Candidate.index].id,
                                  !.at = breakers'[channels[Candidate.index].id].state,
                                  !.moved = sel.moved]
  <2> DEFINE R == [req[r] EXCEPT !.phase = "upstream",
                                 !.channel = channels[Candidate.index].id,
                                 !.at = breakers'[channels[Candidate.index].id].state,
                                 !.moved = sel.moved]
  <2>1. req \in [Requests -> ReqType] /\ req[r] \in ReqType
    BY DEF IInv, TypeOK
  <2>a. sel.moved \in BOOLEAN
    BY DEF IInv, TypeOK
  <2>2. R \in ReqType
    BY <1>2, <1>3, <2>1, <2>a DEF ReqType, Phases
  <2>3. req' = [req EXCEPT ![r] = R]
    BY DEF Return
  <2> QED  BY <2>1, <2>2, <2>3
<1>5. affinity' \in [Users -> Channels \cup {NoChannel}]
  BY <1>1 DEF Return, IInv, TypeOK, CandidateType, ReqType
<1>6. sel' = NoSel /\ mu' = Free /\ channels' = channels
  BY DEF Return
<1>7. TypeOK'
  BY <1>4, <1>5, <1>6, EmptySeq DEF IInv, TypeOK, NoSel, Stages
<1>8. ReqInv'
  <2>1. req[r].phase = "select"  BY DEF IInv, ReqInv, Considering
  <2>2. req'[r].phase = "upstream" /\ req'[r].channel \in Channels /\ req'[r].attempt = req[r].attempt
    BY <1>2, <1>4 DEF IInv, TypeOK, ReqType
  <2> QED  BY <2>1, <2>2, <1>4, <1>6, FreeAssumption DEF IInv, ReqInv
<1> QED  BY <1>7, <1>8 DEF IInv

-----------------------------------------------------------------------------
\* The steps of a selection.
LEMMA SelectionKeeps ==
    ASSUME IInv, NEW r \in Requests,
           TryAffinity(r) \/ TryPromotion(r) \/ TryPriority(r) \/ TryRecovery(r)
    PROVE  IInv'
<1>1. CASE TryAffinity(r)
  <2>1. Considering(r, "affinity")  BY <1>1 DEF TryAffinity
  <2>2. Candidate.id \in Channels  BY <2>1, CandidateFacts DEF CandidateType
  <2>3. CASE Ask(Candidate.id)
    <3>1. breakers' \in [Channels -> BreakerType] /\ BreakerInv'  BY <2>2, <2>3, AskKeeps
    <3>2. (Found /\ Return(r, FALSE)) \/ PassOver  BY <1>1 DEF TryAffinity
    <3> QED  BY <2>1, <3>1, <3>2, PassOverKeeps, ReturnKeeps
  <2>4. CASE PassOver /\ UNCHANGED breakers
    <3>1. breakers' \in [Channels -> BreakerType] /\ BreakerInv'
      BY <2>4 DEF IInv, TypeOK, BreakerInv
    <3> QED  BY <2>1, <2>4, <3>1, PassOverKeeps
  <2> QED  BY <1>1, <2>3, <2>4 DEF TryAffinity
<1>2. CASE TryPromotion(r)
  <2>1. Considering(r, "promotion")  BY <1>2 DEF TryPromotion
  <2>2. Candidate.id \in Channels  BY <2>1, CandidateFacts DEF CandidateType
  <2>3. CASE Ask(Candidate.id) /\ Found
    <3>1. breakers' \in [Channels -> BreakerType] /\ BreakerInv'  BY <2>2, <2>3, AskKeeps
    <3>2. Return(r, TRUE) \/ PassOver  BY <1>2 DEF TryPromotion
    <3> QED  BY <2>1, <2>3, <3>1, <3>2, PassOverKeeps, ReturnKeeps
  <2>4. CASE PassOver /\ UNCHANGED breakers
    <3>1. breakers' \in [Channels -> BreakerType] /\ BreakerInv'
      BY <2>4 DEF IInv, TypeOK, BreakerInv
    <3> QED  BY <2>1, <2>4, <3>1, PassOverKeeps
  <2> QED  BY <1>2, <2>3, <2>4 DEF TryPromotion
<1>3. CASE TryPriority(r)
  <2>1. Considering(r, "priority")  BY <1>3 DEF TryPriority
  <2>2. Candidate.id \in Channels  BY <2>1, CandidateFacts DEF CandidateType
  <2>3. CASE Ask(Candidate.id)
    <3>1. breakers' \in [Channels -> BreakerType] /\ BreakerInv'  BY <2>2, <2>3, AskKeeps
    <3>2. (Found /\ Return(r, TRUE)) \/ PassOver  BY <1>3 DEF TryPriority
    <3> QED  BY <2>1, <3>1, <3>2, PassOverKeeps, ReturnKeeps
  <2>4. CASE PassOver /\ UNCHANGED breakers
    <3>1. breakers' \in [Channels -> BreakerType] /\ BreakerInv'
      BY <2>4 DEF IInv, TypeOK, BreakerInv
    <3> QED  BY <2>1, <2>4, <3>1, PassOverKeeps
  <2> QED  BY <1>3, <2>3, <2>4 DEF TryPriority
<1>4. CASE TryRecovery(r)
  <2>1. Considering(r, "recovery")  BY <1>4 DEF TryRecovery
  <2>2. breakers' \in [Channels -> BreakerType] /\ BreakerInv'
    BY <1>4 DEF TryRecovery, IInv, TypeOK, BreakerInv
  <2>3. (Found /\ Return(r, FALSE)) \/ PassOver  BY <1>4 DEF TryRecovery
  <2> QED  BY <2>1, <2>2, <2>3, PassOverKeeps, ReturnKeeps
<1> QED  BY <1>1, <1>2, <1>3, <1>4

\* A step that replaces the record of request r by R and keeps mu.
LEMMA RequestKeeps ==
    ASSUME IInv, NEW r \in Requests, NEW R \in ReqType,
           req' = [req EXCEPT ![r] = R],
           mu = r => R.phase = "select",
           R.phase = "upstream" => R.channel \in Channels,
           R.phase \in {"select", "upstream"} => R.attempt < MaxRetries,
           UNCHANGED <<channels, affinity, mu, sel>>,
           breakers' \in [Channels -> BreakerType], BreakerInv'
    PROVE  IInv'
<1>1. req' \in [Requests -> ReqType] /\ req'[r] = R /\ \A q \in Requests \ {r} : req'[q] = req[q]
  BY DEF IInv, TypeOK
<1>2. TypeOK'
  BY <1>1 DEF IInv, TypeOK
<1>3. ReqInv'
  BY <1>1 DEF IInv, ReqInv
<1> QED  BY <1>2, <1>3 DEF IInv

LEMMA IInvStep == IInv /\ [Next]_vars => IInv'
<1> SUFFICES ASSUME IInv, [Next]_vars PROVE IInv'
  OBVIOUS
<1>0. req \in [Requests -> ReqType]  BY DEF IInv, TypeOK
<1>1. ASSUME NEW r \in Requests, SelectStart(r) PROVE IInv'
  <2>1. sel' \in SelType
    <3>1. PICK active \in ActiveLists(channels) : sel' = [NoSel EXCEPT !.active = active]
      BY <1>1 DEF SelectStart
    <3>2. active \in Seq(CandidateType)
      BY <3>1, ActiveListsType DEF IInv, TypeOK
    <3>3. sel' = [stage |-> "affinity", i |-> 1, active |-> active, moved |-> FALSE]
      BY <3>1 DEF NoSel
    <3> QED  BY <3>2, <3>3 DEF SelType, Stages
  <2> QED  BY <1>1, <2>1 DEF SelectStart, IInv, TypeOK, BreakerInv, ReqInv, SelType, CandidateType
<1>2. ASSUME NEW r \in Requests,
             TryAffinity(r) \/ TryPromotion(r) \/ TryPriority(r) \/ TryRecovery(r)
      PROVE  IInv'
  BY <1>2, SelectionKeeps
<1>3. ASSUME NEW r \in Requests, SelectFail(r) PROVE IInv'
  <2> DEFINE R == IF req[r].failed \/ req[r].attempt = MaxRetries - 1
                  THEN Done
                  ELSE [req[r] EXCEPT !.attempt = req[r].attempt + 1]
  <2>1. req[r] \in ReqType /\ req[r].phase = "select" /\ req[r].attempt < MaxRetries
    BY <1>0, <1>3 DEF SelectFail, IInv, ReqInv
  <2>2. R \in ReqType
    BY <2>1, DoneFacts, ThresholdAssumption DEF ReqType, Phases
  <2>3. R.phase # "upstream" /\ (R.phase = "select" => R.attempt < MaxRetries)
    BY <2>1, DoneFacts, ThresholdAssumption DEF ReqType
  <2>4. req' = [req EXCEPT ![r] = R] /\ mu' = Free /\ sel' = NoSel
        /\ UNCHANGED <<channels, breakers, affinity>>
    BY <1>3 DEF SelectFail
  <2> HIDE DEF R
  <2>5. TypeOK'
    BY <1>0, <2>2, <2>4, EmptySeq DEF IInv, TypeOK, NoSel, Stages
  <2>6. BreakerInv'
    BY <2>4 DEF IInv, BreakerInv
  <2>7. ReqInv'
    BY <1>0, <2>3, <2>4, FreeAssumption DEF IInv, ReqInv
  <2> QED  BY <2>5, <2>6, <2>7 DEF IInv
<1>4. ASSUME NEW r \in Requests, NEW user \in Carries[r], Arrive(r, user) PROVE IInv'
  <2> DEFINE R == [NoReq EXCEPT !.phase = "select", !.user = user]
  <2>1. R \in ReqType /\ R.phase = "select" /\ R.attempt < MaxRetries
    <3>1. NoReq \in ReqType
      BY ThresholdAssumption DEF NoReq, ReqType, Phases, States
    <3>a. user \in Users \cup {NoUser}
      BY CarriesAssumption
    <3>2. R \in ReqType
      BY <3>1, <3>a DEF ReqType, Phases
    <3>3. R.phase = "select" /\ R.attempt = 0
      BY DEF NoReq
    <3> QED  BY <3>2, <3>3, ThresholdAssumption
  <2>2. req' = [req EXCEPT ![r] = R] /\ UNCHANGED <<channels, breakers, affinity, mu, sel>>
    BY <1>4 DEF Arrive
  <2>3. breakers' \in [Channels -> BreakerType] /\ BreakerInv'
    BY <2>2 DEF IInv, TypeOK, BreakerInv
  <2> HIDE DEF R
  <2> QED  BY <2>1, <2>2, <2>3, RequestKeeps
<1>5. ASSUME NEW r \in Requests, RecordSuccess(r) PROVE IInv'
  <2>1. req[r].channel \in Channels /\ mu # r
    BY <1>5, FreeAssumption DEF RecordSuccess, IInv, ReqInv
  <2>3. req' = [req EXCEPT ![r] = Done] /\ UNCHANGED <<channels, affinity, mu, sel>>
    BY <1>5 DEF RecordSuccess
  <2>4. breakers' \in [Channels -> BreakerType] /\ BreakerInv'
    BY <1>5, <2>1, BreakerSteps DEF RecordSuccess, IInv, TypeOK, BreakerInv
  <2> QED  BY <2>1, <2>3, <2>4, DoneFacts, RequestKeeps
<1>6. ASSUME NEW r \in Requests, NEW retryable \in BOOLEAN, RecordFailure(r, retryable) PROVE IInv'
  <2> DEFINE c == req[r].channel
             n == req[r].attempt + 1
             R == IF n < MaxRetries
                  THEN [NoReq EXCEPT !.phase = "select", !.user = req[r].user, !.attempt = n,
                                     !.failed = TRUE, !.excluded = req[r].excluded \cup {c}]
                  ELSE Done
  <2>1. c \in Channels /\ mu # r /\ n \in 0 .. MaxRetries
    BY <1>0, <1>6, FreeAssumption, ThresholdAssumption DEF RecordFailure, IInv, ReqInv, ReqType
  <2>2. R \in ReqType /\ R.phase # "upstream" /\ (R.phase = "select" => R.attempt < MaxRetries)
    BY <1>0, <2>1, DoneFacts DEF NoReq, ReqType, Phases, States
  <2>3. req' = [req EXCEPT ![r] = R] /\ UNCHANGED <<channels, affinity, mu, sel>>
    BY <1>6 DEF RecordFailure
  <2>4. breakers' \in [Channels -> BreakerType] /\ BreakerInv'
    BY <1>6, <2>1, BreakerSteps DEF RecordFailure, IInv, TypeOK, BreakerInv
  <2> HIDE DEF R
  <2> QED  BY <2>1, <2>2, <2>3, <2>4, RequestKeeps
<1>7. ASSUME NEW r \in Requests, Leave(r) PROVE IInv'
  <2>1. NoReq \in ReqType /\ NoReq.phase = "idle" /\ mu # r
    BY <1>7, ThresholdAssumption DEF Leave, NoReq, ReqType, Phases, States, IInv, ReqInv
  <2>2. breakers' \in [Channels -> BreakerType] /\ BreakerInv'
    BY <1>7 DEF Leave, IInv, TypeOK, BreakerInv
  <2> QED  BY <1>7, <2>1, <2>2, RequestKeeps DEF Leave
<1>8. ASSUME NEW c \in Channels, ResetCircuit(c) \/ Cool(c) PROVE IInv'
  <2>1. breakers' \in [Channels -> BreakerType] /\ BreakerInv'
    <3> DEFINE b == breakers'[c]
    <3>1. breakers[c] \in BreakerType /\ BreakerOK(breakers[c])
      BY DEF IInv, TypeOK, BreakerInv
    <3>2. b \in BreakerType /\ BreakerOK(b) /\ breakers' = [breakers EXCEPT ![c] = b]
      <4>1. CASE ResetCircuit(c)
        <5>1. b = [state |-> "closed", failures |-> 0, trips |-> 0, cooled |-> FALSE]
          BY <3>1, <4>1 DEF ResetCircuit, IInv, TypeOK, BreakerType
        <5>2. breakers' = [breakers EXCEPT ![c] = b]
          BY <4>1 DEF ResetCircuit, IInv, TypeOK
        <5> HIDE DEF b
        <5> QED  BY <5>1, <5>2, ThresholdAssumption DEF BreakerType, BreakerOK, States
      <4>2. CASE Cool(c)
        <5>1. b = [breakers[c] EXCEPT !.cooled = TRUE] /\ breakers[c].state = "open"
          BY <4>2 DEF Cool, IInv, TypeOK
        <5>2. breakers' = [breakers EXCEPT ![c] = b]
          BY <4>2 DEF Cool, IInv, TypeOK
        <5> HIDE DEF b
        <5> QED  BY <3>1, <5>1, <5>2 DEF BreakerType, BreakerOK
      <4> QED  BY <1>8, <4>1, <4>2
    <3> HIDE DEF b
    <3> QED  BY <3>2 DEF IInv, TypeOK, BreakerInv
  <2> QED  BY <1>8, <2>1 DEF ResetCircuit, Cool, IInv, TypeOK, ReqInv
<1>9. ASSUME LoadChannels PROVE IInv'
  <2>1. sel' \in SelType
    BY <1>9 DEF LoadChannels, IInv, TypeOK, SelType, CandidateType, Shifts
  <2> QED  BY <1>9, <2>1 DEF LoadChannels, IInv, TypeOK, BreakerInv, ReqInv, SelType, CandidateType
<1>10. CASE UNCHANGED vars
  BY <1>10 DEF vars, IInv, TypeOK, BreakerInv, ReqInv
<1> QED
  BY <1>1, <1>2, <1>3, <1>4, <1>5, <1>6, <1>7, <1>8, <1>9, <1>10 DEF Next, Step

LEMMA InvariantHolds == Spec => []IInv
<1> QED  BY InitIInv, IInvStep, PTL DEF Spec

\* The scheduler's and the handlers' state keeps its type.
THEOREM TypeCorrect == Spec => []TypeOK
<1>1. IInv => TypeOK  BY DEF IInv
<1> QED  BY <1>1, InvariantHolds, PTL

\* A closed circuit is always below its failure threshold, trips are counted
\* in half-open only: for any number of channels and requests, any thresholds
\* and any edits of the configuration.
THEOREM BreakersConsistent == Spec => []BreakerInv
<1>1. IInv => BreakerInv  BY DEF IInv
<1> QED  BY <1>1, InvariantHolds, PTL

-----------------------------------------------------------------------------
(* Failover under edits of the configuration                               *)

\* Unless it was moved, the snapshot a selection works on agrees with the list
\* wherever the list still has an entry.
SnapshotInv ==
    ~sel.moved => \A k \in 1 .. Len(sel.active) :
        sel.active[k].index \in DOMAIN channels =>
            channels[sel.active[k].index].id = sel.active[k].id

InFlightInv ==
    \A r \in Requests :
        req[r].phase = "upstream" /\ ~req[r].moved =>
            req[r].channel \notin req[r].excluded /\ req[r].at # "open"

FInv == IInv /\ SnapshotInv /\ InFlightInv

\* A breaker that lets a request through is not open afterwards.
LEMMA AvailableNotOpen ==
    ASSUME NEW b \in BreakerType, Available(b)
    PROVE  Asked(b).state # "open"
  BY DEF Available, Asked, BreakerType

\* The candidate's entry in the list, while the list agrees with the snapshot.
LEMMA CandidateListed ==
    ASSUME IInv, SnapshotInv, NEW r \in Requests, NEW stage, Considering(r, stage)
    PROVE  /\ Found /\ ~sel.moved => channels[Candidate.index].id = Candidate.id
           /\ Candidate.id \in Channels
<1>1. sel.i \in 1 .. Len(sel.active)
  BY LenProperties DEF IInv, TypeOK, Considering
<1> QED  BY <1>1, CandidateFacts DEF SnapshotInv, Candidate, CandidateType, Found

LEMMA ReturnInFlight ==
    ASSUME IInv, SnapshotInv, InFlightInv,
           NEW r \in Requests, NEW stage, Considering(r, stage),
           NEW setAffinity \in BOOLEAN, Return(r, setAffinity), Found,
           Candidate.id \notin req[r].excluded, breakers'[Candidate.id].state # "open"
    PROVE  SnapshotInv' /\ InFlightInv'
<1>1. ~sel.moved => channels[Candidate.index].id = Candidate.id
  BY CandidateListed
<1>2. req \in [Requests -> ReqType]
  BY DEF IInv, TypeOK
<1>3. /\ req'[r].excluded = req[r].excluded /\ req'[r].moved = sel.moved
      /\ ~sel.moved => req'[r].channel = Candidate.id /\ req'[r].at # "open"
      /\ \A q \in Requests \ {r} : req'[q] = req[q]
  BY <1>1, <1>2 DEF Return, ReqType
<1>4. InFlightInv'
  BY <1>3 DEF InFlightInv
<1>5. sel'.active = <<>>
  BY DEF Return, NoSel
<1> QED  BY <1>4, <1>5, EmptySeq DEF SnapshotInv

LEMMA PassOverInFlight ==
    ASSUME IInv, SnapshotInv, InFlightInv,
           NEW r \in Requests, NEW stage, Considering(r, stage), PassOver
    PROVE  SnapshotInv' /\ InFlightInv'
<1>1. sel'.active = sel.active /\ sel'.moved = sel.moved
  BY CandidateFacts DEF PassOver
<1> QED  BY <1>1 DEF PassOver, SnapshotInv, InFlightInv

LEMMA SelectionInFlight ==
    ASSUME IInv, SnapshotInv, InFlightInv, NEW r \in Requests,
           TryAffinity(r) \/ TryPromotion(r) \/ TryPriority(r) \/ TryRecovery(r)
    PROVE  SnapshotInv' /\ InFlightInv'
<1> USE DEF TryAffinity, TryPromotion, TryPriority, TryRecovery
<1>1. PICK stage \in Stages : Considering(r, stage)
  BY DEF Stages
<1>2. CASE PassOver
  BY <1>1, <1>2, PassOverInFlight
<1>3. ASSUME NEW setAffinity \in BOOLEAN, Return(r, setAffinity), ~PassOver
      PROVE  SnapshotInv' /\ InFlightInv'
  <2>1. Candidate.id \in Channels /\ breakers[Candidate.id] \in BreakerType
    BY <1>1, CandidateListed DEF IInv, TypeOK
  <2>2. Candidate.id \notin req[r].excluded
    BY <1>3
  <2>3. \/ Ask(Candidate.id) /\ Available(breakers[Candidate.id])
        \/ breakers' = breakers /\ breakers[Candidate.id].state = "halfopen"
    BY <1>3
  <2>4. breakers'[Candidate.id].state # "open"
    BY <2>1, <2>3, AvailableNotOpen DEF Ask, IInv, TypeOK
  <2>5. Found
    BY <1>3
  <2> QED  BY <1>1, <1>3, <2>2, <2>4, <2>5, ReturnInFlight
<1>4. PassOver \/ Return(r, TRUE) \/ Return(r, FALSE)
  OBVIOUS
<1> QED  BY <1>2, <1>3, <1>4

LEMMA FInvInit == Init => FInv
<1> SUFFICES ASSUME Init PROVE FInv
  OBVIOUS
<1>1. sel.active = <<>> /\ \A r \in Requests : req[r].phase = "idle"
  BY DEF Init, NoSel, NoReq
<1> QED  BY <1>1, InitIInv, EmptySeq DEF FInv, SnapshotInv, InFlightInv

LEMMA FInvStep == FInv /\ [Next]_vars => FInv'
<1> SUFFICES ASSUME FInv, [Next]_vars PROVE FInv'
  OBVIOUS
<1>0. IInv /\ SnapshotInv /\ InFlightInv /\ IInv'
  BY IInvStep DEF FInv
<1>a. req \in [Requests -> ReqType]
  BY <1>0 DEF IInv, TypeOK
<1> SUFFICES SnapshotInv' /\ InFlightInv'
  BY <1>0 DEF FInv
<1>1. ASSUME NEW r \in Requests, SelectStart(r) PROVE SnapshotInv' /\ InFlightInv'
  <2>1. PICK active \in ActiveLists(channels) : sel'.active = active
    BY <1>1 DEF SelectStart, NoSel
  <2>2. channels' = channels
    BY <1>1 DEF SelectStart
  <2>3. SnapshotInv'
    BY <1>0, <2>1, <2>2, ActiveListsType DEF IInv, TypeOK, SnapshotInv
  <2> QED  BY <1>0, <1>1, <2>3 DEF SelectStart, InFlightInv
<1>2. ASSUME NEW r \in Requests,
             TryAffinity(r) \/ TryPromotion(r) \/ TryPriority(r) \/ TryRecovery(r)
      PROVE  SnapshotInv' /\ InFlightInv'
  BY <1>0, <1>2, SelectionInFlight
<1>3. ASSUME NEW r \in Requests, SelectFail(r) PROVE SnapshotInv' /\ InFlightInv'
  <2>1. sel'.active = <<>>
    BY <1>3 DEF SelectFail, NoSel
  <2>2. SnapshotInv'
    BY <2>1, EmptySeq DEF SnapshotInv
  <2>3. req'[r].phase # "upstream" /\ \A q \in Requests \ {r} : req'[q] = req[q]
    BY <1>0, <1>a, <1>3, DoneFacts DEF SelectFail, IInv, ReqInv, ReqType
  <2> QED  BY <1>0, <2>2, <2>3 DEF InFlightInv
<1>4. ASSUME NEW r \in Requests,
             \/ \E user \in Carries[r] : Arrive(r, user)
             \/ RecordSuccess(r) \/ Leave(r)
             \/ \E retryable \in BOOLEAN : RecordFailure(r, retryable)
      PROVE  SnapshotInv' /\ InFlightInv'
  <2>1. UNCHANGED <<sel, channels>>
    BY <1>4 DEF Arrive, RecordSuccess, RecordFailure, Leave
  <2>2. req'[r].phase # "upstream" /\ \A q \in Requests \ {r} : req'[q] = req[q]
    <3>1. ASSUME NEW user, Arrive(r, user)
          PROVE  req'[r].phase # "upstream" /\ \A q \in Requests \ {r} : req'[q] = req[q]
      BY <1>a, <3>1 DEF Arrive, NoReq
    <3>2. ASSUME RecordSuccess(r) \/ Leave(r)
          PROVE  req'[r].phase # "upstream" /\ \A q \in Requests \ {r} : req'[q] = req[q]
      BY <1>a, <3>2, DoneFacts DEF RecordSuccess, Leave, NoReq, ReqType
    <3>3. ASSUME NEW retryable, RecordFailure(r, retryable)
          PROVE  req'[r].phase # "upstream" /\ \A q \in Requests \ {r} : req'[q] = req[q]
      BY <1>a, <3>3, DoneFacts DEF RecordFailure, ReqType, NoReq
    <3> QED  BY <1>4, <3>1, <3>2, <3>3
  <2> QED  BY <1>0, <2>1, <2>2 DEF SnapshotInv, InFlightInv
<1>5. ASSUME UNCHANGED <<sel, req, channels>> PROVE SnapshotInv' /\ InFlightInv'
  BY <1>0, <1>5 DEF SnapshotInv, InFlightInv
<1>6. ASSUME NEW c \in Channels, ResetCircuit(c) \/ Cool(c) PROVE UNCHANGED <<sel, req, channels>>
  BY <1>6 DEF ResetCircuit, Cool
<1>7. ASSUME LoadChannels PROVE SnapshotInv' /\ InFlightInv'
  <2>1. sel \in SelType
    BY <1>0 DEF IInv, TypeOK, SelType, CandidateType
  <2>2. /\ sel'.active = sel.active
        /\ sel'.moved = (sel.moved \/ Shifts(channels', sel))
    BY <1>7, <2>1 DEF LoadChannels, SelType
  <2>3. DOMAIN sel.active = 1 .. Len(sel.active)
    BY <2>1, LenProperties DEF SelType
  <2>4. SnapshotInv'
    BY <2>2, <2>3 DEF SnapshotInv, Shifts
  <2> QED  BY <1>0, <1>7, <2>4 DEF LoadChannels, InFlightInv
<1>8. UNCHANGED vars => UNCHANGED <<sel, req, channels>>
  BY DEF vars
<1> QED
  BY <1>1, <1>2, <1>3, <1>4, <1>5, <1>6, <1>7, <1>8 DEF Next, Step

\* Failover never returns to a channel that failed the request, and no
\* request passes an open circuit, whatever the other requests do to the
\* breakers and whatever lists the configuration is given meanwhile: only a
\* selection during which an edit put another channel at an index it had read
\* may go wrong.
THEOREM FailoverMovesOn ==
    Spec => [](NeverSameChannelTwice /\ NeverThroughOpenCircuit)
<1>1. FInv => NeverSameChannelTwice /\ NeverThroughOpenCircuit
  BY DEF FInv, InFlightInv, NeverSameChannelTwice, NeverThroughOpenCircuit
<1> QED  BY <1>1, FInvInit, FInvStep, PTL DEF Spec

-----------------------------------------------------------------------------
(* Builder                                                                 *)

-----------------------------------------------------------------------------
(* The invariant: what always holds ...                                    *)

ControllerType ==
    [app : App \cup {None}, process : Proc \cup {None}, buffer : Call \cup {None},
     status : Statuses, port : Proc \cup {None}]

\* A call, and a build, know more the further they are.
CallType ==
    [at : {"none", "result", "end"}] \cup [at : {"poll", "enter"}, app : {None}]
        \cup [at : {"poll", "enter"}, app : App, wait : BOOLEAN]
BuildType ==
    [at : {"none", "watch", "end", "error", "panic"}] \cup [at : {"build", "run", "exec", "error"}, app : App]
        \cup [at : {"port", "publish", "error"}, app : App, proc : Proc, port : Proc \cup {None}]

Waits(b) == build[b].at \in {"port", "publish"}

TypeInv ==
    /\ bc \in ControllerType
    /\ callback \in [Call -> Call \cup {None}]
    /\ proc \in [Proc -> Process \cup {None}]
    /\ call \in [Call -> CallType]
    /\ build \in [Call -> BuildType]
    /\ overlap \in BOOLEAN

\* The controller and the builds name processes that were started, a call
\* begins one build, and a status without a process has none.
NamesInv ==
    /\ bc.process # None => bc.process \in Started
    /\ \A b \in Call : Waits(b) => build[b].proc \in Started
    /\ \A c \in Call : call[c].at \in {"none", "poll", "enter"} => build[c].at = "none"
    /\ \A b \in Call : build[b].at # "none" => bc.buffer # None
    /\ bc.status \in {"init", "stopped"} => bc.process = None

\* A status of running has a process, which is watched, and one of building
\* has a build that is under way or that panicked.
StatusInv ==
    /\ bc.status = "running" => bc.process # None /\ proc[bc.process].watched
    /\ bc.status = "building" => \E b \in Call : Underway(b) \/ build[b].at = "panic"

(* ... and what holds until two builds run at once.                        *)

\* The one build under way has the controller's buffer and app; the process
\* of the build before it may end meanwhile.
OneBuild ==
    /\ \A b, d \in Call : Underway(b) /\ Underway(d) => b = d
    /\ \A b \in Call : Underway(b) => bc.buffer = b /\ bc.status \in {"building", "stopped"}
    /\ \A b \in Call : Underway(b) /\ build[b].at # "error" => bc.app = build[b].app

\* The process of a build writes to the build's buffer, and no other does; its
\* lines go to that build.
OwnBuffer ==
    /\ \A x \in Call : callback[x] \in {None, x}
    /\ \A b \in Call : Waits(b) => /\ proc[build[b].proc].app = build[b].app
                                   /\ build[b].port \in {None, build[b].proc}
    /\ \A b \in Call : build[b].at = "publish" => build[b].port # None
    /\ \A p \in Started : build[proc[p].buffer].at \notin {"none", "build", "run", "exec"}
    /\ \A p \in Started : Waits(proc[p].buffer) => build[proc[p].buffer].proc = p

\* A process is the controller's, or the one a build waits for, or it was
\* replaced by a build of its own app.
NoneLost ==
    /\ bc.status = "running" => bc.port = bc.process
    /\ bc.process # None => proc[bc.process].app = bc.app
    /\ \A p \in Started : proc[p].alive =>
          \/ p = bc.process
          \/ proc[p].replacedBy = proc[p].app
          \/ \E b \in Call : Waits(b) /\ build[b].proc = p

BuilderInv == TypeInv /\ NamesInv /\ StatusInv /\ (~overlap => OneBuild /\ OwnBuffer /\ NoneLost)

-----------------------------------------------------------------------------
(* Types                                                                   *)

LEMMA CallFields ==
    ASSUME TypeInv, NEW c \in Call
    PROVE  /\ call[c].at \in {"none", "result", "end", "poll", "enter"}
           /\ call[c].at \in {"poll", "enter"} =>
                 /\ call[c].app \in App \cup {None}
                 /\ call[c].app # None => call[c].wait \in BOOLEAN
           /\ call[c].at = "poll" => [call[c] EXCEPT !.at = "enter"] \in CallType
<1>1. call[c] \in CallType
  BY DEF TypeInv
<1>2. CASE call[c] \in [at : {"none", "result", "end"}]
  BY <1>2
<1>3. CASE call[c] \in [at : {"poll", "enter"}, app : {None}]
  BY <1>3 DEF CallType
<1>4. CASE call[c] \in [at : {"poll", "enter"}, app : App, wait : BOOLEAN]
  BY <1>4 DEF CallType
<1> QED  BY <1>1, <1>2, <1>3, <1>4 DEF CallType

LEMMA BuildFields ==
    ASSUME TypeInv, NEW b \in Call
    PROVE  /\ build[b].at \in {"none", "watch", "end", "error", "panic", "build", "run", "exec", "port", "publish"}
           /\ build[b].at \in {"build", "run", "exec"} => build[b].app \in App
           /\ Waits(b) => build[b].app \in App /\ build[b].proc \in Proc /\ build[b].port \in Proc \cup {None}
<1>1. build[b] \in BuildType
  BY DEF TypeInv
<1>2. CASE build[b] \in [at : {"none", "watch", "end", "error", "panic"}]
  BY <1>2 DEF Waits
<1>3. CASE build[b] \in [at : {"build", "run", "exec", "error"}, app : App]
  BY <1>3 DEF Waits
<1>4. CASE build[b] \in [at : {"port", "publish", "error"}, app : App, proc : Proc, port : Proc \cup {None}]
  BY <1>4 DEF Waits
<1> QED  BY <1>1, <1>2, <1>3, <1>4 DEF BuildType

\* A build goes on with what it knows.
LEMMA BuildGoesOn ==
    ASSUME TypeInv, NEW b \in Call, NEW at,
           \/ build[b].at \in {"build", "run", "exec"} /\ at \in {"run", "exec", "error"}
           \/ Waits(b) /\ at \in {"publish", "error"}
    PROVE  [build[b] EXCEPT !.at = at] \in BuildType
<1>1. build[b] \in BuildType
  BY DEF TypeInv
<1>2. CASE build[b] \in [at : {"none", "watch", "end", "error", "panic"}]
  BY <1>2 DEF Waits
<1>3. CASE build[b] \in [at : {"build", "run", "exec", "error"}, app : App]
  BY <1>3 DEF Waits, BuildType
<1>4. CASE build[b] \in [at : {"port", "publish", "error"}, app : App, proc : Proc, port : Proc \cup {None}]
  BY <1>4 DEF Waits, BuildType
<1> QED  BY <1>1, <1>2, <1>3, <1>4 DEF BuildType

LEMMA BuildIsTold ==
    ASSUME TypeInv, NEW b \in Call, build[b].at = "port", NEW p \in Proc
    PROVE  [build[b] EXCEPT !.port = p] \in BuildType
<1>1. build[b] \in BuildType
  BY DEF TypeInv
<1>2. CASE build[b] \in [at : {"none", "watch", "end", "error", "panic"}]
  BY <1>2
<1>3. CASE build[b] \in [at : {"build", "run", "exec", "error"}, app : App]
  BY <1>3
<1>4. CASE build[b] \in [at : {"port", "publish", "error"}, app : App, proc : Proc, port : Proc \cup {None}]
  BY <1>4 DEF BuildType
<1> QED  BY <1>1, <1>2, <1>3, <1>4 DEF BuildType

LEMMA StartedFields ==
    ASSUME TypeInv, NEW p
    PROVE  /\ p \in Started <=> p \in Proc /\ proc[p] # None
           /\ p \in Started => proc[p] \in Process
BY DEF TypeInv, Started

LEMMA BufferOf ==
    ASSUME TypeInv, NEW p \in Started
    PROVE  proc[p].buffer \in Call
BY StartedFields DEF Process

\* A killed process stays what it was, but for its life.
LEMMA KillIs ==
    ASSUME TypeInv, NEW p, p = None \/ p \in Started, NEW killed, killed = Kill(p)
    PROVE  /\ killed \in [Proc -> Process \cup {None}]
           /\ \A q \in Proc : /\ killed[q] # None <=> proc[q] # None
                              /\ q # p => killed[q] = proc[q]
           /\ p # None => /\ ~killed[p].alive
                          /\ killed[p].app = proc[p].app /\ killed[p].buffer = proc[p].buffer
                          /\ killed[p].watched = proc[p].watched /\ killed[p].replacedBy = proc[p].replacedBy
<1>1. CASE p = None
  <2>1. killed = proc
    BY <1>1 DEF Kill
  <2>2. \A q \in Proc : q # p => killed[q] = proc[q]
    BY <2>1
  <2> QED  BY <1>1, <2>1, <2>2 DEF TypeInv
<1>2. CASE p # None
  <2>1. p \in Proc /\ proc[p] \in Process /\ proc[p] # None
    BY <1>2, StartedFields
  <2>2. PICK r : r = [proc[p] EXCEPT !.alive = FALSE]
    OBVIOUS
  <2>3. /\ r \in Process /\ ~r.alive /\ r.app = proc[p].app /\ r.buffer = proc[p].buffer
        /\ r.watched = proc[p].watched /\ r.replacedBy = proc[p].replacedBy
    BY <2>1, <2>2 DEF Process
  <2>4. r # None
    BY <2>3, BuilderAssumption
  <2>5. killed = [proc EXCEPT ![p] = r]
    BY <1>2, <2>2 DEF Kill
  <2>6. killed \in [Proc -> Process \cup {None}] /\ killed[p] = r /\ \A q \in Proc : q # p => killed[q] = proc[q]
    BY <2>1, <2>3, <2>5 DEF TypeInv
  <2> QED  BY <2>1, <2>3, <2>4, <2>6
<1> QED  BY <1>1, <1>2

-----------------------------------------------------------------------------
(* Steps                                                                   *)

Base  == TypeInv /\ NamesInv
Alone == OneBuild /\ OwnBuffer /\ NoneLost

\* A step that lets the status be, or sets one that needs nothing.
LEMMA StatusKeeps ==
    ASSUME NamesInv, StatusInv,
           bc'.status = "running" =>
              /\ bc.status = "running" /\ bc'.process = bc.process
              /\ bc.process \in Started => proc'[bc.process].watched = proc[bc.process].watched,
           bc'.status = "building" =>
              /\ bc.status = "building"
              /\ \A d \in Call : Underway(d) \/ build[d].at = "panic"
                                  => Underway(d)' \/ build'[d].at = "panic"
    PROVE  StatusInv'
BY DEF NamesInv, StatusInv

\* The caller "c" goes to "f", and nothing else happens.
OnlyCall(c, f) == Goto(c, f) /\ UNCHANGED <<bc, callback, proc, build, overlap>>

LEMMA OnlyCallInv ==
    ASSUME BuilderInv, NEW c \in Call, NEW f \in CallType, OnlyCall(c, f),
           f.at \in {"none", "poll", "enter"} => build[c].at = "none"
    PROVE  BuilderInv'
<1>1. call' = [call EXCEPT ![c] = f] /\ call \in [Call -> CallType]
  BY DEF OnlyCall, Goto, BuilderInv, TypeInv
<1>2. call' \in [Call -> CallType] /\ call'[c] = f /\ \A d \in Call : d # c => call'[d] = call[d]
  BY <1>1
<1>3. bc' = bc /\ callback' = callback /\ proc' = proc /\ build' = build /\ overlap' = overlap
  BY DEF OnlyCall
<1>4. \A d \in Call : call'[d].at \in {"none", "poll", "enter"} => build[d].at = "none"
  BY <1>2 DEF BuilderInv, NamesInv
<1>5. TypeInv'
  BY <1>2, <1>3 DEF BuilderInv, TypeInv
<1>6. NamesInv'
  BY <1>3, <1>4 DEF BuilderInv, NamesInv, Started, Waits
<1>7. Alone => Alone'
  <2>1. OneBuild => OneBuild'
    BY <1>3 DEF OneBuild, Underway
  <2>2. OwnBuffer => OwnBuffer'
    BY <1>3 DEF OwnBuffer, Started, Waits
  <2>3. NoneLost => NoneLost'
    BY <1>3 DEF NoneLost, Started, Waits
  <2> QED  BY <2>1, <2>2, <2>3 DEF Alone
<1>8. StatusInv'
  BY <1>3, StatusKeeps DEF BuilderInv, Underway
<1> QED  BY <1>3, <1>5, <1>6, <1>7, <1>8, Zenon DEF BuilderInv, Alone

LEMMA BeginStartInv ==
    ASSUME BuilderInv, NEW c \in Call, BeginStart(c)
    PROVE  BuilderInv'
<1>1. PICK a, wait, f : /\ a \in App /\ wait \in BOOLEAN
                       /\ f = [at |-> "poll", app |-> a, wait |-> wait] /\ OnlyCall(c, f)
  BY Zenon DEF BeginStart, OnlyCall
<1>2. f \in CallType
  BY <1>1 DEF CallType
<1>3. build[c].at = "none"
  BY DEF BeginStart, BuilderInv, NamesInv
<1> QED  BY <1>1, <1>2, <1>3, OnlyCallInv

LEMMA BeginStopInv ==
    ASSUME BuilderInv, NEW c \in Call, BeginStop(c)
    PROVE  BuilderInv'
<1>1. PICK f : f = [at |-> "poll", app |-> None] /\ OnlyCall(c, f)
  BY Zenon DEF BeginStop, OnlyCall
<1>2. f \in CallType
  BY <1>1 DEF CallType
<1>3. build[c].at = "none"
  BY DEF BeginStop, BuilderInv, NamesInv
<1> QED  BY <1>1, <1>2, <1>3, OnlyCallInv

LEMMA PollInv ==
    ASSUME BuilderInv, NEW c \in Call, Poll(c)
    PROVE  BuilderInv'
<1>1. call[c].at = "poll" /\ build[c].at = "none" /\ TypeInv
  BY DEF Poll, BuilderInv, NamesInv
<1>2. PICK f, g : f = [call[c] EXCEPT !.at = "enter"] /\ g = [at |-> "end"]
  OBVIOUS
<1>3. f \in CallType
  BY <1>1, <1>2, CallFields
<1>4. g \in CallType /\ g.at = "end"
  BY <1>2 DEF CallType
<1>5. OnlyCall(c, f) \/ OnlyCall(c, g)
  BY <1>2, Zenon DEF Poll, OnlyCall
<1> QED  BY <1>1, <1>3, <1>4, <1>5, OnlyCallInv

LEMMA ResultInv ==
    ASSUME BuilderInv, NEW c \in Call, Result(c)
    PROVE  BuilderInv'
<1>1. PICK f : f = [at |-> "end"] /\ OnlyCall(c, f)
  BY Zenon DEF Result, OnlyCall
<1>2. f \in CallType /\ f.at = "end"
  BY <1>1 DEF CallType
<1> QED  BY <1>1, <1>2, OnlyCallInv


\* What a build's step says of the other builds.
LEMMA BuildGotoIs ==
    ASSUME TypeInv, NEW b \in Call, NEW f \in BuildType, BuildGoto(b, f)
    PROVE  build' \in [Call -> BuildType] /\ build'[b] = f /\ \A d \in Call : d # b => build'[d] = build[d]
BY DEF BuildGoto, TypeInv

LEMMA CompileInv ==
    ASSUME BuilderInv, NEW b \in Call, Compile(b)
    PROVE  BuilderInv'
<1>1. TypeInv /\ NamesInv /\ build[b].at = "build"
  BY DEF BuilderInv, Compile
<1>2. PICK next, f : /\ next \in {"run", "error", "panic"} /\ BuildGoto(b, f)
                     /\ \/ next # "panic" /\ f = [build[b] EXCEPT !.at = next]
                        \/ next = "panic" /\ f = [at |-> "panic"]
  <2>1. ASSUME NEW next \in {"run", "error"}, BuildGoto(b, [build[b] EXCEPT !.at = next])
        PROVE  next # "panic"
    BY <2>1
  <2> QED  BY <2>1, Zenon DEF Compile
<1>3. f \in BuildType
  <2>1. CASE next = "panic"
    BY <1>2, <2>1 DEF BuildType
  <2>2. CASE next # "panic"
    BY <1>1, <1>2, <2>2, BuildGoesOn
  <2> QED  BY <2>1, <2>2
<1>4. f.at = next /\ (next # "panic" => f.app = build[b].app)
  <2>1. build[b] \in BuildType
    BY <1>1 DEF TypeInv
  <2> QED  BY <1>1, <1>2, <2>1 DEF BuildType
<1>5. bc' = bc /\ callback' = callback /\ proc' = proc /\ call' = call /\ overlap' = overlap
  BY DEF Compile
<1>6. build' \in [Call -> BuildType] /\ build'[b] = f /\ \A d \in Call : d # b => build'[d] = build[d]
  BY <1>1, <1>2, <1>3, BuildGotoIs
<1>7. TypeInv'
  BY <1>1, <1>5, <1>6 DEF TypeInv
<1>8. NamesInv'
  BY <1>1, <1>2, <1>4, <1>5, <1>6 DEF NamesInv, Started, Waits
<1>9. OneBuild => OneBuild'
  BY <1>1, <1>2, <1>4, <1>5, <1>6 DEF OneBuild, Underway
<1>10. OwnBuffer => OwnBuffer'
  BY ZenonT(60), <1>1, <1>2, <1>4, <1>5, <1>6, BufferOf DEF OwnBuffer, Started, Waits
<1>11. NoneLost => NoneLost'
  BY <1>1, <1>2, <1>4, <1>5, <1>6 DEF NoneLost, Started, Waits
<1>12. StatusInv'
  BY <1>1, <1>2, <1>4, <1>5, <1>6, StatusKeeps DEF BuilderInv, Underway
<1> QED  BY <1>5, <1>7, <1>8, <1>9, <1>10, <1>11, <1>12 DEF BuilderInv

LEMMA SetLineCallbackInv ==
    ASSUME BuilderInv, NEW b \in Call, SetLineCallback(b)
    PROVE  BuilderInv'
<1>1. TypeInv /\ NamesInv /\ build[b].at = "run"
  BY DEF BuilderInv, SetLineCallback
<1>2. PICK f : f = [build[b] EXCEPT !.at = "exec"] /\ BuildGoto(b, f)
  BY Zenon DEF SetLineCallback
<1>3. f \in BuildType
  BY <1>1, <1>2, BuildGoesOn
<1>4. f.at = "exec" /\ f.app = build[b].app
  <2>1. build[b] \in BuildType
    BY <1>1 DEF TypeInv
  <2> QED  BY <1>1, <1>2, <2>1 DEF BuildType
<1>5. bc' = bc /\ proc' = proc /\ call' = call /\ overlap' = overlap
  BY DEF SetLineCallback
<1>6. build' \in [Call -> BuildType] /\ build'[b] = f /\ \A d \in Call : d # b => build'[d] = build[d]
  BY <1>1, <1>2, <1>3, BuildGotoIs
<1>7. /\ callback' \in [Call -> Call \cup {None}]
      /\ \A x \in Call : callback'[x] = IF x = bc.buffer THEN b ELSE callback[x]
  BY <1>1 DEF SetLineCallback, TypeInv
<1>8. TypeInv'
  BY <1>1, <1>5, <1>6, <1>7 DEF TypeInv
<1>9. NamesInv'
  BY <1>1, <1>4, <1>5, <1>6 DEF NamesInv, Started, Waits
<1>10. OneBuild => OneBuild'
  BY <1>1, <1>4, <1>5, <1>6 DEF OneBuild, Underway
<1>11. OneBuild /\ OwnBuffer => OwnBuffer'
  <2>1. OneBuild => bc.buffer = b
    BY <1>1 DEF OneBuild, Underway
  <2> QED  BY <1>1, <1>4, <1>5, <1>6, <1>7, <2>1, BufferOf DEF OwnBuffer, Started, Waits
<1>12. NoneLost => NoneLost'
  BY <1>1, <1>4, <1>5, <1>6 DEF NoneLost, Started, Waits
<1>13. StatusInv'
  BY <1>1, <1>4, <1>5, <1>6, StatusKeeps DEF BuilderInv, Underway
<1> QED  BY <1>5, <1>8, <1>9, <1>10, <1>11, <1>12, <1>13 DEF BuilderInv

LEMMA HandleBuildErrorInv ==
    ASSUME BuilderInv, NEW b \in Call, HandleBuildError(b)
    PROVE  BuilderInv'
<1>1. TypeInv /\ NamesInv /\ build[b].at = "error"
  BY DEF BuilderInv, HandleBuildError
<1>2. PICK f : f = [at |-> "end"] /\ BuildGoto(b, f)
  BY Zenon DEF HandleBuildError
<1>3. f \in BuildType /\ f.at = "end"
  BY <1>2 DEF BuildType
<1>4. callback' = callback /\ proc' = proc /\ call' = call /\ overlap' = overlap
  BY DEF HandleBuildError
<1>5. build' \in [Call -> BuildType] /\ build'[b] = f /\ \A d \in Call : d # b => build'[d] = build[d]
  BY <1>1, <1>2, <1>3, BuildGotoIs
<1>6. /\ bc'.app = bc.app /\ bc'.process = bc.process /\ bc'.buffer = bc.buffer
      /\ bc'.status = "error" /\ bc'.port = None
      /\ bc' \in ControllerType
  BY <1>1 DEF HandleBuildError, Status, TypeInv, Statuses, ControllerType
<1>7. TypeInv'
  BY <1>1, <1>4, <1>5, <1>6 DEF TypeInv
<1>8. NamesInv'
  BY <1>1, <1>3, <1>4, <1>5, <1>6 DEF NamesInv, Started, Waits
<1>9. OneBuild => OneBuild'
  BY <1>1, <1>3, <1>4, <1>5, <1>6 DEF OneBuild, Underway
<1>10. OwnBuffer => OwnBuffer'
  BY <1>1, <1>3, <1>4, <1>5, BufferOf DEF OwnBuffer, Started, Waits
<1>11. NoneLost => NoneLost'
  BY <1>1, <1>3, <1>4, <1>5, <1>6 DEF NoneLost, Started, Waits
<1>12. StatusInv'
  BY <1>1, <1>6, StatusKeeps DEF BuilderInv, Underway
<1> QED  BY <1>4, <1>7, <1>8, <1>9, <1>10, <1>11, <1>12 DEF BuilderInv

\* The start of the process "p" that the build "b" waits for.
LEMMA ExecIs ==
    ASSUME TypeInv, NamesInv, NEW b \in Call, Exec(b)
    PROVE  \/ /\ \E f : f = [build[b] EXCEPT !.at = "error"] /\ BuildGoto(b, f)
              /\ proc' = proc
           \/ \E p \in Proc, r \in Process : \E f :
                /\ proc[p] = None /\ proc' = [proc EXCEPT ![p] = r] /\ BuildGoto(b, f)
                /\ f = [at |-> "port", app |-> build[b].app, proc |-> p, port |-> None]
                /\ r.app = build[b].app /\ r.buffer = bc.buffer /\ r.replacedBy = None
<1>1. CASE BuildGoto(b, [build[b] EXCEPT !.at = "error"]) /\ UNCHANGED proc
  BY <1>1
<1>2. CASE ~(BuildGoto(b, [build[b] EXCEPT !.at = "error"]) /\ UNCHANGED proc)
  <2>1. Started # Proc
    BY <1>2 DEF Exec
  <2>2. \E q \in Proc : proc[q] = None
    BY <2>1 DEF Started
  <2>3. PICK p : p = CHOOSE q \in Proc : proc[q] = None
    OBVIOUS
  <2>4. p \in Proc /\ proc[p] = None
    BY <2>2, <2>3, Zenon
  <2>5. PICK r : r = [app |-> build[b].app, alive |-> TRUE, buffer |-> bc.buffer, told |-> FALSE,
                      watched |-> FALSE, replacedBy |-> None]
    OBVIOUS
  <2>6. proc' = [proc EXCEPT ![p] = r]
        /\ BuildGoto(b, [at |-> "port", app |-> build[b].app, proc |-> p, port |-> None])
    BY <1>2, <2>3, <2>5, Zenon DEF Exec
  <2>7. build[b].app \in App /\ bc.buffer \in Call
    BY BuildFields DEF Exec, TypeInv, NamesInv, ControllerType
  <2>8. r \in Process /\ r.app = build[b].app /\ r.buffer = bc.buffer /\ r.replacedBy = None
    BY <2>5, <2>7 DEF Process
  <2> QED  BY <2>4, <2>6, <2>8
<1> QED  BY <1>1, <1>2

LEMMA ExecInv ==
    ASSUME BuilderInv, NEW b \in Call, Exec(b)
    PROVE  BuilderInv'
<1>1. TypeInv /\ NamesInv /\ build[b].at = "exec"
  BY DEF BuilderInv, Exec
<1>2. bc' = bc /\ callback' = callback /\ call' = call /\ overlap' = overlap
  BY DEF Exec
<1>3. ASSUME NEW f, f = [build[b] EXCEPT !.at = "error"], BuildGoto(b, f), proc' = proc
      PROVE  BuilderInv'
  <2>1. f \in BuildType
    BY <1>1, <1>3, BuildGoesOn
  <2>2. f.at = "error"
    <3>1. build[b] \in BuildType
      BY <1>1 DEF TypeInv
    <3> QED  BY <1>1, <1>3, <3>1 DEF BuildType
  <2>3. build' \in [Call -> BuildType] /\ build'[b] = f /\ \A d \in Call : d # b => build'[d] = build[d]
    BY <1>1, <1>3, <2>1, BuildGotoIs
  <2>4. TypeInv'
    BY <1>1, <1>2, <1>3, <2>3 DEF TypeInv
  <2>5. NamesInv'
    BY <1>1, <1>2, <1>3, <2>2, <2>3 DEF NamesInv, Started, Waits
  <2>6. OneBuild => OneBuild'
    BY <1>1, <1>2, <2>2, <2>3 DEF OneBuild, Underway
  <2>7. OwnBuffer => OwnBuffer'
    BY ZenonT(60), <1>1, <1>2, <1>3, <2>2, <2>3, BufferOf DEF OwnBuffer, Started, Waits
  <2>8. NoneLost => NoneLost'
    BY <1>1, <1>2, <1>3, <2>2, <2>3 DEF NoneLost, Started, Waits
  <2>9. StatusInv'
    BY <1>1, <1>2, <1>3, <2>2, <2>3, StatusKeeps DEF BuilderInv, Underway
  <2> QED  BY <1>2, <2>4, <2>5, <2>6, <2>7, <2>8, <2>9 DEF BuilderInv
<1>4. ASSUME NEW p \in Proc, NEW r \in Process, NEW f,
             proc[p] = None, proc' = [proc EXCEPT ![p] = r], BuildGoto(b, f),
             f = [at |-> "port", app |-> build[b].app, proc |-> p, port |-> None],
             r.app = build[b].app, r.buffer = bc.buffer, r.replacedBy = None
      PROVE  BuilderInv'
  <2>1. f \in BuildType /\ f.at = "port" /\ f.app = build[b].app /\ f.proc = p /\ f.port = None
    <3>1. build[b].app \in App
      BY <1>1, BuildFields
    <3> QED  BY <1>4, <3>1 DEF BuildType
  <2>2. build' \in [Call -> BuildType] /\ build'[b] = f /\ \A d \in Call : d # b => build'[d] = build[d]
    BY <1>1, <1>4, <2>1, BuildGotoIs
  <2>3. r # None
    BY BuilderAssumption
  <2>4. proc' \in [Proc -> Process \cup {None}] /\ proc'[p] = r /\ \A q \in Proc : q # p => proc'[q] = proc[q]
    BY <1>1, <1>4 DEF TypeInv
  <2>5. Started' = Started \cup {p} /\ p \notin Started
    BY <1>4, <2>3, <2>4 DEF Started
  <2>6. TypeInv'
    BY <1>1, <1>2, <2>2, <2>4 DEF TypeInv
  <2>7. NamesInv'
    BY <1>1, <1>2, <2>1, <2>2, <2>5 DEF NamesInv, Waits
  <2>8. OneBuild => OneBuild'
    BY <1>1, <1>2, <2>1, <2>2 DEF OneBuild, Underway
  <2>9. OneBuild => bc.buffer = b
    BY <1>1 DEF OneBuild, Underway
  <2>10. \A q \in Started : q \in Proc /\ proc'[q] = proc[q] /\ proc[q].buffer \in Call
    BY <1>1, <2>4, <2>5, BufferOf DEF Started
  <2>11. OneBuild /\ OwnBuffer => OwnBuffer'
    <3> SUFFICES ASSUME OneBuild, OwnBuffer PROVE OwnBuffer'
      OBVIOUS
    <3>1. \A q \in Started : proc[q].buffer # b
      BY <1>1 DEF OwnBuffer
    <3>2. \A x \in Call : callback'[x] \in {None, x}
      BY <1>2 DEF OwnBuffer
    <3>3. ASSUME NEW d \in Call, Waits(d)'
          PROVE  proc'[build'[d].proc].app = build'[d].app /\ build'[d].port \in {None, build'[d].proc}
      <4>1. CASE d = b
        BY <1>4, <2>1, <2>2, <2>4, <4>1
      <4>2. CASE d # b
        <5>1. build'[d] = build[d] /\ Waits(d)
          BY <2>2, <3>3, <4>2 DEF Waits
        <5>2. build[d].proc \in Started
          BY <1>1, <5>1 DEF NamesInv
        <5> QED  BY <2>10, <5>1, <5>2 DEF OwnBuffer
      <4> QED  BY <4>1, <4>2
    <3>4. \A d \in Call : build'[d].at = "publish" => build'[d].port # None
      BY <2>1, <2>2 DEF OwnBuffer
    <3>5. ASSUME NEW q \in Started'
          PROVE  /\ build'[proc'[q].buffer].at \notin {"none", "build", "run", "exec"}
                 /\ Waits(proc[q].buffer)' => build'[proc'[q].buffer].proc = q
      <4>1. CASE q = p
        BY <1>4, <2>1, <2>2, <2>4, <2>9, <4>1
      <4>2. CASE q # p
        <5>1. q \in Started /\ proc'[q] = proc[q] /\ proc[q].buffer \in Call /\ proc[q].buffer # b
          BY <2>5, <2>10, <3>1, <4>2
        <5> QED  BY <2>2, <5>1 DEF OwnBuffer, Waits
      <4> QED  BY <4>1, <4>2
    <3> QED  BY <3>2, <3>3, <3>4, <3>5 DEF OwnBuffer
  <2>12. NoneLost => NoneLost'
    <3> SUFFICES ASSUME NoneLost PROVE NoneLost'
      OBVIOUS
    <3>1. bc.process # None => bc.process \in Started
      BY <1>1 DEF NamesInv
    <3>2. bc.status = "running" => bc.port = bc.process
      BY DEF NoneLost
    <3>3. bc.process # None => proc'[bc.process].app = bc.app
      BY <2>10, <3>1 DEF NoneLost
    <3>4. ASSUME NEW q \in Started', proc'[q].alive
          PROVE  q = bc.process \/ proc'[q].replacedBy = proc'[q].app \/ \E d \in Call : Waits(d)' /\ build'[d].proc = q
      <4>1. CASE q = p
        BY <2>1, <2>2, <4>1 DEF Waits
      <4>2. CASE q # p
        <5>1. q \in Started /\ proc'[q] = proc[q]
          BY <2>5, <2>10, <4>2
        <5>2. ASSUME NEW d \in Call, Waits(d), build[d].proc = q
              PROVE  Waits(d)' /\ build'[d].proc = q
          BY <1>1, <2>2, <5>2 DEF Waits
        <5> QED  BY <3>4, <5>1, <5>2 DEF NoneLost
      <4> QED  BY <4>1, <4>2
    <3> QED  BY <1>2, <3>2, <3>3, <3>4 DEF NoneLost
  <2>13. StatusInv'
    BY <1>1, <1>2, <2>1, <2>2, <2>10, StatusKeeps DEF BuilderInv, Underway
  <2> QED  BY <1>2, <2>6, <2>7, <2>8, <2>11, <2>12, <2>13 DEF BuilderInv
<1> QED  BY <1>1, <1>3, <1>4, ExecIs

\* The processes of a step that starts none, and changes neither their apps
\* nor their buffers nor who took their place.
SameProcesses ==
    /\ proc' \in [Proc -> Process \cup {None}]
    /\ Started' = Started
    /\ \A q \in Started : /\ proc'[q].app = proc[q].app /\ proc'[q].buffer = proc[q].buffer
                          /\ proc'[q].replacedBy = proc[q].replacedBy
                          /\ proc'[q].alive => proc[q].alive

LEMMA ToldIs ==
    ASSUME TypeInv, NEW p \in Started, proc' = [proc EXCEPT ![p].told = TRUE]
    PROVE  SameProcesses /\ \A q \in Started : proc'[q].watched = proc[q].watched
<1>1. p \in Proc /\ proc[p] \in Process /\ proc[p] # None
  BY StartedFields
<1>2. PICK r : r = [proc[p] EXCEPT !.told = TRUE]
  OBVIOUS
<1>3. /\ r \in Process /\ r.alive = proc[p].alive /\ r.app = proc[p].app /\ r.buffer = proc[p].buffer
      /\ r.watched = proc[p].watched /\ r.replacedBy = proc[p].replacedBy
  BY <1>1, <1>2 DEF Process
<1>4. r # None
  BY <1>3, BuilderAssumption
<1>5. proc' = [proc EXCEPT ![p] = r]
  BY <1>2
<1>6. proc' \in [Proc -> Process \cup {None}] /\ proc'[p] = r /\ \A q \in Proc : q # p => proc'[q] = proc[q]
  BY <1>1, <1>3, <1>5 DEF TypeInv
<1>7. Started' = Started
  BY <1>1, <1>4, <1>6 DEF Started
<1>8. \A q \in Started : q \in Proc
  BY DEF Started
<1> QED  BY <1>3, <1>6, <1>7, <1>8 DEF SameProcesses

LEMMA UnwatchedIs ==
    ASSUME TypeInv, NEW p \in Started, proc' = [proc EXCEPT ![p].watched = FALSE]
    PROVE  SameProcesses /\ \A q \in Started : q # p => proc'[q].watched = proc[q].watched
<1>1. p \in Proc /\ proc[p] \in Process /\ proc[p] # None
  BY StartedFields
<1>2. PICK r : r = [proc[p] EXCEPT !.watched = FALSE]
  OBVIOUS
<1>3. /\ r \in Process /\ r.alive = proc[p].alive /\ r.app = proc[p].app /\ r.buffer = proc[p].buffer
      /\ r.replacedBy = proc[p].replacedBy
  BY <1>1, <1>2 DEF Process
<1>4. r # None
  BY <1>3, BuilderAssumption
<1>5. proc' = [proc EXCEPT ![p] = r]
  BY <1>2
<1>6. proc' \in [Proc -> Process \cup {None}] /\ proc'[p] = r /\ \A q \in Proc : q # p => proc'[q] = proc[q]
  BY <1>1, <1>3, <1>5 DEF TypeInv
<1>7. Started' = Started
  BY <1>1, <1>4, <1>6 DEF Started
<1>8. \A q \in Started : q \in Proc
  BY DEF Started
<1> QED  BY <1>3, <1>6, <1>7, <1>8 DEF SameProcesses

LEMMA KilledIs ==
    ASSUME TypeInv, NEW p, p = None \/ p \in Started, proc' = Kill(p)
    PROVE  /\ SameProcesses /\ (\A q \in Started : proc'[q].watched = proc[q].watched)
           /\ p # None => ~proc'[p].alive
<1>1. PICK killed : killed = Kill(p)
  OBVIOUS
<1>2. proc' = killed
  BY <1>1
<1>3. \A q \in Started : q \in Proc
  BY DEF Started
<1>4. killed \in [Proc -> Process \cup {None}]
      /\ \A q \in Proc : (killed[q] # None <=> proc[q] # None) /\ (q # p => killed[q] = proc[q])
  BY <1>1, KillIs
<1>5. p # None => /\ ~killed[p].alive /\ killed[p].app = proc[p].app /\ killed[p].buffer = proc[p].buffer
                  /\ killed[p].watched = proc[p].watched /\ killed[p].replacedBy = proc[p].replacedBy
  BY <1>1, KillIs
<1>6. Started' = Started
  BY <1>2, <1>4 DEF Started
<1>7. \A q \in Started : q # None
  BY <1>3, BuilderAssumption
<1> QED  BY <1>2, <1>3, <1>4, <1>5, <1>6, <1>7 DEF SameProcesses

\* A step of the processes alone.
LEMMA OnlyProcessesInv ==
    ASSUME BuilderInv, SameProcesses, bc' = bc, callback' = callback, call' = call, build' = build, overlap' = overlap,
           \A q \in Started : proc'[q].watched = proc[q].watched
    PROVE  BuilderInv'
<1>1. TypeInv /\ NamesInv
  BY DEF BuilderInv
<1>2. TypeInv'
  BY <1>1 DEF TypeInv, SameProcesses
<1>3. NamesInv'
  BY <1>1 DEF NamesInv, SameProcesses, Waits
<1>4. OneBuild => OneBuild'
  BY DEF OneBuild, Underway
<1>5. OwnBuffer => OwnBuffer'
  <2>1. \A b \in Call : Waits(b) => build[b].proc \in Started
    BY <1>1 DEF NamesInv
  <2> QED  BY <2>1 DEF OwnBuffer, SameProcesses, Waits
<1>6. NoneLost => NoneLost'
  BY <1>1 DEF NoneLost, NamesInv, SameProcesses, Waits
<1>7. StatusInv'
  BY <1>1, StatusKeeps DEF BuilderInv, Underway
<1> QED  BY <1>2, <1>3, <1>4, <1>5, <1>6, <1>7 DEF BuilderInv

LEMMA ExitInv ==
    ASSUME BuilderInv, NEW p \in Proc, Exit(p)
    PROVE  BuilderInv'
<1>1. TypeInv /\ p \in Started /\ proc' = Kill(p)
  BY DEF Exit, Alive, BuilderInv
<1>2. SameProcesses /\ \A q \in Started : proc'[q].watched = proc[q].watched
  BY <1>1, KilledIs
<1> QED  BY <1>2, OnlyProcessesInv DEF Exit

LEMMA TellPortInv ==
    ASSUME BuilderInv, NEW p \in Proc, TellPort(p)
    PROVE  BuilderInv'
<1>1. TypeInv /\ NamesInv /\ p \in Started /\ proc' = [proc EXCEPT ![p].told = TRUE]
  BY DEF TellPort, Alive, BuilderInv
<1>2. SameProcesses /\ \A q \in Started : proc'[q].watched = proc[q].watched
  BY <1>1, ToldIs
<1>3. bc' = bc /\ callback' = callback /\ call' = call /\ overlap' = overlap
  BY DEF TellPort
<1>4. PICK b : b = callback[proc[p].buffer]
  OBVIOUS
<1>5. CASE UNCHANGED build
  BY <1>2, <1>3, <1>5, OnlyProcessesInv
<1>6. CASE b # None /\ build[b].at = "port" /\ build[b].port = None /\ BuildGoto(b, [build[b] EXCEPT !.port = p])
  <2>1. proc[p].buffer \in Call /\ b \in Call
    BY <1>1, <1>4, <1>6, BufferOf DEF TypeInv
  <2>2. PICK f : f = [build[b] EXCEPT !.port = p]
    OBVIOUS
  <2>3. f \in BuildType
    BY <1>1, <1>6, <2>1, <2>2, BuildIsTold
  <2>4. f.at = "port" /\ f.app = build[b].app /\ f.proc = build[b].proc /\ f.port = p
    <3>1. build[b] \in BuildType
      BY <1>1, <2>1 DEF TypeInv
    <3> QED  BY <1>6, <2>2, <3>1 DEF BuildType
  <2>5. build' \in [Call -> BuildType] /\ build'[b] = f /\ \A d \in Call : d # b => build'[d] = build[d]
    BY <1>1, <1>6, <2>1, <2>2, <2>3, BuildGotoIs
  <2>6. TypeInv'
    BY <1>1, <1>2, <1>3, <2>5 DEF TypeInv, SameProcesses
  <2>7. NamesInv'
    BY <1>1, <1>2, <1>3, <1>6, <2>1, <2>4, <2>5 DEF NamesInv, SameProcesses, Waits
  <2>8. OneBuild => OneBuild'
    BY <1>3, <1>6, <2>1, <2>4, <2>5 DEF OneBuild, Underway
  <2>9. OwnBuffer => OwnBuffer'
    <3> SUFFICES ASSUME OwnBuffer PROVE OwnBuffer'
      OBVIOUS
    <3>1. b = proc[p].buffer /\ build[b].proc = p
      BY <1>1, <1>4, <1>6, <2>1 DEF OwnBuffer, Waits
    <3>2. \A d \in Call : Waits(d) => build[d].proc \in Started
      BY <1>1 DEF NamesInv
    <3>3. \A d \in Call : Waits(d)' => /\ proc'[build'[d].proc].app = build'[d].app
                                       /\ build'[d].port \in {None, build'[d].proc}
      <4>1. ASSUME NEW d \in Call, Waits(d)'
            PROVE  /\ proc'[build'[d].proc].app = build'[d].app
                   /\ build'[d].port \in {None, build'[d].proc}
        <5>1. Waits(d) /\ build'[d].proc = build[d].proc /\ build'[d].app = build[d].app
          BY <1>6, <2>4, <2>5, <4>1 DEF Waits
        <5>2. proc'[build[d].proc].app = proc[build[d].proc].app
          BY <1>2, <3>2, <5>1 DEF SameProcesses
        <5>3. build'[d].port \in {None, build[d].proc}
          BY <2>4, <2>5, <3>1, <5>1 DEF OwnBuffer
        <5> QED  BY <5>1, <5>2, <5>3 DEF OwnBuffer
      <4> QED  BY <4>1
    <3>4. \A d \in Call : build'[d].at = "publish" => build'[d].port # None
      BY <2>4, <2>5 DEF OwnBuffer
    <3>5. ASSUME NEW q \in Started
          PROVE  /\ build'[proc'[q].buffer].at \notin {"none", "build", "run", "exec"}
                 /\ Waits(proc[q].buffer)' => build'[proc'[q].buffer].proc = q
      <4>1. proc'[q].buffer = proc[q].buffer /\ proc[q].buffer \in Call
        BY <1>1, <1>2, BufferOf DEF SameProcesses
      <4> QED  BY <1>6, <2>4, <2>5, <4>1 DEF OwnBuffer, Waits
    <3> QED  BY <1>2, <1>3, <3>3, <3>4, <3>5 DEF OwnBuffer, SameProcesses
  <2>10. NoneLost => NoneLost'
    <3>1. \A d \in Call : (Waits(d)' <=> Waits(d)) /\ (Waits(d) => build'[d].proc = build[d].proc)
      BY <1>6, <2>4, <2>5 DEF Waits
    <3> QED  BY <1>1, <1>2, <1>3, <3>1 DEF NoneLost, NamesInv, SameProcesses
  <2>11. StatusInv'
    BY <1>1, <1>2, <1>3, <1>6, <2>1, <2>4, <2>5, StatusKeeps DEF BuilderInv, Underway
  <2> QED  BY <1>3, <2>6, <2>7, <2>8, <2>9, <2>10, <2>11 DEF BuilderInv
<1> QED  BY <1>4, <1>5, <1>6 DEF TellPort

LEMMA GetPortInv ==
    ASSUME BuilderInv, NEW b \in Call, GetPort(b)
    PROVE  BuilderInv'
<1>1. TypeInv /\ NamesInv /\ build[b].at = "port" /\ build[b].proc \in Started
  BY DEF GetPort, BuilderInv, NamesInv, Waits
<1>2. bc' = bc /\ callback' = callback /\ call' = call /\ overlap' = overlap
  BY DEF GetPort
<1>a. PICK at \in {"publish", "error"} :
         /\ BuildGoto(b, [build[b] EXCEPT !.at = at])
         /\ at = "publish" => build[b].port # None /\ proc' = proc
         /\ at = "error" => proc' = Kill(build[b].proc)
  BY Zenon DEF GetPort
<1>b. PICK f : f = [build[b] EXCEPT !.at = at]
  OBVIOUS
<1>3. /\ f = [build[b] EXCEPT !.at = at] /\ BuildGoto(b, f)
      /\ at = "publish" => build[b].port # None /\ proc' = proc
      /\ at = "error" => proc' = Kill(build[b].proc)
  BY <1>a, <1>b, Zenon
<1>4. f \in BuildType
  BY <1>1, <1>3, BuildGoesOn DEF Waits
<1>5. f.at = at /\ f.app = build[b].app /\ f.proc = build[b].proc /\ f.port = build[b].port
  <2>1. build[b] \in BuildType
    BY <1>1 DEF TypeInv
  <2> QED  BY <1>1, <1>3, <2>1 DEF BuildType
<1>6. build' \in [Call -> BuildType] /\ build'[b] = f /\ \A d \in Call : d # b => build'[d] = build[d]
  BY <1>1, <1>3, <1>4, BuildGotoIs
<1>7. /\ SameProcesses /\ \A q \in Started : proc'[q].watched = proc[q].watched
      /\ at = "error" => ~proc'[build[b].proc].alive
  <2>1. CASE at = "publish"
    BY <1>1, <1>3, <2>1 DEF SameProcesses, TypeInv, Started
  <2>2. CASE at = "error"
    <3>1. build[b].proc # None
      BY <1>1, BuilderAssumption DEF Started
    <3> QED  BY <1>1, <1>3, <2>2, <3>1, KilledIs
  <2> QED  BY <2>1, <2>2
<1>8. TypeInv'
  BY <1>1, <1>2, <1>6, <1>7 DEF TypeInv, SameProcesses
<1>9. NamesInv'
  BY <1>1, <1>2, <1>5, <1>6, <1>7 DEF NamesInv, SameProcesses, Waits
<1>10. OneBuild => OneBuild'
  BY <1>1, <1>2, <1>5, <1>6 DEF OneBuild, Underway
<1>11. OwnBuffer => OwnBuffer'
  <2> SUFFICES ASSUME OwnBuffer PROVE OwnBuffer'
    OBVIOUS
  <2>1. ASSUME NEW d \in Call, Waits(d)'
        PROVE  /\ proc'[build'[d].proc].app = build'[d].app
               /\ build'[d].port \in {None, build'[d].proc}
    <3>1. Waits(d) /\ build'[d].proc = build[d].proc /\ build'[d].app = build[d].app /\ build'[d].port = build[d].port
      BY <1>1, <1>5, <1>6, <2>1 DEF Waits
    <3>2. build[d].proc \in Started
      BY <1>1, <3>1 DEF NamesInv
    <3> QED  BY <1>7, <3>1, <3>2 DEF OwnBuffer, SameProcesses
  <2>2. \A d \in Call : build'[d].at = "publish" => build'[d].port # None
    BY <1>3, <1>5, <1>6 DEF OwnBuffer
  <2>3. ASSUME NEW q \in Started
        PROVE  /\ build'[proc'[q].buffer].at \notin {"none", "build", "run", "exec"}
               /\ Waits(proc[q].buffer)' => build'[proc'[q].buffer].proc = q
    <3>1. proc'[q].buffer = proc[q].buffer /\ proc[q].buffer \in Call
      BY <1>1, <1>7, BufferOf DEF SameProcesses
    <3>2. PICK x \in Call : x = proc[q].buffer
      BY <3>1
    <3>3. build[x].at \notin {"none", "build", "run", "exec"} /\ (Waits(x) => build[x].proc = q)
      BY <3>2 DEF OwnBuffer
    <3>4. build'[x].at \notin {"none", "build", "run", "exec"} /\ (Waits(x)' => build'[x].proc = q)
      BY <1>1, <1>3, <1>5, <1>6, <3>3 DEF Waits
    <3> QED  BY <3>1, <3>2, <3>4 DEF Waits
  <2> QED  BY <1>2, <1>7, <2>1, <2>2, <2>3 DEF OwnBuffer, SameProcesses
<1>12. NoneLost => NoneLost'
  <2> SUFFICES ASSUME NoneLost PROVE NoneLost'
    OBVIOUS
  <2>1. ASSUME NEW q \in Started, proc'[q].alive, NEW d \in Call, Waits(d), build[d].proc = q
        PROVE  Waits(d)' /\ build'[d].proc = q
    BY <1>3, <1>5, <1>6, <1>7, <2>1 DEF Waits
  <2> QED  BY <1>1, <1>2, <1>7, <2>1 DEF NoneLost, NamesInv, SameProcesses
<1>13. StatusInv'
  BY <1>1, <1>2, <1>3, <1>5, <1>6, <1>7, StatusKeeps DEF BuilderInv, Underway
<1> QED  BY <1>2, <1>8, <1>9, <1>10, <1>11, <1>12, <1>13 DEF BuilderInv

LEMMA WatchEndsInv ==
    ASSUME BuilderInv, NEW p \in Proc, WatchEnds(p)
    PROVE  BuilderInv'
<1>1. TypeInv /\ NamesInv /\ p \in Started /\ ~proc[p].alive /\ proc' = [proc EXCEPT ![p].watched = FALSE]
  BY DEF WatchEnds, BuilderInv
<1>2. SameProcesses /\ \A q \in Started : q # p => proc'[q].watched = proc[q].watched
  BY <1>1, UnwatchedIs
<1>3. callback' = callback /\ call' = call /\ build' = build /\ overlap' = overlap
  BY DEF WatchEnds
<1>4. \/ bc.process # p /\ bc' = bc
      \/ /\ bc.process = p /\ bc'.process = None /\ bc'.status = "stopped" /\ bc'.port = None
         /\ bc'.app = bc.app /\ bc'.buffer = bc.buffer /\ bc' \in ControllerType
  <2>1. CASE bc.process # p
    BY <2>1 DEF WatchEnds
  <2>2. CASE bc.process = p
    <3>1. bc \in ControllerType
      BY <1>1 DEF TypeInv, ControllerType
    <3>2. bc' = [Status(bc, "stopped", None) EXCEPT !.process = None]
      BY <2>2 DEF WatchEnds
    <3>3. PICK r : r = Status(bc, "stopped", None)
      OBVIOUS
    <3>4. /\ r \in ControllerType /\ r.status = "stopped" /\ r.port = None /\ r.app = bc.app /\ r.buffer = bc.buffer
      BY <3>1, <3>3 DEF Status, ControllerType, Statuses
    <3>5. bc' = [r EXCEPT !.process = None]
      BY <3>2, <3>3
    <3> QED  BY <2>2, <3>4, <3>5 DEF ControllerType
  <2> QED  BY <2>1, <2>2
<1>5. TypeInv'
  BY <1>1, <1>2, <1>3, <1>4 DEF TypeInv, SameProcesses, ControllerType
<1>6. NamesInv'
  BY <1>1, <1>2, <1>3, <1>4 DEF NamesInv, SameProcesses, Waits
<1>7. OneBuild => OneBuild'
  <2> SUFFICES ASSUME OneBuild PROVE OneBuild'
    OBVIOUS
  <2>1. \A b \in Call : Underway(b)' <=> Underway(b)
    BY <1>3 DEF Underway
  <2> QED  BY <1>3, <1>4, <2>1 DEF OneBuild
<1>8. OwnBuffer => OwnBuffer'
  <2>1. \A b \in Call : Waits(b) => build[b].proc \in Started
    BY <1>1 DEF NamesInv
  <2> QED  BY <1>2, <1>3, <2>1 DEF OwnBuffer, SameProcesses, Waits
<1>9. NoneLost => NoneLost'
  BY <1>1, <1>2, <1>3, <1>4 DEF NoneLost, NamesInv, SameProcesses, Waits
<1>10. StatusInv'
  <2>1. CASE bc.process # p /\ bc' = bc
    <3>1. \A b \in Call : Underway(b)' <=> Underway(b)
      BY <1>3 DEF Underway
    <3>2. bc'.status = "running" =>
             /\ bc.status = "running" /\ bc'.process = bc.process
             /\ bc.process \in Started => proc'[bc.process].watched = proc[bc.process].watched
      BY <1>2, <2>1
    <3>3. NamesInv /\ StatusInv
      BY DEF BuilderInv
    <3> QED  BY <1>3, <2>1, <3>1, <3>2, <3>3, StatusKeeps
  <2>2. CASE bc'.status = "stopped"
    BY <2>2 DEF StatusInv
  <2> QED  BY <1>4, <2>1, <2>2
<1> QED  BY <1>3, <1>5, <1>6, <1>7, <1>8, <1>9, <1>10 DEF BuilderInv

\* No step begins beside a build under way without being remembered.
LEMMA NoOverlap ==
    ASSUME BuilderInv, overlap' = (overlap \/ \E b \in Call : Underway(b)), ~overlap'
    PROVE  OneBuild /\ OwnBuffer /\ NoneLost /\ \A b \in Call : ~Underway(b) /\ ~Waits(b)
BY DEF BuilderInv, Underway, Waits

LEMMA StopInv ==
    ASSUME BuilderInv, NEW c \in Call, Stop(c)
    PROVE  BuilderInv'
<1>1. TypeInv /\ NamesInv /\ proc' = Kill(bc.process) /\ (bc.process = None \/ bc.process \in Started)
  BY DEF Stop, BuilderInv, NamesInv
<1>2. /\ SameProcesses /\ \A q \in Started : proc'[q].watched = proc[q].watched
      /\ bc.process # None => ~proc'[bc.process].alive
  BY <1>1, KilledIs
<1>3. callback' = callback /\ build' = build /\ overlap' = overlap
  BY DEF Stop
<1>4. /\ bc'.process = None /\ bc'.status = "stopped" /\ bc'.port = None
      /\ bc'.app = bc.app /\ bc'.buffer = bc.buffer /\ bc' \in ControllerType
  <2>1. bc \in ControllerType
    BY <1>1 DEF TypeInv, ControllerType
  <2>2. bc' = [Status(bc, "stopped", None) EXCEPT !.process = None]
    BY DEF Stop
  <2>3. PICK r : r = Status(bc, "stopped", None)
    OBVIOUS
  <2>4. /\ r \in ControllerType /\ r.status = "stopped" /\ r.port = None /\ r.app = bc.app /\ r.buffer = bc.buffer
    BY <2>1, <2>3 DEF Status, ControllerType, Statuses
  <2>5. bc' = [r EXCEPT !.process = None]
    BY <2>2, <2>3
  <2> QED  BY <2>4, <2>5 DEF ControllerType
<1>5. PICK f : f = [at |-> "end"] /\ Goto(c, f)
  BY DEF Stop
<1>6. f \in CallType /\ f.at = "end"
  BY <1>5 DEF CallType
<1>7. call' \in [Call -> CallType] /\ call'[c] = f /\ \A d \in Call : d # c => call'[d] = call[d]
  BY <1>1, <1>5, <1>6 DEF Goto, TypeInv
<1>8. TypeInv'
  BY <1>1, <1>2, <1>3, <1>4, <1>7 DEF TypeInv, SameProcesses, ControllerType
<1>9. NamesInv'
  BY <1>1, <1>2, <1>3, <1>4, <1>6, <1>7 DEF NamesInv, SameProcesses, Waits
<1>10. StatusInv'
  BY <1>1, <1>4, StatusKeeps DEF BuilderInv
<1>11. OneBuild => OneBuild'
  <2>1. \A b \in Call : Underway(b)' <=> Underway(b)
    BY <1>3 DEF Underway
  <2> QED  BY <1>3, <1>4, <2>1 DEF OneBuild
<1>12. OwnBuffer => OwnBuffer'
  <2>1. \A b \in Call : Waits(b) => build[b].proc \in Started
    BY <1>1 DEF NamesInv
  <2> QED  BY <1>2, <1>3, <2>1 DEF OwnBuffer, SameProcesses, Waits
<1>13. NoneLost => NoneLost'
  BY <1>1, <1>2, <1>3, <1>4 DEF NoneLost, NamesInv, SameProcesses, Waits
<1> QED  BY <1>3, <1>8, <1>9, <1>10, <1>11, <1>12, <1>13 DEF BuilderInv

LEMMA StartInv ==
    ASSUME BuilderInv, NEW c \in Call, Start(c)
    PROVE  BuilderInv'
<1>1. /\ TypeInv /\ NamesInv /\ (bc.process = None \/ bc.process \in Started)
      /\ call[c].at = "enter" /\ call[c].app # None /\ build[c].at = "none"
  BY DEF Start, BuilderInv, NamesInv
<1>2. PICK a : a = call[c].app
  OBVIOUS
<1>3. a \in App /\ call[c].wait \in BOOLEAN
  BY <1>1, <1>2, CallFields
<1>4. PICK left : left = IF bc.app # a THEN None ELSE bc.process
  OBVIOUS
<1>5. callback' = callback /\ overlap' = (overlap \/ \E b \in Call : Underway(b))
  BY DEF Start
<1>6. /\ bc'.process = left /\ bc'.status = "building" /\ bc'.port = None
      /\ bc'.app = a /\ bc'.buffer = c /\ bc' \in ControllerType
  <2>1. bc \in ControllerType
    BY <1>1 DEF TypeInv, ControllerType
  <2>2. bc' = [Status(bc, "building", None) EXCEPT
                 !.app = a, !.buffer = c, !.process = IF bc.app # a THEN None ELSE @]
    BY <1>2 DEF Start
  <2>3. PICK r : r = Status(bc, "building", None)
    OBVIOUS
  <2>4. /\ r \in ControllerType /\ r.status = "building" /\ r.port = None /\ r.app = bc.app /\ r.buffer = bc.buffer
        /\ r.process = bc.process
    BY <2>1, <2>3 DEF Status, ControllerType, Statuses
  <2>5. bc' = [r EXCEPT !.app = a, !.buffer = c, !.process = left]
    BY <1>4, <2>2, <2>3, <2>4
  <2>6. left \in Proc \cup {None}
    BY <1>4, <2>1 DEF ControllerType
  <2> QED  BY <1>3, <2>4, <2>5, <2>6 DEF ControllerType
<1>7. PICK f : f = [at |-> IF call[c].wait THEN "result" ELSE "end"] /\ Goto(c, f)
  BY DEF Start
<1>8. f \in CallType /\ f.at \in {"result", "end"}
  BY <1>7 DEF CallType
<1>9. call' \in [Call -> CallType] /\ call'[c] = f /\ \A d \in Call : d # c => call'[d] = call[d]
  BY <1>1, <1>7, <1>8 DEF Goto, TypeInv
<1>10. PICK g : g = [at |-> "build", app |-> a] /\ BuildGoto(c, g)
  BY <1>2 DEF Start
<1>11. g \in BuildType /\ g.at = "build" /\ g.app = a
  BY <1>3, <1>10 DEF BuildType
<1>12. build' \in [Call -> BuildType] /\ build'[c] = g /\ \A d \in Call : d # c => build'[d] = build[d]
  BY <1>1, <1>10, <1>11, BuildGotoIs
<1>13. /\ SameProcesses /\ \A q \in Started : proc'[q].watched = proc[q].watched
       /\ bc.process # None /\ bc.app # a => ~proc'[bc.process].alive
  <2>1. CASE bc.app # a
    <3>1. proc' = Kill(bc.process)
      BY <1>2, <2>1 DEF Start
    <3> QED  BY <1>1, <3>1, KilledIs
  <2>2. CASE bc.app = a
    <3>1. proc' = proc
      BY <1>2, <2>2 DEF Start
    <3> QED  BY <1>1, <2>2, <3>1 DEF SameProcesses, TypeInv, Started
  <2> QED  BY <2>1, <2>2
<1>14. TypeInv'
  BY <1>5, <1>6, <1>9, <1>12, <1>13, <1>1 DEF TypeInv, SameProcesses, ControllerType
<1>15. NamesInv'
  <2>1. bc'.process # None => bc'.process \in Started
    BY <1>1, <1>4, <1>6
  <2>2. \A b \in Call : Waits(b)' => build'[b].proc \in Started
    BY <1>1, <1>11, <1>12 DEF NamesInv, Waits
  <2>3. \A d \in Call : call'[d].at \in {"none", "poll", "enter"} => build'[d].at = "none"
    BY <1>1, <1>8, <1>9, <1>12 DEF NamesInv
  <2>4. bc'.buffer # None
    BY <1>6, BuilderAssumption
  <2> QED  BY <1>6, <1>13, <2>1, <2>2, <2>3, <2>4 DEF NamesInv, SameProcesses
<1>16. ASSUME ~overlap' PROVE OneBuild' /\ OwnBuffer' /\ NoneLost'
  <2>1. OneBuild /\ OwnBuffer /\ NoneLost /\ \A b \in Call : ~Underway(b) /\ ~Waits(b)
    BY <1>5, <1>16, NoOverlap
  <2>2. \A b \in Call : (Underway(b)' <=> b = c) /\ ~Waits(b)'
    BY <1>11, <1>12, <2>1 DEF Underway, Waits
  <2>3. OneBuild'
    BY <1>6, <1>11, <1>12, <2>2 DEF OneBuild
  <2>4. OwnBuffer'
    <3>1. \A q \in Started : proc'[q].buffer = proc[q].buffer /\ proc[q].buffer \in Call
      BY <1>1, <1>13, BufferOf DEF SameProcesses
    <3>2. \A q \in Started : ~Waits(proc[q].buffer)'
      BY <2>2, <3>1
    <3>3. \A b \in Call : build'[b].at # "publish"
      BY <2>2 DEF Waits
    <3>4. \A q \in Started : build'[proc[q].buffer].at \notin {"none", "build", "run", "exec"}
      BY <1>1, <1>12, <2>1, <3>1 DEF OwnBuffer
    <3> QED  BY <1>5, <1>13, <2>1, <2>2, <3>1, <3>2, <3>3, <3>4 DEF OwnBuffer, SameProcesses
  <2>5. NoneLost'
    <3>1. bc'.process # None => proc'[bc'.process].app = bc'.app
      BY <1>1, <1>4, <1>6, <1>13, <2>1 DEF NoneLost, SameProcesses
    <3>2. ASSUME NEW q \in Started, proc'[q].alive
          PROVE  q = bc'.process \/ proc'[q].replacedBy = proc'[q].app
      <4>1. q = bc.process \/ proc[q].replacedBy = proc[q].app
        BY <1>13, <2>1, <3>2 DEF NoneLost, SameProcesses
      <4>2. q # None
        BY BuilderAssumption DEF Started
      <4> QED  BY <1>4, <1>6, <1>13, <3>2, <4>1, <4>2 DEF SameProcesses
    <3> QED  BY <1>6, <1>13, <3>1, <3>2 DEF NoneLost, SameProcesses
  <2> QED  BY <2>3, <2>4, <2>5
<1>17. StatusInv'
  BY <1>6, <1>11, <1>12 DEF StatusInv, Underway
<1> QED  BY <1>14, <1>15, <1>16, <1>17 DEF BuilderInv

\* The processes after the build "b" has told of its own.
LEMMA PublishIs ==
    ASSUME TypeInv, NamesInv, NEW b \in Call, Publish(b), NEW p, p = build[b].proc
    PROVE  /\ proc' \in [Proc -> Process \cup {None}] /\ Started' = Started /\ p \in Started
           /\ \A q \in Started : proc'[q].app = proc[q].app /\ proc'[q].buffer = proc[q].buffer
                                 /\ proc'[q].alive = proc[q].alive
           /\ proc'[p].watched
           /\ \A q \in Started : q # p => proc'[q].watched = proc[q].watched
           /\ bc.process # None /\ bc.process # p => proc'[bc.process].replacedBy = build[b].app
           /\ \A q \in Started : q # bc.process \/ q = p => proc'[q].replacedBy = proc[q].replacedBy
<1>1. p \in Started /\ p \in Proc /\ proc[p] \in Process /\ build[b].app \in App
  BY BuildFields, StartedFields DEF Publish, NamesInv, Waits
<1>2. PICK r : r = [proc[p] EXCEPT !.watched = TRUE]
  OBVIOUS
<1>3. /\ r \in Process /\ r.alive = proc[p].alive /\ r.app = proc[p].app /\ r.buffer = proc[p].buffer
      /\ r.watched /\ r.replacedBy = proc[p].replacedBy
  BY <1>1, <1>2 DEF Process
<1>4. PICK old : old = bc.process
  OBVIOUS
<1>5. PICK s : s = [proc[old] EXCEPT !.replacedBy = build[b].app]
  OBVIOUS
<1>6. old # None => /\ old \in Started
                    /\ s \in Process /\ s.alive = proc[old].alive /\ s.app = proc[old].app
                    /\ s.buffer = proc[old].buffer /\ s.watched = proc[old].watched
                    /\ s.replacedBy = build[b].app
  <2> SUFFICES ASSUME old # None
               PROVE  /\ old \in Started
                      /\ s \in Process /\ s.alive = proc[old].alive /\ s.app = proc[old].app
                      /\ s.buffer = proc[old].buffer /\ s.watched = proc[old].watched
                      /\ s.replacedBy = build[b].app
    OBVIOUS
  <2>1. old \in Started /\ proc[old] \in Process
    BY <1>4, StartedFields DEF NamesInv
  <2> QED  BY <1>1, <1>5, <2>1 DEF Process
<1>7. ASSUME NEW q \in Proc
      PROVE  /\ q = p => proc'[q] = r
             /\ q # p /\ q = old => proc'[q] = s
             /\ q # p /\ q # old => proc'[q] = proc[q]
  <2>1. proc' = [x \in Proc |-> CASE x = p -> [proc[p] EXCEPT !.watched = TRUE]
                                  [] x # p /\ x = bc.process -> [proc[x] EXCEPT !.replacedBy = build[b].app]
                                  [] OTHER -> proc[x]]
    BY DEF Publish
  <2> QED  BY <1>2, <1>4, <1>5, <2>1
<1>8. DOMAIN proc' = Proc /\ proc' = [x \in Proc |-> proc'[x]]
  BY DEF Publish
<1>9. \A q \in Proc : q # None
  BY BuilderAssumption
<1>10. \A q \in Proc : proc'[q] \in Process \cup {None} /\ (proc'[q] # None <=> proc[q] # None)
  BY <1>1, <1>3, <1>6, <1>7, <1>9, BuilderAssumption DEF TypeInv, Started
<1>11. proc' \in [Proc -> Process \cup {None}] /\ Started' = Started
  BY <1>8, <1>10 DEF Started
<1>12. \A q \in Started : q \in Proc
  BY DEF Started
<1>13. \A q \in Started : /\ proc'[q].app = proc[q].app /\ proc'[q].buffer = proc[q].buffer
                          /\ proc'[q].alive = proc[q].alive
                          /\ q # p => proc'[q].watched = proc[q].watched
                          /\ q # old \/ q = p => proc'[q].replacedBy = proc[q].replacedBy
  BY <1>3, <1>6, <1>7, <1>9, <1>12
<1>14. proc'[p].watched
  BY <1>1, <1>3, <1>7
<1>15. old # None /\ old # p => proc'[old].replacedBy = build[b].app
  BY <1>6, <1>7, <1>12
<1> QED  BY <1>1, <1>4, <1>11, <1>13, <1>14, <1>15

LEMMA PublishInv ==
    ASSUME BuilderInv, NEW b \in Call, Publish(b)
    PROVE  BuilderInv'
<1>1. TypeInv /\ NamesInv /\ build[b].at = "publish" /\ Waits(b)
  BY DEF Publish, BuilderInv, Waits
<1>2. PICK p : p = build[b].proc
  OBVIOUS
<1>3. callback' = callback /\ call' = call /\ overlap' = overlap
  BY DEF Publish
<1>4. /\ proc' \in [Proc -> Process \cup {None}] /\ Started' = Started /\ p \in Started /\ p \in Proc
      /\ \A q \in Started : proc'[q].app = proc[q].app /\ proc'[q].buffer = proc[q].buffer
                            /\ proc'[q].alive = proc[q].alive
      /\ proc'[p].watched
      /\ \A q \in Started : q # p => proc'[q].watched = proc[q].watched
      /\ bc.process # None /\ bc.process # p => proc'[bc.process].replacedBy = build[b].app
      /\ \A q \in Started : q # bc.process \/ q = p => proc'[q].replacedBy = proc[q].replacedBy
  BY <1>1, <1>2, PublishIs DEF Started
<1>5. /\ bc'.process = p /\ bc'.status = "running" /\ bc'.port = build[b].port
      /\ bc'.app = bc.app /\ bc'.buffer = bc.buffer /\ bc' \in ControllerType
  <2>1. bc \in ControllerType /\ build[b].port \in Proc \cup {None}
    BY <1>1, BuildFields DEF TypeInv, ControllerType
  <2>2. bc' = [Status(bc, "running", build[b].port) EXCEPT !.process = p]
    BY <1>2 DEF Publish
  <2>3. PICK r : r = Status(bc, "running", build[b].port)
    OBVIOUS
  <2>4. /\ r \in ControllerType /\ r.status = "running" /\ r.port = build[b].port /\ r.app = bc.app /\ r.buffer = bc.buffer
    BY <2>1, <2>3 DEF Status, ControllerType, Statuses
  <2>5. bc' = [r EXCEPT !.process = p]
    BY <2>2, <2>3
  <2> QED  BY <1>4, <2>4, <2>5 DEF ControllerType
<1>6. PICK f : f = [at |-> "watch"] /\ BuildGoto(b, f)
  BY DEF Publish
<1>7. f \in BuildType /\ f.at = "watch"
  BY <1>6 DEF BuildType
<1>8. build' \in [Call -> BuildType] /\ build'[b] = f /\ \A d \in Call : d # b => build'[d] = build[d]
  BY <1>1, <1>6, <1>7, BuildGotoIs
<1>9. TypeInv'
  BY <1>1, <1>3, <1>4, <1>5, <1>8 DEF TypeInv, ControllerType
<1>10. NamesInv'
  BY <1>1, <1>3, <1>4, <1>5, <1>7, <1>8 DEF NamesInv, Waits
<1>11. ASSUME OneBuild, OwnBuffer, NoneLost PROVE OneBuild' /\ OwnBuffer' /\ NoneLost'
  <2>1. Underway(b) /\ bc.app = build[b].app /\ \A d \in Call : d # b => ~Underway(d) /\ ~Waits(d)
    BY <1>1, <1>11 DEF OneBuild, Underway, Waits
  <2>2. \A d \in Call : ~Underway(d)' /\ ~Waits(d)'
    BY <1>7, <1>8, <2>1 DEF Underway, Waits
  <2>3. OneBuild'
    BY <1>5, <2>2 DEF OneBuild
  <2>4. \A q \in Started : proc[q].buffer \in Call
    BY <1>1, BufferOf
  <2>5. OwnBuffer'
    <3>1. \A q \in Started : build'[proc[q].buffer].at \notin {"none", "build", "run", "exec"}
      BY <1>7, <1>8, <1>11, <2>4 DEF OwnBuffer
    <3>2. \A d \in Call : build'[d].at # "publish"
      BY <2>2 DEF Waits
    <3>3. \A q \in Started : ~Waits(proc[q].buffer)'
      BY <1>4, <2>2, <2>4 DEF Waits
    <3> QED  BY <1>3, <1>4, <1>11, <2>2, <3>1, <3>2, <3>3 DEF OwnBuffer
  <2>6. NoneLost'
    <3>1. bc'.port = bc'.process
      <4>1. build[b].port \in {None, p} /\ build[b].port # None
        BY <1>1, <1>2, <1>11 DEF OwnBuffer
      <4> QED  BY <1>4, <1>5, <4>1
    <3>2. proc'[bc'.process].app = bc'.app
      BY <1>1, <1>2, <1>4, <1>5, <1>11, <2>1 DEF OwnBuffer
    <3>3. ASSUME NEW q \in Started, proc'[q].alive
          PROVE  q = p \/ proc'[q].replacedBy = proc'[q].app
      <4>1. CASE q = bc.process /\ q # p
        <5>1. q # None
          BY BuilderAssumption DEF Started
        <5>2. proc[q].app = build[b].app
          BY <1>11, <2>1, <4>1, <5>1 DEF NoneLost
        <5> QED  BY <1>4, <4>1, <5>1, <5>2
      <4>2. CASE q # bc.process /\ q # p
        <5>1. proc[q].replacedBy = proc[q].app \/ \E d \in Call : Waits(d) /\ build[d].proc = q
          BY <1>4, <1>11, <3>3, <4>2 DEF NoneLost
        <5>2. ~\E d \in Call : Waits(d) /\ build[d].proc = q
          BY <1>2, <2>1, <4>2
        <5> QED  BY <1>4, <4>2, <5>1, <5>2
      <4> QED  BY <4>1, <4>2
    <3> QED  BY <1>4, <1>5, <3>1, <3>2, <3>3 DEF NoneLost
  <2> QED  BY <2>3, <2>5, <2>6
<1>12. StatusInv'
  <2>1. p # None
    BY <1>4, BuilderAssumption
  <2> QED  BY <1>4, <1>5, <2>1 DEF StatusInv
<1> QED  BY <1>3, <1>9, <1>10, <1>11, <1>12 DEF BuilderInv

-----------------------------------------------------------------------------
(* The theorems                                                            *)

LEMMA InitInv == BuilderInit => BuilderInv
<1> SUFFICES ASSUME BuilderInit PROVE BuilderInv
  OBVIOUS
<1>1. PICK e : e = Earlier
  OBVIOUS
<1>2. e \in Call
  <2>1. \E c \in Call : TRUE
    BY BuilderAssumption
  <2> QED  BY <1>1, <2>1, Zenon DEF Earlier
<1>3. /\ call = [c \in Call |-> [at |-> IF c = e THEN "end" ELSE "none"]]
      /\ overlap = FALSE
  BY <1>1 DEF BuilderInit
<1>4. call \in [Call -> CallType] /\ \A c \in Call : c # e => call[c].at = "none"
  BY <1>3 DEF CallType
<1>5. call[e].at = "end"
  BY <1>2, <1>3
<1>6. CASE Nothing
  <2>1. /\ bc.process = None /\ bc.status = "init" /\ bc \in ControllerType
        /\ callback \in [Call -> Call \cup {None}] /\ \A x \in Call : callback[x] = None
        /\ Started = {} /\ proc \in [Proc -> Process \cup {None}]
    BY <1>6 DEF Nothing, ControllerType, Statuses, Started
  <2>2. build \in [Call -> BuildType] /\ \A c \in Call : build[c].at = "none"
    BY <1>6 DEF Nothing, BuildType
  <2>3. TypeInv
    BY <1>3, <1>4, <2>1, <2>2 DEF TypeInv, ControllerType
  <2>4. NamesInv
    BY <2>1, <2>2 DEF NamesInv, Waits
  <2>5. OneBuild /\ OwnBuffer /\ NoneLost
    BY <2>1, <2>2 DEF OneBuild, OwnBuffer, NoneLost, Underway, Waits
  <2>6. StatusInv
    BY <2>1 DEF StatusInv
  <2> QED  BY <2>3, <2>4, <2>5, <2>6 DEF BuilderInv
<1>7. CASE Running
  <2>1. PICK p, a : p = (CHOOSE q \in Proc : TRUE) /\ a = (CHOOSE x \in App : TRUE)
    OBVIOUS
  <2>2. p \in Proc /\ a \in App
    <3>1. (\E q \in Proc : TRUE) /\ \E x \in App : TRUE
      BY BuilderAssumption
    <3> QED  BY <2>1, <3>1, Zenon
  <2>3. PICK r : r = [app |-> a, alive |-> TRUE, buffer |-> e, told |-> TRUE, watched |-> TRUE, replacedBy |-> None]
    OBVIOUS
  <2>4. r \in Process /\ r.app = a /\ r.buffer = e /\ r.watched
    BY <1>2, <2>2, <2>3 DEF Process
  <2>5. /\ bc = [app |-> a, process |-> p, buffer |-> e, status |-> "running", port |-> p]
        /\ proc = [q \in Proc |-> IF q # p THEN None ELSE r]
        /\ callback = [c \in Call |-> IF c = e THEN c ELSE None]
        /\ build = [c \in Call |-> [at |-> IF c = e THEN "watch" ELSE "none"]]
    BY <1>1, <1>7, <2>1, <2>3, Zenon DEF Running
  <2>6. bc \in ControllerType /\ bc.app = a /\ bc.process = p /\ bc.buffer = e /\ bc.status = "running" /\ bc.port = p
    BY <1>2, <2>2, <2>5 DEF ControllerType, Statuses
  <2>7. r # None /\ p # None /\ e # None
    BY <1>2, <2>2, <2>4, BuilderAssumption
  <2>8. Started = {p} /\ proc[p] = r /\ proc \in [Proc -> Process \cup {None}]
    BY <2>2, <2>4, <2>5, <2>7 DEF Started
  <2>9. callback \in [Call -> Call \cup {None}] /\ \A x \in Call : callback[x] \in {None, x}
    BY <2>5
  <2>10. build \in [Call -> BuildType] /\ build[e].at = "watch" /\ \A c \in Call : c # e => build[c].at = "none"
    BY <1>2, <2>5 DEF BuildType
  <2>11. TypeInv
    BY <1>3, <1>4, <2>6, <2>8, <2>9, <2>10 DEF TypeInv, ControllerType
  <2>12. NamesInv
    BY <1>5, <2>6, <2>7, <2>8, <2>10 DEF NamesInv, Waits
  <2>13. \A c \in Call : ~Underway(c) /\ ~Waits(c)
    BY <2>10 DEF Underway, Waits
  <2>14. OneBuild /\ OwnBuffer /\ NoneLost
    BY <2>4, <2>6, <2>7, <2>8, <2>9, <2>10, <2>13 DEF OneBuild, OwnBuffer, NoneLost, Waits
  <2>15. StatusInv
    BY <2>4, <2>6, <2>7, <2>8 DEF StatusInv
  <2> QED  BY <2>11, <2>12, <2>14, <2>15 DEF BuilderInv
<1> QED  BY <1>6, <1>7 DEF BuilderInit

LEMMA StepInv ==
    ASSUME BuilderInv, [BuilderNext]_builderVars
    PROVE  BuilderInv'
<1>1. ASSUME NEW c \in Call, BeginStart(c) \/ BeginStop(c) PROVE BuilderInv'
  BY <1>1, BeginStartInv, BeginStopInv
<1>2. ASSUME NEW c \in Call, CallStep(c) PROVE BuilderInv'
  BY <1>2, PollInv, StartInv, ResultInv, StopInv DEF CallStep
<1>3. ASSUME NEW b \in Call, BuildStep(b) PROVE BuilderInv'
  BY <1>3, CompileInv, SetLineCallbackInv, ExecInv, GetPortInv, PublishInv, HandleBuildErrorInv
     DEF BuildStep, AfterCompile
<1>4. ASSUME NEW p \in Proc, TellPort(p) \/ WatchEnds(p) \/ Exit(p) PROVE BuilderInv'
  BY <1>4, TellPortInv, WatchEndsInv, ExitInv
<1>5. ASSUME UNCHANGED builderVars PROVE BuilderInv'
  <2>1. bc' = bc /\ callback' = callback /\ proc' = proc /\ call' = call /\ build' = build /\ overlap' = overlap
    BY <1>5 DEF builderVars
  <2>2. (\A b \in Call : (Waits(b)' <=> Waits(b)) /\ (Underway(b)' <=> Underway(b))) /\ Started' = Started
    BY <2>1 DEF Waits, Underway, Started
  <2>3. TypeInv'
    BY <2>1 DEF BuilderInv, TypeInv
  <2>4. NamesInv'
    BY <2>1, <2>2 DEF BuilderInv, NamesInv
  <2>5. OneBuild => OneBuild'
    BY <2>1, <2>2 DEF OneBuild
  <2>6. OwnBuffer => OwnBuffer'
    BY <2>1 DEF OwnBuffer, Waits, Started
  <2>7. NoneLost => NoneLost'
    BY <2>1, <2>2 DEF NoneLost
  <2>8. StatusInv'
    BY <2>1, <2>2 DEF BuilderInv, StatusInv
  <2> QED  BY <2>1, <2>3, <2>4, <2>5, <2>6, <2>7, <2>8 DEF BuilderInv
<1> QED  BY <1>1, <1>2, <1>3, <1>4, <1>5 DEF BuilderNext

\* The controller, its callers, builds and processes are what the code makes
\* of them: the invariant holds in every state.
THEOREM BuilderInductive == BuilderSpec => []BuilderInv
BY InitInv, StepInv, PTL DEF BuilderSpec

THEOREM BuilderTypeCorrect == BuilderSpec => []BuilderTypeOK
<1>1. BuilderInv => BuilderTypeOK
  <2> SUFFICES ASSUME BuilderInv PROVE BuilderTypeOK
    OBVIOUS
  <2>1. TypeInv
    BY DEF BuilderInv
  <2>2. \A p \in Started : proc[p] \in Process
    BY <2>1, StartedFields
  <2> QED  BY <2>1, <2>2 DEF BuilderTypeOK, TypeInv, ControllerType
<1> QED  BY <1>1, BuilderInductive, PTL

\* For any number of callers, apps and processes, whenever no build is under
\* way: a status of running has a process that runs, one of stopped has none,
\* and one of building was left by a build that panicked; and unless a build
\* began while another was under way, the port is the process's own and only a
\* rebuild of the same app leaves the process of the build before it behind.
THEOREM BuilderSettled == BuilderSpec => []SettledIsTrue
<1>1. BuilderInv => SettledIsTrue
  <2> SUFFICES ASSUME BuilderInv, Quiet PROVE SettledIsTrue
    BY DEF SettledIsTrue
  <2>1. NamesInv /\ StatusInv
    BY DEF BuilderInv
  <2>2. \A b \in Call : ~Underway(b) /\ ~Waits(b)
    BY DEF Quiet, Underway, Waits
  <2>3. bc.status = "running" => Alive(bc.process)
    BY <2>1 DEF NamesInv, StatusInv, Quiet, Alive
  <2>4. bc.status = "building" => \E b \in Call : build[b].at = "panic"
    BY <2>1, <2>2 DEF StatusInv
  <2>5. ASSUME ~overlap
        PROVE  /\ bc.status = "running" => bc.port = bc.process
               /\ \A p \in Started : Alive(p) => p = bc.process \/ proc[p].replacedBy = proc[p].app
    <3>1. NoneLost
      BY <2>5 DEF BuilderInv
    <3> QED  BY <2>2, <3>1 DEF NoneLost, Alive
  <2> QED  BY <2>1, <2>3, <2>4, <2>5 DEF NamesInv, SettledIsTrue
<1> QED  BY <1>1, BuilderInductive, PTL

=============================================================================
