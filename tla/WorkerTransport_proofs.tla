------------------------ MODULE WorkerTransport_proofs ------------------------
(* Theorems about WorkerTransport for any identities, interval and timeouts. *)
(* IInv is inductive: a call that polls holds an execution of its own, and a *)
(* call that has not been posted has been accepted by no one.                *)
EXTENDS WorkerTransport, TLAPS

\* The initial state satisfies the invariant.
LEMMA InitIInv == Init => IInv
  <1> USE TransportAssumption
  <1> SUFFICES ASSUME Init PROVE IInv OBVIOUS
  <1>1. TypeOK BY DEF Init, TypeOK, NoResponse, Response
  <1>2. OvershootBounded BY DEF Init, OvershootBounded
  <1> QED BY <1>1, <1>2 DEF Init, IInv, TimeoutIsHonest, TimingOfTheAnswer, SubmittedOnce

\* How long a poll may take: the part of it beyond the deadline is bounded
\* by either request timeout (_bounded_request_timeout).
LEMMA PollDuration ==
    ASSUME NEW t \in Nat, t < PollingTimeout, NEW d \in 0..(BoundedRequestTimeout(PollingTimeout - t) + Lag)
    PROVE  /\ t + d \in Nat
           /\ t + d <= PollingTimeout + ConnectTimeout + Lag
           /\ t + d <= PollingTimeout + ReadTimeout + Lag
  <1> DEFINE remaining == PollingTimeout - t
             AtMost(x) == IF x < remaining THEN x ELSE remaining
  <1>1. remaining \in Nat /\ t + remaining = PollingTimeout BY TransportAssumption
  <1>2. AtMost(ConnectTimeout) \in Nat /\ AtMost(ConnectTimeout) <= ConnectTimeout
        /\ AtMost(ConnectTimeout) <= remaining
    BY <1>1, TransportAssumption
  <1>3. AtMost(ReadTimeout) \in Nat /\ AtMost(ReadTimeout) <= ReadTimeout
        /\ AtMost(ReadTimeout) <= remaining
    BY <1>1, TransportAssumption
  <1>4. d \in Nat /\ d <= AtMost(ConnectTimeout) + AtMost(ReadTimeout) + Lag
    BY <1>2, <1>3, TransportAssumption DEF BoundedRequestTimeout
  <1> QED
    <2> HIDE DEF AtMost, remaining
    <2> QED BY <1>1, <1>2, <1>3, <1>4, TransportAssumption

\* What RecordServerTiming keeps is a header.
LEMMA HeaderType ==
    ASSUME TypeOK, NEW r \in Response, RecordServerTiming(r)
    PROVE  header' \in Execution \cup {None}
  BY DEF TypeOK, Response, RecordServerTiming

\* What the worker answers about an execution is a response; the executions
\* it names belong to the same call.
LEMMA AnswersOwned ==
    ASSUME NEW e \in Execution, NEW r \in Answers(e)
    PROVE  /\ r \in Response
           /\ Pending(r) => r.execution \in Execution /\ owner[r.execution] = owner[e]
           /\ Succeeds(r) => r.execution = e
  <1>1. CASE r \in [kind : {"running"}, header : {None},
                    execution : {f \in Execution : owner[f] = owner[e] /\ status[f] = "running"}]
    BY <1>1 DEF Response, Pending, Succeeds
  <1>2. CASE r \in [kind : {"binary", "completed"}, execution : {e}, header : {e, None}]
    BY <1>2 DEF Response, Pending, Succeeds
  <1>3. CASE r \in [kind : {"empty", "error", "bad", "lost"}, execution : {None}, header : {e, None}]
    BY <1>3 DEF Response, Pending, Succeeds
  <1> QED BY <1>1, <1>2, <1>3 DEF Answers

-----------------------------------------------------------------------------
(* The steps. *)

LEMMA InvokePreserves == ASSUME IInv, NEW c \in Call, Invoke(c) PROVE IInv'
  <1> USE TransportAssumption
  <1>1. TypeOK' BY DEF IInv, TypeOK, Invoke, NoResponse, Response
  <1>2. OvershootBounded' BY DEF Invoke, OvershootBounded
  <1> QED BY <1>1, <1>2 DEF IInv, Invoke, TimeoutIsHonest, TimingOfTheAnswer, SubmittedOnce

\* The post that the worker accepts as execution e: only then does e get an
\* owner, and e was free before.
LEMMA PostAcceptedPreserves == ASSUME IInv, NEW e \in Execution, PostAccepted(e) PROVE IInv'
  <1> USE TransportAssumption
  <1>1. PICK s \in {"running", "done"}, r \in Response :
            /\ r.execution = e /\ RecordServerTiming(r) /\ AfterPost(r)
            /\ status' = [status EXCEPT ![e] = s]
    BY DEF PostAccepted, Response
  <1>2. /\ phase = "posting" /\ status[e] = "none" /\ submissions = 0 /\ outcome = "none"
        /\ owner' = [owner EXCEPT ![e] = call] /\ submissions' = submissions + 1
        /\ call' = call /\ binaryNeeded' = binaryNeeded
    BY DEF PostAccepted, IInv
  <1>3. TypeOK BY DEF IInv
  <1>4. header' \in Execution \cup {None} BY <1>1, <1>3, HeaderType
  <1>5. /\ status' \in [Execution -> {"none", "running", "done", "moved"}]
        /\ owner' \in [Execution -> Call \cup {None}] /\ owner'[e] = call'
        /\ \A f \in Execution : status'[f] = "none" <=> owner'[f] = None
        /\ submissions' = 1
    BY <1>1, <1>2, <1>3 DEF TypeOK, IInv
  <1>6. CASE Pending(r) /\ StartPolling(r)
    <2>1. TypeOK' BY <1>1, <1>2, <1>3, <1>4, <1>5, <1>6 DEF TypeOK, StartPolling
    <2>2. OvershootBounded' BY <1>6 DEF StartPolling, OvershootBounded
    <2> QED BY <1>1, <1>2, <1>5, <1>6, <2>1, <2>2
         DEF StartPolling, IInv, TimeoutIsHonest, TimingOfTheAnswer, SubmittedOnce
  <1>7. CASE Succeeds(r) /\ Finish(r) /\ UNCHANGED <<executionId, now>>
    <2>1. TypeOK' BY <1>1, <1>2, <1>3, <1>4, <1>5, <1>7 DEF TypeOK, Finish
    <2>2. OvershootBounded' BY <1>7 DEF IInv, OvershootBounded
    <2>3. header' = r.header BY <1>1, <1>7 DEF RecordServerTiming, Succeeds
    <2> QED BY <1>1, <1>2, <1>5, <1>7, <2>1, <2>2, <2>3
         DEF Finish, IInv, TimeoutIsHonest, TimingOfTheAnswer, SubmittedOnce
  <1>8. CASE Raise("raised") /\ UNCHANGED <<executionId, now>>
    <2>1. TypeOK' BY <1>1, <1>2, <1>3, <1>4, <1>5, <1>8 DEF TypeOK, Raise
    <2>2. OvershootBounded' BY <1>8 DEF IInv, OvershootBounded
    <2> QED BY <1>1, <1>2, <1>5, <1>8, <2>1, <2>2
         DEF Raise, IInv, TimeoutIsHonest, TimingOfTheAnswer, SubmittedOnce
  <1> QED BY <1>1, <1>6, <1>7, <1>8 DEF AfterPost

LEMMA PostNotAcceptedPreserves == ASSUME IInv, PostNotAccepted PROVE IInv'
  <1> USE TransportAssumption
  <1>1. PICK r \in Response :
            r.kind \in {"empty", "error", "bad", "lost"} /\ AfterPost(r) /\ RecordServerTiming(r)
    BY DEF PostNotAccepted, NoResponse, Response
  <1>2. Raise("raised") /\ UNCHANGED <<executionId, now>>
    BY <1>1 DEF AfterPost, Pending, Succeeds
  <1>3. header' \in Execution \cup {None} BY <1>1, HeaderType DEF IInv
  <1>4. /\ phase = "posting" /\ outcome = "none"
        /\ UNCHANGED <<call, binaryNeeded, status, owner, submissions>>
    BY DEF PostNotAccepted, workerVars, IInv
  <1>5. TypeOK' BY <1>2, <1>3, <1>4 DEF IInv, TypeOK, Raise
  <1>6. OvershootBounded' BY <1>2 DEF IInv, OvershootBounded
  <1> QED BY <1>2, <1>4, <1>5, <1>6 DEF Raise, IInv, TimeoutIsHonest, TimingOfTheAnswer, SubmittedOnce

LEMMA GiveUpPreserves == ASSUME IInv, GiveUp PROVE IInv'
  <1>1. TypeOK' BY DEF IInv, TypeOK, GiveUp, Raise, workerVars
  <1>2. OvershootBounded' BY DEF IInv, GiveUp, OvershootBounded
  <1> QED BY <1>1, <1>2
       DEF GiveUp, Raise, workerVars, IInv, TimeoutIsHonest, TimingOfTheAnswer, SubmittedOnce

LEMMA SleepPreserves == ASSUME IInv, Sleep PROVE IInv'
  <1> USE TransportAssumption
  <1>1. now' \in Nat /\ now' <= PollingTimeout + Lag
    <2>1. PICK lag \in 0..Lag : \/ now' = now + (PollingInterval + lag) /\ PollingInterval < PollingTimeout - now
                                \/ now' = now + ((PollingTimeout - now) + lag)
      BY DEF Sleep, SleepTimes
    <2> QED BY <2>1 DEF Sleep, IInv, TypeOK
  <1>2. TypeOK' BY <1>1 DEF IInv, TypeOK, Sleep, workerVars
  <1>3. OvershootBounded' BY <1>1 DEF OvershootBounded
  <1> QED BY <1>2, <1>3
       DEF Sleep, workerVars, IInv, TimeoutIsHonest, TimingOfTheAnswer, SubmittedOnce

LEMMA PollPreserves == ASSUME IInv, Poll PROVE IInv'
  <1> USE TransportAssumption
  <1>1. /\ phase = "polling" /\ outcome = "none" /\ now \in Nat /\ now < PollingTimeout
        /\ executionId \in Execution /\ owner[executionId] = call
        /\ UNCHANGED <<call, binaryNeeded, status, owner, submissions>>
    BY DEF Poll, workerVars, IInv, TypeOK
  <1>2. now' \in Nat /\ OvershootBounded'
    <2>1. PICK d \in 0..(BoundedRequestTimeout(PollingTimeout - now) + Lag) : now' = now + d BY DEF Poll
    <2> QED BY <1>1, <2>1, PollDuration DEF OvershootBounded
  <1>3. PICK r \in Answers(executionId) : RecordServerTiming(r) /\ AfterPoll(r) BY DEF Poll
  <1>4. /\ r \in Response
        /\ Pending(r) => r.execution \in Execution /\ owner[r.execution] = call
        /\ Succeeds(r) => r.execution = executionId
    BY <1>1, <1>3, AnswersOwned
  <1>5. header' \in Execution \cup {None} BY <1>3, <1>4, HeaderType DEF IInv
  <1>6. CASE now' >= PollingTimeout /\ Raise("timed_out") /\ UNCHANGED executionId
    <2>1. TypeOK' BY <1>1, <1>2, <1>5, <1>6 DEF IInv, TypeOK, Raise
    <2> QED BY <1>1, <1>2, <1>6, <2>1 DEF Raise, IInv, TimeoutIsHonest, TimingOfTheAnswer, SubmittedOnce
  <1>7. CASE phase' = "waiting" /\ UNCHANGED <<executionId, timing, outcome, answer>>
    <2>1. TypeOK' BY <1>1, <1>2, <1>5, <1>7 DEF IInv, TypeOK
    <2> QED BY <1>1, <1>2, <1>7, <2>1 DEF IInv, TimeoutIsHonest, TimingOfTheAnswer, SubmittedOnce
  <1>8. CASE Pending(r) /\ phase' = "waiting" /\ executionId' = r.execution
             /\ UNCHANGED <<timing, outcome, answer>>
    <2>1. TypeOK' BY <1>1, <1>2, <1>4, <1>5, <1>8 DEF IInv, TypeOK
    <2> QED BY <1>1, <1>2, <1>4, <1>8, <2>1 DEF IInv, TimeoutIsHonest, TimingOfTheAnswer, SubmittedOnce
  <1>9. CASE Succeeds(r) /\ Finish(r) /\ UNCHANGED executionId
    <2>1. TypeOK' BY <1>1, <1>2, <1>4, <1>5, <1>9 DEF IInv, TypeOK, Finish
    <2>2. header' = r.header BY <1>3, <1>9 DEF RecordServerTiming, Succeeds
    <2> QED BY <1>1, <1>2, <1>4, <1>9, <2>1, <2>2
         DEF Finish, IInv, TimeoutIsHonest, TimingOfTheAnswer, SubmittedOnce
  <1>10. CASE Raise("raised") /\ UNCHANGED executionId
    <2>1. TypeOK' BY <1>1, <1>2, <1>5, <1>10 DEF IInv, TypeOK, Raise
    <2> QED BY <1>1, <1>2, <1>10, <2>1 DEF Raise, IInv, TimeoutIsHonest, TimingOfTheAnswer, SubmittedOnce
  <1> QED BY <1>3, <1>6, <1>7, <1>8, <1>9, <1>10 DEF AfterPoll

\* The worker's steps leave the executions of the call in progress to it.
LEMMA WorkerStepPreserves == ASSUME IInv, WorkerStep PROVE IInv'
  <1> USE TransportAssumption
  <1>1. PICK e \in Execution : Complete(e) \/ Forget(e) \/ \E f \in Execution : Resume(e, f)
    BY DEF WorkerStep
  <1>2. UNCHANGED <<phase, call, binaryNeeded, executionId, now, header, timing, outcome, answer, submissions>>
    BY <1>1 DEF Complete, Forget, Resume, clientVars
  <1>3. /\ status' \in [Execution -> {"none", "running", "done", "moved"}]
        /\ owner' \in [Execution -> Call \cup {None}]
        /\ \A f \in Execution : owner[f] = call => owner'[f] = call
        /\ \A f \in Execution : status'[f] = "none" <=> owner'[f] = None
    <2>0. TypeOK /\ \A f \in Execution : status[f] = "none" <=> owner[f] = None BY DEF IInv
    <2>1. CASE Complete(e) BY <2>0, <2>1 DEF Complete, TypeOK
    <2>2. CASE Forget(e) BY <2>0, <2>2 DEF Forget, TypeOK
    <2>3. CASE \E f \in Execution : Resume(e, f) BY <2>0, <2>3 DEF Resume, TypeOK
    <2> QED BY <1>1, <2>1, <2>2, <2>3
  <1>4. TypeOK' BY <1>2, <1>3 DEF IInv, TypeOK
  <1>5. OvershootBounded' BY <1>2 DEF IInv, OvershootBounded
  <1> QED BY <1>2, <1>3, <1>4, <1>5 DEF IInv, TimeoutIsHonest, TimingOfTheAnswer, SubmittedOnce

\* Every step preserves the invariant.
LEMMA NextIInv == IInv /\ [Next]_vars => IInv'
  <1> SUFFICES ASSUME IInv, [Next]_vars PROVE IInv' OBVIOUS
  <1>1. CASE \E c \in Call : Invoke(c) BY <1>1, InvokePreserves
  <1>2. CASE ClientStep
    BY <1>2, PostAcceptedPreserves, PostNotAcceptedPreserves, GiveUpPreserves, SleepPreserves, PollPreserves
    DEF ClientStep
  <1>3. CASE WorkerStep BY <1>3, WorkerStepPreserves
  <1>4. CASE UNCHANGED vars
    BY <1>4 DEF vars, clientVars, workerVars, IInv, TypeOK, OvershootBounded, TimeoutIsHonest,
                TimingOfTheAnswer, SubmittedOnce
  <1> QED BY <1>1, <1>2, <1>3, <1>4 DEF Next

\* The invariant holds in every reachable state.
THEOREM Invariance == Spec => []IInv
  BY InitIInv, NextIInv, PTL DEF Spec

\* Every variable of the client and the worker keeps its type.
THEOREM TransportTypes == Spec => []TypeOK
  <1>1. IInv => TypeOK BY DEF IInv
  <1> QED BY <1>1, Invariance, PTL

\* A call overshoots its polling deadline by at most the smaller of the two
\* request timeouts and the lag, whatever the intervals and timeouts are.
THEOREM DeadlineOvershoot == Spec => []OvershootBounded
  <1>1. IInv => OvershootBounded BY DEF IInv
  <1> QED BY <1>1, Invariance, PTL

\* PollingTimeoutError is raised only after polling_timeout has passed.
THEOREM HonestTimeouts == Spec => []TimeoutIsHonest
  <1>1. IInv => TimeoutIsHonest BY DEF IInv
  <1> QED BY <1>1, Invariance, PTL

\* A call returns the result of one of its own executions.
THEOREM OwnAnswers == Spec => []OwnAnswer
  <1>1. IInv => OwnAnswer BY DEF IInv, OwnAnswer
  <1> QED BY <1>1, Invariance, PTL

\* A call's action is accepted at most once by the worker.
THEOREM SingleSubmission == Spec => []SubmittedOnce
  <1>1. IInv => SubmittedOnce BY DEF IInv
  <1> QED BY <1>1, Invariance, PTL

\* The timing kept after a call that returned is that of its answer.
THEOREM TimingsMatchAnswers == Spec => []TimingOfTheAnswer
  <1>1. IInv => TimingOfTheAnswer BY DEF IInv
  <1> QED BY <1>1, Invariance, PTL
=============================================================================
