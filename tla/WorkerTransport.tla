--------------------------- MODULE WorkerTransport ---------------------------
(* One query client calling its worker (query transport/worker.py and the    *)
(* gateway client/worker.py): a call posts its action once; if the worker    *)
(* answers RUNNING, the client polls for the result until a deadline.  Time  *)
(* is counted from the moment the deadline is set, in units the constants    *)
(* share.                                                                    *)
(*                                                                           *)
(* The worker is external: it runs an execution for every post it accepts,   *)
(* may resume one under another id, and its answers may be lost or late.     *)
EXTENDS Naturals, FiniteSets

CONSTANTS
    Call,              \* identities of calls; reused when the worker forgot them
    Execution,         \* execution ids of the worker
    None,              \* no execution, no Server-Timing header
    PollingInterval, PollingTimeout, ConnectTimeout, ReadTimeout,
    Lag                \* how much longer a sleep or a timeout may take

ASSUME TransportAssumption ==
    /\ None \notin Execution \cup Call
    /\ PollingInterval \in Nat \ {0} /\ PollingTimeout \in Nat \ {0}
    /\ ConnectTimeout \in Nat \ {0} /\ ReadTimeout \in Nat \ {0} /\ Lag \in Nat

VARIABLES
    phase,         \* idle, posting, waiting (between polls), polling
    call,          \* the call in progress, or the last one
    binaryNeeded,  \* whether the gateway requires a binary result of it
    executionId,   \* execution_id of _poll_for_result
    now,           \* time since the deadline was set
    header,        \* _server_timing_header
    timing,        \* the header in self.timing
    outcome,       \* how the last call ended
    answer,        \* the response it returned
    status, owner, \* at the worker: state and call of each execution
    submissions    \* at the worker: how often the current call was accepted

clientVars == <<phase, call, binaryNeeded, executionId, now, header, timing, outcome, answer>>
workerVars == <<status, owner, submissions>>
vars == <<clientVars, workerVars>>

-----------------------------------------------------------------------------
(* Responses.  "lost" is a request that times out in the transport, every    *)
(* other failure of a request or of the response's form is "bad".            *)
Response == [kind : {"binary", "completed", "running", "empty", "error", "bad", "lost"},
             execution : Execution \cup {None}, header : Execution \cup {None}]

NoResponse == [kind |-> "lost", execution |-> None, header |-> None]

Pending(r) == r.kind = "running"
Succeeds(r) == r.kind \in {"binary", "completed"}

\* What the worker may answer about execution e.
Answers(e) ==
    [kind : {"running"}, header : {None},
     execution : {f \in Execution : owner[f] = owner[e] /\ status[f] = "running"}]
    \cup (IF status[e] = "done"
          THEN [kind : {"binary", "completed"}, execution : {e}, header : {e, None}] ELSE {})
    \cup [kind : {"empty", "error", "bad", "lost"}, execution : {None}, header : {e, None}]

\* An error or a malformed response raises; only complete ones are timed.
RecordServerTiming(r) ==
    header' = IF r.kind \in {"binary", "completed", "empty"} THEN r.header ELSE header

\* (Slip: polls use the full request timeout.)
FullRequestTimeout(remaining) == ConnectTimeout + ReadTimeout

BoundedRequestTimeout(remaining) ==
    LET AtMost(t) == IF t < remaining THEN t ELSE remaining
    IN  AtMost(ConnectTimeout) + AtMost(ReadTimeout)

\* The time sleep(min(polling_interval, remaining)) takes.
SleepTimes ==
    LET remaining == PollingTimeout - now
        slept == IF PollingInterval < remaining THEN PollingInterval ELSE remaining
    IN  {slept + lag : lag \in 0..Lag}

-----------------------------------------------------------------------------
Init ==
    /\ phase = "idle" /\ call \in Call /\ binaryNeeded = FALSE
    /\ executionId = None /\ now = 0 /\ header = None /\ timing = None
    /\ outcome = "none" /\ answer = NoResponse
    /\ status = [e \in Execution |-> "none"]
    /\ owner = [e \in Execution |-> None]
    /\ submissions = 0

Invoke(c) ==
    /\ phase = "idle" /\ \A e \in Execution : owner[e] # c
    /\ phase' = "posting" /\ call' = c /\ binaryNeeded' \in BOOLEAN
    /\ header' = None /\ outcome' = "none" /\ answer' = NoResponse
    /\ executionId' = None /\ now' = 0 /\ submissions' = 0
    /\ UNCHANGED <<timing, status, owner>>

\* The call ends with an exception; self.timing stays as it was.
Raise(how) == phase' = "idle" /\ outcome' = how /\ UNCHANGED <<timing, answer>>

\* The call has its response: invoke sets self.timing, then the gateway
\* refuses a response without content where it needs one.
Finish(r) ==
    /\ phase' = "idle" /\ timing' = header'
    /\ IF binaryNeeded /\ r.kind # "binary"
       THEN outcome' = "raised" /\ UNCHANGED answer
       ELSE outcome' = "returned" /\ answer' = r

\* (Slip: polling goes on for the execution last started at the worker.)
StartPollingLatest(r) ==
    /\ phase' = "waiting" /\ now' = 0
    /\ executionId' \in {e \in Execution : status[e] = "running" \/ e = r.execution}
    /\ UNCHANGED <<timing, outcome, answer>>

StartPolling(r) ==
    /\ phase' = "waiting" /\ executionId' = r.execution /\ now' = 0
    /\ UNCHANGED <<timing, outcome, answer>>

\* (Slip: a post that timed out is sent again.)
AfterPostRetried(r) ==
    \/ r.kind = "lost" /\ UNCHANGED <<phase, executionId, now, timing, outcome, answer>>
    \/ Pending(r) /\ StartPolling(r)
    \/ Succeeds(r) /\ Finish(r) /\ UNCHANGED <<executionId, now>>
    \/ r.kind \in {"empty", "error", "bad"} /\ Raise("raised") /\ UNCHANGED <<executionId, now>>

\* Whatever the response to the post, the client does not post again.
AfterPost(r) ==
    \/ Pending(r) /\ StartPolling(r)
    \/ Succeeds(r) /\ Finish(r) /\ UNCHANGED <<executionId, now>>
    \/ ~Pending(r) /\ ~Succeeds(r) /\ Raise("raised") /\ UNCHANGED <<executionId, now>>

PostAccepted(e) ==
    /\ phase = "posting" /\ status[e] = "none"
    /\ \E s \in {"running", "done"}, k \in {"binary", "completed", "running", "empty", "error", "bad", "lost"},
          h \in {e, None} :
        LET r == [kind |-> k, execution |-> e, header |-> h]
        IN  /\ Succeeds(r) => s = "done"
            /\ status' = [status EXCEPT ![e] = s]
            /\ RecordServerTiming(r) /\ AfterPost(r)
    /\ owner' = [owner EXCEPT ![e] = call] /\ submissions' = submissions + 1
    /\ UNCHANGED <<call, binaryNeeded>>

PostNotAccepted ==
    /\ phase = "posting"
    /\ \E k \in {"empty", "error", "bad", "lost"} :
        LET r == [NoResponse EXCEPT !.kind = k] IN RecordServerTiming(r) /\ AfterPost(r)
    /\ UNCHANGED <<call, binaryNeeded, workerVars>>

\* Both checks of the time remaining raise PollingTimeoutError.
GiveUp ==
    /\ phase \in {"waiting", "polling"} /\ now >= PollingTimeout
    /\ Raise("timed_out")
    /\ UNCHANGED <<call, binaryNeeded, executionId, now, header, workerVars>>

Sleep ==
    /\ phase = "waiting" /\ now < PollingTimeout
    /\ \E d \in SleepTimes : now' = now + d
    /\ phase' = "polling"
    /\ UNCHANGED <<call, binaryNeeded, executionId, header, timing, outcome, answer, workerVars>>

\* (Slip: the first poll that times out ends the call.)
AfterPollImpatient(r) ==
    \/ r.kind = "lost" /\ Raise("timed_out") /\ UNCHANGED executionId
    \/ Pending(r) /\ phase' = "waiting" /\ executionId' = r.execution
       /\ UNCHANGED <<timing, outcome, answer>>
    \/ Succeeds(r) /\ Finish(r) /\ UNCHANGED executionId
    \/ r.kind \in {"empty", "error", "bad"} /\ Raise("raised") /\ UNCHANGED executionId

\* A poll that times out in the transport is repeated until the deadline; an
\* answer is accepted even when it comes after the deadline.
AfterPoll(r) ==
    \/ r.kind = "lost" /\ now' >= PollingTimeout /\ Raise("timed_out") /\ UNCHANGED executionId
    \/ r.kind = "lost" /\ now' < PollingTimeout /\ phase' = "waiting"
       /\ UNCHANGED <<executionId, timing, outcome, answer>>
    \/ Pending(r) /\ phase' = "waiting" /\ executionId' = r.execution
       /\ UNCHANGED <<timing, outcome, answer>>
    \/ Succeeds(r) /\ Finish(r) /\ UNCHANGED executionId
    \/ r.kind \in {"empty", "error", "bad"} /\ Raise("raised") /\ UNCHANGED executionId

\* (Slip: a RUNNING answer starts the polling anew, with a new deadline.)
PollAnew ==
    /\ phase = "polling" /\ now < PollingTimeout
    /\ \E r \in Answers(executionId) :
        /\ RecordServerTiming(r)
        /\ \/ Pending(r) /\ StartPolling(r)
           \/ ~Pending(r) /\ now' = PollingTimeout /\ AfterPoll(r)
    /\ UNCHANGED <<call, binaryNeeded, workerVars>>

Poll ==
    /\ phase = "polling" /\ now < PollingTimeout
    /\ \E d \in 0..(BoundedRequestTimeout(PollingTimeout - now) + Lag) : now' = now + d
    /\ \E r \in Answers(executionId) : RecordServerTiming(r) /\ AfterPoll(r)
    /\ UNCHANGED <<call, binaryNeeded, workerVars>>

-----------------------------------------------------------------------------
(* The worker: executions end, are resumed under a new id (the old one is    *)
(* answered with it), or are forgotten once no client needs them.            *)
Complete(e) ==
    /\ status[e] = "running" /\ status' = [status EXCEPT ![e] = "done"]
    /\ UNCHANGED <<clientVars, owner, submissions>>

Resume(e, f) ==
    /\ status[e] = "running" /\ status[f] = "none"
    /\ status' = [status EXCEPT ![e] = "moved", ![f] = "running"]
    /\ owner' = [owner EXCEPT ![f] = owner[e]]
    /\ UNCHANGED <<clientVars, submissions>>

Forget(e) ==
    /\ owner[e] \notin {call, None} /\ e # timing
    /\ status' = [status EXCEPT ![e] = "none"] /\ owner' = [owner EXCEPT ![e] = None]
    /\ UNCHANGED <<clientVars, submissions>>

ClientStep == (\E e \in Execution : PostAccepted(e)) \/ PostNotAccepted \/ GiveUp \/ Sleep \/ Poll

WorkerStep == \E e \in Execution : Complete(e) \/ Forget(e) \/ \E f \in Execution : Resume(e, f)

Next == (\E c \in Call : Invoke(c)) \/ ClientStep \/ WorkerStep

Spec == Init /\ [][Next]_vars

\* The client's thread runs on: no step of a call waits for the worker beyond
\* the timeout of its request.
FairSpec == Spec /\ WF_vars(ClientStep)

-----------------------------------------------------------------------------
\* Each variable has its type.
TypeOK ==
    /\ phase \in {"idle", "posting", "waiting", "polling"}
    /\ call \in Call /\ binaryNeeded \in BOOLEAN
    /\ executionId \in Execution \cup {None} /\ now \in Nat
    /\ header \in Execution \cup {None} /\ timing \in Execution \cup {None}
    /\ outcome \in {"none", "returned", "raised", "timed_out"}
    /\ answer \in Response
    /\ status \in [Execution -> {"none", "running", "done", "moved"}]
    /\ owner \in [Execution -> Call \cup {None}]
    /\ submissions \in Nat

\* A call overshoots its polling deadline by no more than the smaller of the
\* two request timeouts, although a poll may spend both of them: each is cut
\* to the time remaining when the poll is sent (_bounded_request_timeout).
OvershootBounded ==
    /\ now <= PollingTimeout + ConnectTimeout + Lag
    /\ now <= PollingTimeout + ReadTimeout + Lag

\* PollingTimeoutError says that the action "did not finish within" the
\* polling timeout: it is raised only when that time has passed.
TimeoutIsHonest == outcome = "timed_out" => now >= PollingTimeout

\* What a call returns was computed for that call, whatever executions of
\* earlier, abandoned calls still run at the worker and however often the
\* worker answers with another execution id.
OwnAnswer == outcome = "returned" => owner[answer.execution] = call

\* One call runs its action at most once: neither a post that timed out nor a
\* poll is ever turned into a second post.
SubmittedOnce == submissions <= 1

\* When a call has returned, self.timing holds what the response that
\* completed it reported, not what an earlier response or call did.
TimingOfTheAnswer == outcome = "returned" => timing = answer.header

\* Every call ends: an answer, an error, or the deadline.
CallEnds == phase # "idle" ~> phase = "idle"

\* The inductive invariant: besides the above, the execution polled for is
\* one of the call in progress.
IInv ==
    /\ TypeOK /\ OvershootBounded /\ TimeoutIsHonest /\ TimingOfTheAnswer
    /\ phase \in {"waiting", "polling"} => executionId \in Execution /\ owner[executionId] = call
    /\ outcome = "returned" => answer.execution \in Execution /\ owner[answer.execution] = call
    /\ phase # "idle" => outcome = "none"
    /\ SubmittedOnce /\ (phase = "posting" => submissions = 0)
    /\ \A e \in Execution : status[e] = "none" <=> owner[e] = None
=============================================================================
