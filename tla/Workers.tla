------------------------------- MODULE Workers -------------------------------
(* Worker sessions of one model (studio resources/workers.py): clients that  *)
(* look for a ready worker, replace those that are not, start one and wait   *)
(* for it, use it inside running(), stop it, give up, fail and die.          *)
(*                                                                           *)
(* The backend is external: a session is started, comes up, and ends when it *)
(* is stopped or dies.  A request may fail with or without having had its    *)
(* effect.                                                                   *)
EXTENDS Naturals

CONSTANTS
    Client, Session,
    NoClient, NoSession,
    Nameless,       \* sessions whose responses carry no workerSessionId
    Op,             \* the calls each client makes, some of Operation
    MaxPolls        \* timeout / poll_interval of start

Operation == {"get_or_start", "start", "running", "running_stop"}
Status == {"none", "starting", "up", "ended"}
Outcome == {"none", "ready", "timed_out", "timed_out_unstopped", "raised", "left", "left_stopped"}

ASSUME WorkersAssumption ==
    /\ NoSession \notin Session /\ NoClient \notin Client
    /\ Nameless \subseteq Session /\ Op \in [Client -> SUBSET Operation]
    /\ MaxPolls \in Nat

VARIABLES
    pc,         \* idle, list, choose, start, wait, abandon, use
    op,         \* the call in progress, or the last one
    held,       \* the session id the client has
    seen,       \* the status it was last told of it
    found,      \* active workers listed, not yet looked at: [session, status]
    waited,     \* polls of start so far
    outcome,    \* how the last call ended: ready, timed_out, raised, left, ...
    status,     \* at the backend: none, starting, up, ended
    startedBy   \* at the backend: who asked for the session

clientVars == <<pc, op, held, seen, found, waited, outcome>>
vars == <<clientVars, status, startedBy>>

Running(s) == status[s] \in {"starting", "up"}

\* The id a response about s carries.
Id(s) == IF s \in Nameless THEN NoSession ELSE s

-----------------------------------------------------------------------------
Goto(c, step) == pc' = [pc EXCEPT ![c] = step]

Locals(c, o, id) ==
    /\ op' = [op EXCEPT ![c] = o] /\ held' = [held EXCEPT ![c] = id]
    /\ seen' = [seen EXCEPT ![c] = "none"] /\ found' = [found EXCEPT ![c] = {}]
    /\ waited' = [waited EXCEPT ![c] = 0]

\* The call ends; of its locals only the session it was given survives.
End(c, how, id) ==
    Goto(c, "idle") /\ outcome' = [outcome EXCEPT ![c] = how] /\ Locals(c, "none", id)

\* The request fails, and so does the call.
Raise(c) == End(c, "raised", NoSession)

\* A worker is returned, to the body of running() or to the caller.
Return(c, id) ==
    \/ /\ op[c] \in {"running", "running_stop"} /\ Goto(c, "use")
       /\ outcome' = [outcome EXCEPT ![c] = "ready"] /\ Locals(c, op[c], id)
    \/ op[c] \notin {"running", "running_stop"} /\ End(c, "ready", id)

\* stop(model_id, session_id), as the backend carries it out.
StopSession(s) ==
    status' = [status EXCEPT ![s] = IF Running(s) THEN "ended" ELSE @]

\* A stop that raises may still have stopped the session.
StopFails(s) == StopSession(s) \/ UNCHANGED status

-----------------------------------------------------------------------------
Init ==
    /\ pc = [c \in Client |-> "idle"] /\ op = [c \in Client |-> "none"]
    /\ held = [c \in Client |-> NoSession] /\ seen = [c \in Client |-> "none"]
    /\ found = [c \in Client |-> {}] /\ waited = [c \in Client |-> 0]
    /\ outcome = [c \in Client |-> "none"]
    /\ status = [s \in Session |-> "none"] /\ startedBy = [s \in Session |-> NoClient]

Call(c, o) ==
    /\ pc[c] = "idle" /\ Goto(c, IF o = "start" THEN "start" ELSE "list")
    /\ Locals(c, o, NoSession) /\ outcome' = [outcome EXCEPT ![c] = "none"]
    /\ UNCHANGED <<status, startedBy>>

\* active: what the backend lists at this moment.
Active(c) ==
    /\ pc[c] = "list"
    /\ \/ /\ found' = [found EXCEPT ![c] = {[session |-> s, status |-> status[s]] : s \in {t \in Session : Running(t)}}]
          /\ Goto(c, "choose") /\ UNCHANGED <<op, held, seen, waited, outcome>>
       \/ Raise(c)
    /\ UNCHANGED <<status, startedBy>>

\* (Slip: the first active worker is taken, ready or not.)
ReuseAny(c) ==
    /\ pc[c] = "choose" /\ \E w \in found[c] : Return(c, Id(w.session))
    /\ UNCHANGED <<status, startedBy>>

\* get_or_start takes the workers of the list one after the other: one that
\* was ready ends the search.
Reuse(c) ==
    /\ pc[c] = "choose" /\ \E w \in found[c] : w.status = "up" /\ Return(c, Id(w.session))
    /\ UNCHANGED <<status, startedBy>>

\* (Slip: workers that are not ready are passed over.)
PassOver(c) ==
    /\ pc[c] = "choose"
    /\ \E w \in found[c] : w.status # "up" /\ found' = [found EXCEPT ![c] = @ \ {w}]
    /\ UNCHANGED <<pc, op, held, seen, waited, outcome, status, startedBy>>

\* (Slip: the worker stopped stays on the list.)
ReplaceForEver(c) ==
    /\ pc[c] = "choose"
    /\ \E w \in found[c] : w.status # "up" /\ StopSession(w.session)
    /\ UNCHANGED <<pc, op, held, seen, found, waited, outcome, startedBy>>

\* One that was not ready is stopped, if it has an id.
Replace(c) ==
    /\ pc[c] = "choose"
    /\ \E w \in found[c] :
        /\ w.status # "up"
        /\ \/ /\ IF w.session \in Nameless THEN UNCHANGED status ELSE StopSession(w.session)
              /\ found' = [found EXCEPT ![c] = @ \ {w}]
              /\ UNCHANGED <<pc, op, held, seen, waited, outcome>>
           \/ w.session \notin Nameless /\ StopFails(w.session) /\ Raise(c)
    /\ UNCHANGED startedBy

NoneReady(c) ==
    /\ pc[c] = "choose" /\ found[c] = {} /\ Goto(c, "start")
    /\ UNCHANGED <<op, held, seen, found, waited, outcome, status, startedBy>>

\* The backend begins a session for c.
Begin(c, s, reported) ==
    /\ status[s] = "none" /\ status' = [status EXCEPT ![s] = reported]
    /\ startedBy' = [startedBy EXCEPT ![s] = c]

\* _start: the client learns the session's id, or the request fails, with a
\* session begun or not.
Start(c) ==
    /\ pc[c] = "start"
    /\ \/ \E s \in Session, reported \in {"starting", "up"} :
            /\ Begin(c, s, reported)
            /\ held' = [held EXCEPT ![c] = Id(s)] /\ seen' = [seen EXCEPT ![c] = reported]
            /\ Goto(c, "wait") /\ UNCHANGED <<op, found, waited, outcome>>
       \/ (\E s \in Session : Begin(c, s, "starting")) /\ Raise(c)
       \/ Raise(c) /\ UNCHANGED <<status, startedBy>>

WorkerReady(c) ==
    /\ pc[c] = "wait" /\ seen[c] = "up" /\ Return(c, held[c])
    /\ UNCHANGED <<status, startedBy>>

\* The time since start_time has reached the timeout: at the latest after
\* MaxPolls polls.
GiveUp(c) ==
    /\ pc[c] = "wait" /\ seen[c] # "up" /\ Goto(c, "abandon")
    /\ UNCHANGED <<op, held, seen, found, waited, outcome, status, startedBy>>

\* After the sleep: a response without an id raises, else get() asks again.
PollStatus(c) ==
    /\ pc[c] = "wait" /\ seen[c] # "up"
    /\ waited[c] < MaxPolls
    /\ \/ /\ held[c] # NoSession /\ seen' = [seen EXCEPT ![c] = status[held[c]]]
          /\ waited' = [waited EXCEPT ![c] = @ + 1]
          /\ UNCHANGED <<pc, op, held, found, outcome>>
       \/ Raise(c)
    /\ UNCHANGED <<status, startedBy>>

\* _stop_abandoned, then WorkerStartupTimeoutError; a stop that fails is only
\* logged, and without an id there is none.
Abandon(c) ==
    /\ pc[c] = "abandon"
    /\ \/ held[c] # NoSession /\ StopSession(held[c]) /\ End(c, "timed_out", held[c])
       \/ held[c] # NoSession /\ StopFails(held[c]) /\ End(c, "timed_out_unstopped", NoSession)
       \/ held[c] = NoSession /\ UNCHANGED status /\ End(c, "timed_out_unstopped", NoSession)
    /\ UNCHANGED startedBy

\* (Slip: no finally: a body that raises leaves its worker running.)
LeaveOnSuccess(c) ==
    /\ pc[c] = "use"
    /\ \/ op[c] = "running_stop" /\ held[c] # NoSession /\ StopSession(held[c]) /\ End(c, "left_stopped", held[c])
       \/ op[c] = "running_stop" /\ UNCHANGED status /\ End(c, "left_stopped", held[c])
       \/ op[c] = "running" /\ UNCHANGED status /\ End(c, "left", NoSession)
    /\ UNCHANGED startedBy

\* The body of running() ends or raises: either way the worker is stopped, if
\* that was asked for and its id is known.
Leave(c) ==
    /\ pc[c] = "use"
    /\ \/ op[c] = "running_stop" /\ held[c] # NoSession /\ StopSession(held[c]) /\ End(c, "left_stopped", held[c])
       \/ op[c] = "running_stop" /\ held[c] # NoSession /\ StopFails(held[c]) /\ Raise(c)
       \/ (op[c] = "running" \/ held[c] = NoSession) /\ UNCHANGED status /\ End(c, "left", NoSession)
    /\ UNCHANGED startedBy

\* The public stop: of the session the client was given, or of the model.
Stop(c) ==
    /\ pc[c] = "idle" /\ outcome[c] = "ready" /\ held[c] # NoSession
    /\ \/ StopSession(held[c]) /\ End(c, "none", NoSession)
       \/ StopFails(held[c]) /\ Raise(c)
    /\ UNCHANGED startedBy

StopModel(c) ==
    /\ pc[c] = "idle" /\ \E s \in Session : Running(s)
    /\ status' = [s \in Session |-> IF Running(s) THEN "ended" ELSE status[s]]
    /\ End(c, "none", NoSession) /\ UNCHANGED startedBy

\* The client's process dies; no finally and no stop runs.
Die(c) == pc[c] # "idle" /\ Raise(c) /\ UNCHANGED <<status, startedBy>>

-----------------------------------------------------------------------------
(* The backend. *)
ComesUp(s) ==
    /\ status[s] = "starting" /\ status' = [status EXCEPT ![s] = "up"]
    /\ UNCHANGED <<clientVars, startedBy>>

Dies(s) ==
    /\ Running(s) /\ status' = [status EXCEPT ![s] = "ended"]
    /\ UNCHANGED <<clientVars, startedBy>>

\* Session ids are reused once nobody refers to them, to bound their number.
Recycle(s) ==
    /\ status[s] = "ended"
    /\ \A c \in Client : held[c] # s /\ \A w \in found[c] : w.session # s
    /\ status' = [status EXCEPT ![s] = "none"] /\ startedBy' = [startedBy EXCEPT ![s] = NoClient]
    /\ UNCHANGED clientVars

\* The steps of a call until it returns.
ClientStep(c) ==
    \/ Active(c) \/ Reuse(c) \/ Replace(c) \/ NoneReady(c) \/ Start(c)
    \/ WorkerReady(c) \/ GiveUp(c) \/ PollStatus(c) \/ Abandon(c)

Next ==
    \/ \E c \in Client :
        \/ \E o \in Op[c] : Call(c, o)
        \/ ClientStep(c) \/ Leave(c) \/ Stop(c) \/ StopModel(c) \/ Die(c)
    \/ \E s \in Session : ComesUp(s) \/ Dies(s) \/ Recycle(s)

Spec == Init /\ [][Next]_vars

\* A client's thread runs on inside a call; it need not leave running().
FairSpec == Spec /\ \A c \in Client : WF_vars(ClientStep(c))

-----------------------------------------------------------------------------
ClientTypes ==
    /\ pc \in [Client -> {"idle", "list", "choose", "start", "wait", "abandon", "use"}]
    /\ op \in [Client -> Operation \cup {"none"}]
    /\ held \in [Client -> Session \cup {NoSession}]
    /\ seen \in [Client -> Status]
    /\ found \in [Client -> SUBSET [session : Session, status : Status]]
    /\ waited \in [Client -> 0..MaxPolls]
    /\ outcome \in [Client -> Outcome]

\* Each variable has its type.
TypeOK ==
    /\ ClientTypes
    /\ status \in [Session -> Status] /\ startedBy \in [Session -> Client \cup {NoClient}]

\* A client that never calls start itself.
Looks(c) == "start" \notin Op[c]

\* Clients that call get_or_start and running, not start itself, never have
\* two workers billed that they asked for, however many of their calls failed
\* or died after the backend had begun a session, and whatever others do: what
\* a call leaves behind, the next one reuses or stops before it starts another.
\* (Sessions without an id cannot be stopped and are passed over.)
OneSessionEach ==
    \A c \in Client, s, t \in Session \ Nameless :
        Looks(c) /\ Running(s) /\ Running(t) /\ startedBy[s] = c /\ startedBy[t] = c => s = t

\* A start that timed out and whose stop did not fail leaves no worker
\* running (README: "On timeout the worker is stopped"), and neither does
\* running(stop_on_exit=True), whether or not its body raised.
NothingLeftRunning ==
    \A c \in Client :
        outcome[c] \in {"timed_out", "left_stopped"} /\ held[c] # NoSession => ~Running(held[c])

\* A worker in use has come up, if its id is known, though it may have been
\* stopped or have died since: no client in running() was handed one that is
\* still starting, whatever the others do meanwhile.
InUseCameUp ==
    \A c \in Client :
        pc[c] = "use" /\ held[c] # NoSession => status[held[c]] \in {"up", "ended"}

\* Besides failures: a start whose worker does not come up in time.
Fault ==
    \/ \E c \in Client :
        \/ Die(c) \/ (outcome'[c] = "raised" /\ outcome[c] # "raised")
        \/ pc[c] = "wait" /\ pc'[c] = "abandon"
    \/ \E s \in Session : Dies(s)

\* A client alone with its model that keeps asking gets a ready worker again
\* and again, from whatever its failed calls left behind, once failures cease.
Served ==
    (\A c \in Client : SF_vars(Call(c, "get_or_start"))) /\ <>[][~Fault]_vars =>
        []<>(\E c \in Client : outcome[c] = "ready")

\* Sessions that a client holds or has listed are known to the backend, and
\* those it promised to stop have ended; a call in progress has no outcome yet.
KnownInv ==
    \A c \in Client :
        /\ held[c] # NoSession => status[held[c]] # "none"
        /\ \A w \in found[c] : status[w.session] # "none"
        /\ outcome[c] \in {"timed_out", "left_stopped"} /\ held[c] # NoSession
            => status[held[c]] = "ended"
        /\ pc[c] \notin {"idle", "use"} => outcome[c] = "none"

\* When a client that looks is about to start, its running sessions are on its list.
ListInv ==
    /\ \A s \in Session : Running(s) => startedBy[s] \in Client
    /\ \A c \in Client, s \in Session \ Nameless :
        Looks(c) /\ pc[c] \in {"choose", "start"} /\ Running(s) /\ startedBy[s] = c =>
            \E w \in found[c] : w.session = s
    /\ \A c \in Client : pc[c] = "start" => found[c] = {}

\* A worker a client was told is up has come up.
CameUp(s) == status[s] \in {"up", "ended"}
UpInv ==
    \A c \in Client :
        /\ held[c] # NoSession /\ (pc[c] = "use" \/ seen[c] = "up") => CameUp(held[c])
        /\ \A w \in found[c] : w.status = "up" => CameUp(w.session)

\* The inductive invariant.
IInv == TypeOK /\ KnownInv /\ ListInv /\ OneSessionEach
=============================================================================
