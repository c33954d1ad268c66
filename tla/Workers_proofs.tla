---------------------------- MODULE Workers_proofs ----------------------------
(* Theorems about Workers for any number of clients and sessions.  What a    *)
(* client stops and holds is known to the backend (KnownInv), whatever calls *)
(* it makes; if it leaves starting to get_or_start, its running sessions that *)
(* have an id are on its list when it starts another (ListInv).              *)
EXTENDS Workers, TLAPS

LEMMA InitKnown == Init => TypeOK /\ KnownInv
  BY WorkersAssumption DEF Init, TypeOK, ClientTypes, KnownInv, Status, Outcome

\* The locals of client d stay as they are.
Same(d) ==
    /\ pc'[d] = pc[d] /\ op'[d] = op[d] /\ held'[d] = held[d]
    /\ found'[d] = found[d] /\ outcome'[d] = outcome[d]

\* A call's end keeps the types, leaves an empty list, and touches no other
\* client.
LEMMA EndEffect ==
    ASSUME ClientTypes, NEW c \in Client, NEW id \in Session \cup {NoSession},
           NEW how \in Outcome, End(c, how, id)
    PROVE  /\ ClientTypes' /\ \A d \in Client \ {c} : Same(d)
           /\ pc'[c] = "idle" /\ held'[c] = id /\ found'[c] = {} /\ outcome'[c] = how
  <1> USE DEF ClientTypes, End, Goto, Locals
  <1>1. pc' \in [Client -> {"idle", "list", "choose", "start", "wait", "abandon", "use"}]
        /\ op' \in [Client -> Operation \cup {"none"}]
    OBVIOUS
  <1>2. held' \in [Client -> Session \cup {NoSession}] /\ seen' \in [Client -> Status] BY DEF Status
  <1>3. found' \in [Client -> SUBSET [session : Session, status : Status]] OBVIOUS
  <1>4. waited' \in [Client -> 0..MaxPolls] /\ outcome' \in [Client -> Outcome] BY WorkersAssumption
  <1>5. \A d \in Client \ {c} : Same(d) BY DEF Same
  <1> QED BY <1>1, <1>2, <1>3, <1>4, <1>5

LEMMA RaiseEffect ==
    ASSUME ClientTypes, NEW c \in Client, Raise(c)
    PROVE  /\ ClientTypes' /\ \A d \in Client \ {c} : Same(d)
           /\ pc'[c] = "idle" /\ held'[c] = NoSession /\ found'[c] = {} /\ outcome'[c] = "raised"
  BY EndEffect DEF Raise, Outcome

LEMMA ReturnEffect ==
    ASSUME ClientTypes, NEW c \in Client, NEW id \in Session \cup {NoSession}, Return(c, id)
    PROVE  /\ ClientTypes' /\ \A d \in Client \ {c} : Same(d)
           /\ pc'[c] \in {"idle", "use"} /\ held'[c] = id /\ found'[c] = {} /\ outcome'[c] = "ready"
  <1>1. CASE End(c, "ready", id) BY <1>1, EndEffect DEF Outcome
  <1>2. CASE /\ Goto(c, "use") /\ outcome' = [outcome EXCEPT ![c] = "ready"]
             /\ Locals(c, op[c], id)
    <2> USE DEF ClientTypes, Goto, Locals
    <2>1. pc' \in [Client -> {"idle", "list", "choose", "start", "wait", "abandon", "use"}]
          /\ op' \in [Client -> Operation \cup {"none"}]
      BY <1>2
    <2>2. held' \in [Client -> Session \cup {NoSession}] /\ seen' \in [Client -> Status]
      BY <1>2 DEF Status
    <2>3. found' \in [Client -> SUBSET [session : Session, status : Status]] BY <1>2
    <2>4. waited' \in [Client -> 0..MaxPolls] /\ outcome' \in [Client -> Outcome]
      BY <1>2, WorkersAssumption DEF Outcome
    <2>5. \A d \in Client \ {c} : Same(d) BY <1>2 DEF Same
    <2> QED BY <1>2, <2>1, <2>2, <2>3, <2>4, <2>5
  <1> QED BY <1>1, <1>2 DEF Return

\* How the backend's steps other than a session's begin move a status: only
\* a running session changes, and it comes up or ends.
Shrinks ==
    /\ status' \in [Session -> Status] /\ startedBy' = startedBy
    /\ \A s \in Session : status'[s] # status[s] =>
        Running(s) /\ (status'[s] = "ended" \/ (status[s] = "starting" /\ status'[s] = "up"))

LEMMA StopShrinks ==
    ASSUME TypeOK, NEW s \in Session, StopSession(s) \/ StopFails(s), startedBy' = startedBy
    PROVE  Shrinks
  <1>1. CASE UNCHANGED status BY <1>1 DEF TypeOK, Shrinks
  <1>2. CASE StopSession(s)
    <2>1. status' = [status EXCEPT ![s] = IF Running(s) THEN "ended" ELSE status[s]]
      BY <1>2 DEF StopSession
    <2>2. status' \in [Session -> Status] BY <2>1 DEF TypeOK, Status
    <2>3. \A t \in Session : status'[t] # status[t] => Running(t) /\ status'[t] = "ended"
      BY <2>1 DEF TypeOK
    <2> QED BY <2>2, <2>3 DEF Shrinks
  <1> QED BY <1>1, <1>2 DEF StopFails

LEMMA NoStopShrinks ==
    ASSUME TypeOK, UNCHANGED <<status, startedBy>>
    PROVE  Shrinks
  BY DEF TypeOK, Shrinks

\* A stop that succeeds has ended a session the backend knows.
LEMMA StopEnds ==
    ASSUME TypeOK, NEW s \in Session, StopSession(s), status[s] # "none"
    PROVE  status'[s] = "ended"
  BY DEF TypeOK, StopSession, Running, Status

-----------------------------------------------------------------------------
(* A step of client c that begins no session, as far as the invariants see.  *)
Moves(c) ==
    /\ ClientTypes' /\ Shrinks /\ \A d \in Client \ {c} : Same(d)
    /\ held'[c] # NoSession => status[held'[c]] # "none"
    /\ \A w \in found'[c] : status[w.session] # "none"
    /\ outcome'[c] \in {"timed_out", "left_stopped"} /\ held'[c] # NoSession =>
        status'[held'[c]] = "ended"
    /\ pc'[c] \notin {"idle", "use"} => outcome'[c] = "none"

\* Such a step leaves c's running sessions on the list it starts from.
KeepsList(c) ==
    /\ pc'[c] = "start" => found'[c] = {}
    /\ \A s \in Session \ Nameless :
        Looks(c) /\ pc'[c] \in {"choose", "start"} /\ Running(s)' /\ startedBy[s] = c =>
            \E w \in found'[c] : w.session = s

LEMMA MovesKnown ==
    ASSUME TypeOK, KnownInv, NEW c \in Client, Moves(c)
    PROVE  TypeOK' /\ KnownInv'
  <1>1. TypeOK' BY DEF TypeOK, Moves, Shrinks
  <1>2. \A s \in Session : /\ status[s] # "none" => status'[s] # "none"
                           /\ status[s] = "ended" => status'[s] = "ended"
    BY DEF Moves, Shrinks, Running
  <1>3. ASSUME NEW d \in Client
        PROVE  /\ held'[d] # NoSession => status'[held'[d]] # "none"
               /\ \A w \in found'[d] : status'[w.session] # "none"
               /\ outcome'[d] \in {"timed_out", "left_stopped"} /\ held'[d] # NoSession =>
                    status'[held'[d]] = "ended"
               /\ pc'[d] \notin {"idle", "use"} => outcome'[d] = "none"
    <2>1. held'[d] \in Session \cup {NoSession} /\ \A w \in found'[d] : w.session \in Session
      BY <1>1, <1>3 DEF TypeOK, ClientTypes
    <2>2. CASE d = c BY <1>2, <2>1, <2>2 DEF Moves
    <2>3. CASE d # c
      <3>1. Same(d) BY <2>3 DEF Moves
      <3> QED BY <1>2, <2>1, <3>1 DEF Same, KnownInv
    <2> QED BY <2>2, <2>3
  <1> QED BY <1>1, <1>3 DEF KnownInv

LEMMA MovesList ==
    ASSUME IInv, NEW c \in Client, Moves(c), KeepsList(c)
    PROVE  IInv'
  <1>1. TypeOK' /\ KnownInv' BY MovesKnown DEF IInv
  <1>2. \A s \in Session : (Running(s)' => Running(s)) /\ startedBy'[s] = startedBy[s]
    BY DEF Moves, Shrinks, Running
  <1>3. OneSessionEach' BY <1>2 DEF IInv, OneSessionEach
  <1>4. \A d \in Client \ {c} : Same(d) BY DEF Moves
  <1>5. ListInv' BY <1>2, <1>4 DEF IInv, ListInv, KeepsList, Same
  <1> QED BY <1>1, <1>3, <1>5 DEF IInv

-----------------------------------------------------------------------------
(* The steps of a client. *)

\* A step that ends the call with session id, after a stop or no stop at all.
LEMMA EndMoves ==
    ASSUME TypeOK, KnownInv, NEW c \in Client, NEW id \in {NoSession, held[c]},
           NEW how \in Outcome, End(c, how, id), Shrinks,
           how \in {"timed_out", "left_stopped"} => id = NoSession \/ status'[id] = "ended"
    PROVE  Moves(c) /\ KeepsList(c)
  <1>1. id \in Session \cup {NoSession} BY DEF TypeOK, ClientTypes
  <1>2. /\ ClientTypes' /\ \A d \in Client \ {c} : Same(d)
        /\ pc'[c] = "idle" /\ held'[c] = id /\ found'[c] = {} /\ outcome'[c] = how
    BY <1>1, EndEffect DEF TypeOK
  <1> QED BY <1>2 DEF Moves, KeepsList, KnownInv

LEMMA RaiseMoves ==
    ASSUME TypeOK, KnownInv, NEW c \in Client, Raise(c), Shrinks
    PROVE  Moves(c) /\ KeepsList(c)
  BY EndMoves DEF Raise, Outcome

LEMMA ReturnMoves ==
    ASSUME TypeOK, KnownInv, NEW c \in Client, NEW id \in Session \cup {NoSession},
           id # NoSession => status[id] # "none",
           Return(c, id), UNCHANGED <<status, startedBy>>
    PROVE  Moves(c) /\ KeepsList(c)
  BY ReturnEffect, NoStopShrinks DEF TypeOK, Moves, KeepsList

LEMMA CallMoves ==
    ASSUME TypeOK, KnownInv, NEW c \in Client, NEW o \in Op[c], Call(c, o)
    PROVE  Moves(c) /\ KeepsList(c)
  <1> USE DEF TypeOK, ClientTypes, Call, Goto, Locals
  <1>0. o \in Operation BY WorkersAssumption
  <1>1. pc' \in [Client -> {"idle", "list", "choose", "start", "wait", "abandon", "use"}]
        /\ op' \in [Client -> Operation \cup {"none"}]
    BY <1>0
  <1>2. held' \in [Client -> Session \cup {NoSession}] /\ seen' \in [Client -> Status] BY DEF Status
  <1>3. found' \in [Client -> SUBSET [session : Session, status : Status]] OBVIOUS
  <1>4. waited' \in [Client -> 0..MaxPolls] /\ outcome' \in [Client -> Outcome]
    BY WorkersAssumption DEF Outcome
  <1>5. \A d \in Client \ {c} : Same(d) BY DEF Same
  <1>6. /\ pc'[c] = (IF o = "start" THEN "start" ELSE "list")
        /\ held'[c] = NoSession /\ found'[c] = {} /\ outcome'[c] = "none"
    OBVIOUS
  <1>7. Moves(c) BY <1>1, <1>2, <1>3, <1>4, <1>5, <1>6, NoStopShrinks DEF Moves
  <1>8. KeepsList(c) BY <1>6 DEF Looks, KeepsList
  <1> QED BY <1>7, <1>8

LEMMA ActiveMoves ==
    ASSUME TypeOK, KnownInv, NEW c \in Client, Active(c)
    PROVE  Moves(c) /\ KeepsList(c)
  <1>0. Shrinks BY NoStopShrinks DEF Active
  <1>1. CASE Raise(c) BY <1>0, <1>1, RaiseMoves
  <1>2. CASE /\ found' = [found EXCEPT ![c] = {[session |-> s, status |-> status[s]] : s \in {t \in Session : Running(t)}}]
             /\ Goto(c, "choose") /\ UNCHANGED <<op, held, seen, waited, outcome>>
    <2> DEFINE listed == {[session |-> s, status |-> status[s]] : s \in {t \in Session : Running(t)}}
    <2>1. listed \in SUBSET [session : Session, status : Status] BY DEF TypeOK
    <2>2. found'[c] = listed /\ found' \in [Client -> SUBSET [session : Session, status : Status]]
      BY <1>2, <2>1 DEF TypeOK, ClientTypes
    <2>3. ASSUME NEW s \in Session, Running(s) PROVE \E w \in listed : w.session = s
      <3>1. [session |-> s, status |-> status[s]] \in listed BY <2>3
      <3> QED BY <3>1
    <2>4. \A w \in listed : status[w.session] # "none" BY DEF Running
    <2> HIDE DEF listed
    <2>5. pc'[c] = "choose" /\ ClientTypes' BY <1>2, <2>2 DEF TypeOK, ClientTypes, Goto
    <2>6. \A d \in Client \ {c} : Same(d) BY <1>2 DEF Same, Goto, TypeOK, ClientTypes
    <2>7. \A s \in Session : Running(s)' => Running(s) BY DEF Active, Running
    <2>8. Moves(c) BY <1>0, <1>2, <2>2, <2>4, <2>5, <2>6 DEF Moves, KnownInv, Active
    <2>9. KeepsList(c) BY <2>2, <2>3, <2>5, <2>7 DEF KeepsList
    <2> QED BY <2>8, <2>9
  <1> QED BY <1>1, <1>2 DEF Active

LEMMA ReuseMoves ==
    ASSUME TypeOK, KnownInv, NEW c \in Client, Reuse(c)
    PROVE  Moves(c) /\ KeepsList(c)
  <1>1. PICK w \in found[c] : Return(c, Id(w.session)) BY DEF Reuse
  <1>2. w.session \in Session /\ status[w.session] # "none" BY DEF TypeOK, ClientTypes, KnownInv
  <1>3. Id(w.session) \in {w.session, NoSession} BY DEF Id
  <1> QED BY <1>1, <1>2, <1>3, ReturnMoves DEF Reuse

\* A session that is not ready leaves the list only when it has ended, or
\* has no id.
LEMMA ReplaceMoves ==
    ASSUME TypeOK, KnownInv, NEW c \in Client, Replace(c)
    PROVE  Moves(c) /\ (ListInv => KeepsList(c))
  <1>1. PICK w \in found[c] :
            \/ /\ IF w.session \in Nameless THEN UNCHANGED status ELSE StopSession(w.session)
               /\ found' = [found EXCEPT ![c] = @ \ {w}]
               /\ UNCHANGED <<pc, op, held, seen, waited, outcome>>
            \/ StopFails(w.session) /\ Raise(c)
    BY DEF Replace
  <1>2. w.session \in Session /\ status[w.session] # "none" BY DEF TypeOK, ClientTypes, KnownInv
  <1>3. pc[c] = "choose" /\ startedBy' = startedBy BY DEF Replace
  <1>4. CASE StopFails(w.session) /\ Raise(c) BY <1>2, <1>3, <1>4, StopShrinks, RaiseMoves
  <1>5. CASE /\ IF w.session \in Nameless THEN UNCHANGED status ELSE StopSession(w.session)
             /\ found' = [found EXCEPT ![c] = @ \ {w}]
             /\ UNCHANGED <<pc, op, held, seen, waited, outcome>>
    <2>1. Shrinks BY <1>2, <1>3, <1>5, StopShrinks, NoStopShrinks
    <2>2. found'[c] = found[c] \ {w} /\ ClientTypes' BY <1>5 DEF TypeOK, ClientTypes
    <2>3. \A d \in Client \ {c} : Same(d) BY <1>5 DEF Same, TypeOK, ClientTypes
    <2>4. Moves(c) BY <1>5, <2>1, <2>2, <2>3 DEF Moves, KnownInv, Shrinks, Running, TypeOK, ClientTypes
    <2>5. ASSUME ListInv PROVE KeepsList(c)
      <3>1. w.session \notin Nameless => status'[w.session] = "ended" BY <1>2, <1>5, StopEnds
      <3>2. \A s \in Session \ Nameless : Running(s)' => Running(s) /\ s # w.session
        BY <2>1, <3>1 DEF Shrinks, Running
      <3> QED BY <1>3, <1>5, <2>2, <2>5, <3>2 DEF KeepsList, ListInv
    <2> QED BY <2>4, <2>5
  <1> QED BY <1>1, <1>4, <1>5

LEMMA NoneReadyMoves ==
    ASSUME TypeOK, KnownInv, NEW c \in Client, NoneReady(c)
    PROVE  Moves(c) /\ (ListInv => KeepsList(c))
  <1>1. ClientTypes' /\ pc'[c] = "start" /\ found' = found /\ held' = held /\ outcome' = outcome
    BY DEF NoneReady, TypeOK, ClientTypes, Goto
  <1>2. \A d \in Client \ {c} : Same(d) BY DEF NoneReady, Same, Goto, TypeOK, ClientTypes
  <1>3. Moves(c) BY <1>1, <1>2, NoStopShrinks DEF Moves, KnownInv, NoneReady
  <1>4. ListInv => KeepsList(c) BY <1>1 DEF NoneReady, ListInv, KeepsList, Running
  <1> QED BY <1>3, <1>4

LEMMA WaitMoves ==
    ASSUME TypeOK, KnownInv, NEW c \in Client, WorkerReady(c) \/ GiveUp(c) \/ PollStatus(c)
    PROVE  Moves(c) /\ KeepsList(c)
  <1>1. CASE WorkerReady(c)
    BY <1>1, ReturnMoves DEF WorkerReady, TypeOK, ClientTypes, KnownInv
  <1>2. CASE GiveUp(c)
    <2>1. ClientTypes' /\ pc'[c] = "abandon" /\ found' = found /\ held' = held /\ outcome' = outcome
      BY <1>2 DEF GiveUp, TypeOK, ClientTypes, Goto
    <2>2. \A d \in Client \ {c} : Same(d) BY <1>2 DEF GiveUp, Same, Goto, TypeOK, ClientTypes
    <2> QED BY <1>2, <2>1, <2>2, NoStopShrinks DEF Moves, KeepsList, KnownInv, GiveUp
  <1>3. CASE PollStatus(c)
    <2>0. Shrinks BY <1>3, NoStopShrinks DEF PollStatus
    <2>1. CASE Raise(c) BY <2>0, <2>1, RaiseMoves
    <2>2. CASE /\ held[c] # NoSession /\ seen' = [seen EXCEPT ![c] = status[held[c]]]
               /\ waited' = [waited EXCEPT ![c] = IF @ < MaxPolls THEN @ + 1 ELSE @]
               /\ UNCHANGED <<pc, op, held, found, outcome>>
      <3>1. status[held[c]] \in Status BY <2>2 DEF TypeOK, ClientTypes
      <3>2. seen' \in [Client -> Status] BY <2>2, <3>1 DEF TypeOK, ClientTypes
      <3>3. waited' \in [Client -> 0..MaxPolls] BY <2>2, WorkersAssumption DEF TypeOK, ClientTypes
      <3>4. ClientTypes' /\ \A d \in Client \ {c} : Same(d)
        BY <2>2, <3>2, <3>3 DEF TypeOK, ClientTypes, Same
      <3> QED BY <1>3, <2>0, <2>2, <3>4 DEF Moves, KeepsList, KnownInv, PollStatus
    <2> QED BY <1>3, <2>1, <2>2 DEF PollStatus
  <1> QED BY <1>1, <1>2, <1>3

\* Giving a session up, leaving running(), stopping and dying end the call.
LEMMA EndingMoves ==
    ASSUME TypeOK, KnownInv, NEW c \in Client,
           Abandon(c) \/ Leave(c) \/ Stop(c) \/ StopModel(c) \/ Die(c)
    PROVE  Moves(c) /\ KeepsList(c)
  <1>0. /\ startedBy' = startedBy /\ held[c] \in Session \cup {NoSession}
        /\ held[c] # NoSession => status[held[c]] # "none"
    BY DEF Abandon, Leave, Stop, StopModel, Die, TypeOK, ClientTypes, KnownInv
  <1>1. ASSUME held[c] # NoSession, StopSession(held[c]) \/ StopFails(held[c]), Raise(c)
        PROVE  Moves(c) /\ KeepsList(c)
    BY <1>0, <1>1, StopShrinks, RaiseMoves
  <1>2. ASSUME UNCHANGED status, Raise(c) PROVE Moves(c) /\ KeepsList(c)
    BY <1>0, <1>2, NoStopShrinks, RaiseMoves
  <1>3. ASSUME held[c] # NoSession, StopSession(held[c]),
               NEW how \in {"timed_out", "left_stopped"}, End(c, how, held[c])
        PROVE  Moves(c) /\ KeepsList(c)
    BY <1>0, <1>3, StopShrinks, StopEnds, EndMoves DEF Outcome
  <1>4. ASSUME NEW how \in {"none", "timed_out_unstopped", "left"}, End(c, how, NoSession), Shrinks
        PROVE  Moves(c) /\ KeepsList(c)
    BY <1>4, EndMoves DEF Outcome
  <1>5. CASE Abandon(c)
    <2>1. CASE held[c] # NoSession /\ StopSession(held[c]) /\ End(c, "timed_out", held[c])
      BY <2>1, <1>3
    <2>2. CASE held[c] # NoSession /\ StopFails(held[c]) /\ End(c, "timed_out_unstopped", NoSession)
      BY <1>0, <2>2, <1>4, StopShrinks
    <2>3. CASE UNCHANGED status /\ End(c, "timed_out_unstopped", NoSession)
      BY <1>0, <2>3, <1>4, NoStopShrinks
    <2> QED BY <1>5, <2>1, <2>2, <2>3 DEF Abandon
  <1>6. CASE Leave(c)
    <2>1. CASE held[c] # NoSession /\ StopSession(held[c]) /\ End(c, "left_stopped", held[c])
      BY <2>1, <1>3
    <2>2. CASE held[c] # NoSession /\ StopFails(held[c]) /\ Raise(c) BY <2>2, <1>1
    <2>3. CASE UNCHANGED status /\ End(c, "left", NoSession)
      BY <1>0, <2>3, <1>4, NoStopShrinks
    <2> QED BY <1>6, <2>1, <2>2, <2>3 DEF Leave
  <1>7. CASE Stop(c)
    <2>1. CASE StopSession(held[c]) /\ End(c, "none", NoSession)
      BY <1>0, <1>7, <2>1, <1>4, StopShrinks DEF Stop
    <2>2. CASE StopFails(held[c]) /\ Raise(c) BY <1>7, <2>2, <1>1 DEF Stop
    <2> QED BY <1>7, <2>1, <2>2 DEF Stop
  <1>8. CASE StopModel(c)
    <2>1. Shrinks BY <1>0, <1>8 DEF StopModel, Shrinks, Running, TypeOK, Status
    <2> QED BY <1>8, <2>1, <1>4 DEF StopModel
  <1>9. CASE Die(c) BY <1>9, <1>2 DEF Die
  <1> QED BY <1>5, <1>6, <1>7, <1>8, <1>9

-----------------------------------------------------------------------------
(* A session begins: the one step that adds to what runs.                    *)

LEMMA BeginKnown ==
    ASSUME TypeOK, KnownInv, NEW c \in Client, NEW s \in Session, NEW r \in {"starting", "up"},
           Begin(c, s, r)
    PROVE  /\ status' \in [Session -> Status] /\ startedBy' \in [Session -> Client \cup {NoClient}]
           /\ status[s] = "none" /\ status'[s] = r /\ startedBy'[s] = c
           /\ \A t \in Session \ {s} : status'[t] = status[t] /\ startedBy'[t] = startedBy[t]
  BY DEF TypeOK, Begin, Status

\* The sessions a client holds or has listed are not the new one.
LEMMA StartKnown ==
    ASSUME TypeOK, KnownInv, NEW c \in Client, Start(c)
    PROVE  TypeOK' /\ KnownInv'
  <1>1. CASE Raise(c) /\ UNCHANGED <<status, startedBy>>
    BY <1>1, NoStopShrinks, RaiseMoves, MovesKnown
  <1>2. ASSUME NEW s \in Session, NEW r \in {"starting", "up"}, Begin(c, s, r),
               ClientTypes', \A d \in Client \ {c} : Same(d),
               held'[c] \in {NoSession, s}, \A w \in found'[c] : status[w.session] # "none",
               outcome'[c] \notin {"timed_out", "left_stopped"},
               pc'[c] \notin {"idle", "use"} => outcome'[c] = "none"
        PROVE  TypeOK' /\ KnownInv'
    <2>1. TypeOK' BY <1>2, BeginKnown DEF TypeOK
    <2>2. /\ \A t \in Session : status[t] # "none" => status'[t] = status[t]
          /\ status'[s] # "none"
      BY <1>2, BeginKnown
    <2>3. ASSUME NEW d \in Client
          PROVE  /\ held'[d] # NoSession => status'[held'[d]] # "none"
                 /\ \A w \in found'[d] : status'[w.session] # "none"
                 /\ outcome'[d] \in {"timed_out", "left_stopped"} /\ held'[d] # NoSession =>
                      status'[held'[d]] = "ended"
                 /\ pc'[d] \notin {"idle", "use"} => outcome'[d] = "none"
      <3>1. held'[d] \in Session \cup {NoSession} /\ \A w \in found'[d] : w.session \in Session
        BY <2>1 DEF TypeOK, ClientTypes
      <3>2. CASE d = c BY <1>2, <2>2, <3>1, <3>2
      <3>3. CASE d # c
        <4>1. Same(d) BY <1>2, <3>3
        <4> QED BY <2>2, <3>1, <4>1 DEF Same, KnownInv
      <3> QED BY <3>2, <3>3
    <2> QED BY <2>1, <2>3 DEF KnownInv
  <1>3. ASSUME NEW s \in Session, Begin(c, s, "starting"), Raise(c) PROVE TypeOK' /\ KnownInv'
    <2>1. /\ ClientTypes' /\ \A d \in Client \ {c} : Same(d)
          /\ pc'[c] = "idle" /\ held'[c] = NoSession /\ found'[c] = {} /\ outcome'[c] = "raised"
      BY <1>3, RaiseEffect DEF TypeOK
    <2> QED BY <1>2, <1>3, <2>1
  <1>4. ASSUME NEW s \in Session, NEW r \in {"starting", "up"}, Begin(c, s, r),
               held' = [held EXCEPT ![c] = Id(s)], seen' = [seen EXCEPT ![c] = r],
               Goto(c, "wait"), UNCHANGED <<op, found, waited, outcome>>
        PROVE  TypeOK' /\ KnownInv'
    <2>1. Id(s) \in {s, NoSession} BY DEF Id
    <2>2. ClientTypes' /\ \A d \in Client \ {c} : Same(d)
      BY <1>4, <2>1 DEF TypeOK, ClientTypes, Goto, Same, Status
    <2>3. held'[c] \in {NoSession, s} /\ found'[c] = found[c] /\ outcome'[c] = "none"
      BY <1>4, <2>1 DEF Start, TypeOK, ClientTypes, KnownInv
    <2>4. \A w \in found'[c] : status[w.session] # "none" BY <2>3 DEF KnownInv
    <2> QED BY <1>2, <1>4, <2>2, <2>3, <2>4
  <1> QED BY <1>1, <1>3, <1>4 DEF Start

\* For callers that look before they start, the new session is the only one
\* of theirs that runs: the list they started from is empty.
LEMMA StartList ==
    ASSUME IInv, NEW c \in Client, Start(c)
    PROVE  IInv'
  <1>0. TypeOK' /\ KnownInv' BY StartKnown DEF IInv
  <1>1. CASE Raise(c) /\ UNCHANGED <<status, startedBy>>
    BY <1>1, NoStopShrinks, RaiseMoves, MovesList DEF IInv
  <1>2. ASSUME NEW s \in Session, NEW r \in {"starting", "up"}, Begin(c, s, r),
               pc'[c] \notin {"choose", "start"}, \A d \in Client \ {c} : Same(d)
        PROVE  ListInv' /\ OneSessionEach'
    <2>1. \A t \in Session \ Nameless : Looks(c) /\ Running(t) => startedBy[t] # c
      BY DEF Start, IInv, ListInv
    <2>2. /\ startedBy'[s] = c
          /\ \A t \in Session \ {s} : (Running(t)' <=> Running(t)) /\ startedBy'[t] = startedBy[t]
      BY <1>2, BeginKnown DEF IInv, Running
    <2>3. OneSessionEach' BY <2>1, <2>2 DEF IInv, OneSessionEach
    <2>4. ListInv' BY <1>2, <2>1, <2>2 DEF IInv, ListInv, Same
    <2> QED BY <2>3, <2>4
  <1>3. ASSUME NEW s \in Session, Begin(c, s, "starting"), Raise(c) PROVE IInv'
    <2>1. pc'[c] = "idle" /\ \A d \in Client \ {c} : Same(d)
      BY <1>3, RaiseEffect DEF IInv, TypeOK
    <2> QED BY <1>0, <1>2, <1>3, <2>1 DEF IInv
  <1>4. ASSUME NEW s \in Session, NEW r \in {"starting", "up"}, Begin(c, s, r),
               held' = [held EXCEPT ![c] = Id(s)], Goto(c, "wait"), UNCHANGED <<op, found, waited, outcome>>
        PROVE  IInv'
    <2>1. pc'[c] = "wait" /\ \A d \in Client \ {c} : Same(d)
      BY <1>4 DEF IInv, TypeOK, ClientTypes, Goto, Same
    <2> QED BY <1>0, <1>2, <1>4, <2>1 DEF IInv
  <1> QED BY <1>1, <1>3, <1>4 DEF Start

-----------------------------------------------------------------------------
(* The backend's own steps. *)

Backend == \E s \in Session : ComesUp(s) \/ Dies(s) \/ Recycle(s)

LEMMA BackendKnown ==
    ASSUME TypeOK, KnownInv, Backend
    PROVE  /\ TypeOK' /\ KnownInv' /\ UNCHANGED clientVars
           /\ \A t \in Session : Running(t)' => Running(t) /\ startedBy'[t] = startedBy[t]
  <1>1. PICK s \in Session : ComesUp(s) \/ Dies(s) \/ Recycle(s) BY DEF Backend
  <1>2. UNCHANGED clientVars BY <1>1 DEF ComesUp, Dies, Recycle
  <1>3. status' \in [Session -> Status] /\ startedBy' \in [Session -> Client \cup {NoClient}]
    BY <1>1 DEF ComesUp, Dies, Recycle, TypeOK, Status
  <1>4. TypeOK' BY <1>2, <1>3 DEF clientVars, TypeOK, ClientTypes
  <1>5. \A t \in Session : Running(t)' => Running(t) /\ startedBy'[t] = startedBy[t]
    BY <1>1 DEF ComesUp, Dies, Recycle, TypeOK, Running
  <1>6. CASE ComesUp(s) \/ Dies(s)
    <2>1. \A t \in Session : /\ status[t] # "none" => status'[t] # "none"
                             /\ status[t] = "ended" => status'[t] = "ended"
      BY <1>6 DEF ComesUp, Dies, Running, TypeOK
    <2> QED BY <1>2, <1>4, <1>5, <2>1 DEF KnownInv, clientVars, TypeOK, ClientTypes
  <1>7. CASE Recycle(s)
    <2>1. \A t \in Session \ {s} : status'[t] = status[t] BY <1>7 DEF Recycle, TypeOK
    <2>2. \A c \in Client : held[c] # s /\ \A w \in found[c] : w.session # s BY <1>7 DEF Recycle
    <2> QED BY <1>2, <1>4, <1>5, <2>1, <2>2 DEF KnownInv, clientVars, TypeOK, ClientTypes
  <1> QED BY <1>1, <1>6, <1>7

LEMMA BackendList == ASSUME IInv, Backend PROVE IInv'
  <1>1. /\ TypeOK' /\ KnownInv' /\ UNCHANGED clientVars
        /\ \A t \in Session : Running(t)' => Running(t) /\ startedBy'[t] = startedBy[t]
    BY BackendKnown DEF IInv
  <1>2. OneSessionEach' BY <1>1 DEF IInv, OneSessionEach
  <1>3. ListInv' BY <1>1 DEF IInv, ListInv, clientVars
  <1> QED BY <1>1, <1>2, <1>3 DEF IInv

-----------------------------------------------------------------------------
(* The invariants. *)

\* Which steps move a client without beginning a session.
LEMMA StepCases ==
    ASSUME Next
    PROVE  \/ \E c \in Client : \E o \in Op[c] : Call(c, o)
           \/ \E c \in Client : \/ Active(c) \/ Reuse(c) \/ Replace(c) \/ NoneReady(c)
                                \/ WorkerReady(c) \/ GiveUp(c) \/ PollStatus(c)
                                \/ Abandon(c) \/ Leave(c) \/ Stop(c) \/ StopModel(c) \/ Die(c)
           \/ \E c \in Client : Start(c)
           \/ Backend
  BY DEF Next, ClientStep, Backend

\* Types and the knowledge of sessions are kept by every step.
LEMMA NextKnown == TypeOK /\ KnownInv /\ [Next]_vars => TypeOK' /\ KnownInv'
  <1> SUFFICES ASSUME TypeOK, KnownInv, [Next]_vars PROVE TypeOK' /\ KnownInv' OBVIOUS
  <1>1. ASSUME NEW c \in Client, NEW o \in Op[c], Call(c, o) PROVE TypeOK' /\ KnownInv'
    BY <1>1, CallMoves, MovesKnown
  <1>2. ASSUME NEW c \in Client, Active(c) \/ Reuse(c) \/ Replace(c) \/ NoneReady(c)
        PROVE  TypeOK' /\ KnownInv'
    BY <1>2, ActiveMoves, ReuseMoves, ReplaceMoves, NoneReadyMoves, MovesKnown
  <1>3. ASSUME NEW c \in Client,
               \/ WorkerReady(c) \/ GiveUp(c) \/ PollStatus(c)
               \/ Abandon(c) \/ Leave(c) \/ Stop(c) \/ StopModel(c) \/ Die(c)
        PROVE  TypeOK' /\ KnownInv'
    BY <1>3, WaitMoves, EndingMoves, MovesKnown
  <1>4. ASSUME NEW c \in Client, Start(c) PROVE TypeOK' /\ KnownInv' BY <1>4, StartKnown
  <1>5. CASE Backend BY <1>5, BackendKnown
  <1>6. CASE UNCHANGED vars BY <1>6 DEF vars, clientVars, TypeOK, ClientTypes, KnownInv
  <1> QED BY <1>1, <1>2, <1>3, <1>4, <1>5, <1>6, StepCases

\* So is the invariant of OneSessionEach.
LEMMA NextList == IInv /\ [Next]_vars => IInv'
  <1> SUFFICES ASSUME IInv, [Next]_vars PROVE IInv' OBVIOUS
  <1> USE DEF IInv
  <1>1. ASSUME NEW c \in Client, NEW o \in Op[c], Call(c, o) PROVE IInv'
    BY <1>1, CallMoves, MovesList
  <1>2. ASSUME NEW c \in Client, Active(c) \/ Reuse(c) \/ Replace(c) \/ NoneReady(c) PROVE IInv'
    BY <1>2, ActiveMoves, ReuseMoves, ReplaceMoves, NoneReadyMoves, MovesList
  <1>3. ASSUME NEW c \in Client,
               \/ WorkerReady(c) \/ GiveUp(c) \/ PollStatus(c)
               \/ Abandon(c) \/ Leave(c) \/ Stop(c) \/ StopModel(c) \/ Die(c)
        PROVE  IInv'
    BY <1>3, WaitMoves, EndingMoves, MovesList
  <1>4. ASSUME NEW c \in Client, Start(c) PROVE IInv' BY <1>4, StartList
  <1>5. CASE Backend BY <1>5, BackendList
  <1>6. CASE UNCHANGED vars
    BY <1>6 DEF vars, clientVars, TypeOK, ClientTypes, KnownInv, ListInv, OneSessionEach, Running
  <1> QED BY <1>1, <1>2, <1>3, <1>4, <1>5, <1>6, StepCases

\* What client d goes by stays as it is.
Kept(d) == pc'[d] = pc[d] /\ held'[d] = held[d] /\ seen'[d] = seen[d] /\ found'[d] = found[d]

\* s has come up by the end of the step.
UpNow(s) == status'[s] \in {"up", "ended"}

\* After its step, client c goes by what came up.
Good(c) ==
    /\ held'[c] # NoSession /\ (pc'[c] = "use" \/ seen'[c] = "up") => UpNow(held'[c])
    /\ \A w \in found'[c] : w.status = "up" => UpNow(w.session)

LEMMA UpEnd ==
    ASSUME ClientTypes, NEW c \in Client, NEW how, NEW id, End(c, how, id)
    PROVE  Good(c) /\ \A d \in Client \ {c} : Kept(d)
  BY DEF ClientTypes, End, Goto, Locals, Good, Kept

LEMMA UpReturn ==
    ASSUME ClientTypes, NEW c \in Client, NEW id, Return(c, id), id # NoSession => UpNow(id)
    PROVE  Good(c) /\ \A d \in Client \ {c} : Kept(d)
  <1>1. CASE End(c, "ready", id) BY <1>1, UpEnd
  <1>2. CASE Goto(c, "use") /\ Locals(c, op[c], id)
    BY <1>2 DEF ClientTypes, Goto, Locals, Good, Kept
  <1> QED BY <1>1, <1>2 DEF Return

\* What came up stays so while a client knows it.
LEMMA UpStays ==
    ASSUME TypeOK, Shrinks, NEW s \in Session, CameUp(s)
    PROVE  UpNow(s)
  BY DEF Shrinks, CameUp, UpNow, Running

LEMMA UpKept ==
    ASSUME TypeOK, UpInv, NEW c \in Client, Good(c), \A d \in Client \ {c} : Kept(d),
           \A s \in Session : CameUp(s) => UpNow(s)
    PROVE  UpInv'
  <1>1. ASSUME NEW d \in Client
        PROVE  /\ held'[d] # NoSession /\ (pc'[d] = "use" \/ seen'[d] = "up") => UpNow(held'[d])
               /\ \A w \in found'[d] : w.status = "up" => UpNow(w.session)
    <2>1. CASE d = c BY <2>1 DEF Good
    <2>2. CASE d # c
      <3>1. Kept(d) BY <2>2
      <3>2. held[d] \in Session \cup {NoSession} /\ \A w \in found[d] : w.session \in Session
        BY DEF TypeOK, ClientTypes
      <3>3. /\ held[d] # NoSession /\ (pc[d] = "use" \/ seen[d] = "up") => CameUp(held[d])
            /\ \A w \in found[d] : w.status = "up" => CameUp(w.session)
        BY DEF UpInv
      <3> QED BY <3>1, <3>2, <3>3 DEF Kept
    <2> QED BY <2>1, <2>2
  <1> QED BY <1>1 DEF UpInv, CameUp, UpNow

LEMMA UpStep == TypeOK /\ KnownInv /\ UpInv /\ [Next]_vars => UpInv'
  <1> SUFFICES ASSUME TypeOK, KnownInv, UpInv, [Next]_vars PROVE UpInv' OBVIOUS
  <1>1. ASSUME NEW c \in Client, NEW o \in Op[c], Call(c, o) PROVE UpInv'
    <2>1. Good(c) /\ \A d \in Client \ {c} : Kept(d)
      BY <1>1 DEF Call, Goto, Locals, Good, Kept, TypeOK, ClientTypes
    <2>2. \A s \in Session : CameUp(s) => UpNow(s) BY <1>1 DEF Call, CameUp, UpNow
    <2> QED BY <2>1, <2>2, UpKept
  <1>2. ASSUME NEW c \in Client, Active(c) \/ Reuse(c) \/ Replace(c) \/ NoneReady(c) PROVE UpInv'
    <2>1. Shrinks BY <1>2, ActiveMoves, ReuseMoves, ReplaceMoves, NoneReadyMoves DEF Moves
    <2>2. \A s \in Session : CameUp(s) => UpNow(s) BY <2>1, UpStays
    <2>3. \A w \in found[c] : w.session \in Session /\ (w.status = "up" => CameUp(w.session))
      BY DEF UpInv, TypeOK, ClientTypes
    <2>4. ClientTypes BY DEF TypeOK
    <2>5. Good(c) /\ \A d \in Client \ {c} : Kept(d)
      <3>1. CASE Raise(c) BY <2>4, <3>1, UpEnd DEF Raise
      <3>2. CASE Active(c) /\ ~Raise(c)
        <4>1. /\ pc' = [pc EXCEPT ![c] = "choose"] /\ UNCHANGED <<held, seen, status>>
              /\ found' = [found EXCEPT ![c] = {[session |-> t, status |-> status[t]] :
                                                t \in {u \in Session : Running(u)}}]
          BY <3>2 DEF Active, Goto
        <4>2. \A w \in found'[c] : w.status = "up" => UpNow(w.session)
          <5>1. found'[c] = {[session |-> t, status |-> status[t]] : t \in {u \in Session : Running(u)}}
            BY <2>4, <4>1 DEF ClientTypes
          <5> QED BY <4>1, <5>1 DEF UpNow
        <4>3. held[c] # NoSession /\ seen[c] = "up" => UpNow(held[c])
          BY <4>1 DEF UpInv, CameUp, UpNow
        <4>4. pc'[c] = "choose" /\ held'[c] = held[c] /\ seen'[c] = seen[c] BY <2>4, <4>1 DEF ClientTypes
        <4>5. \A d \in Client \ {c} : Kept(d) BY <2>4, <4>1 DEF ClientTypes, Kept
        <4> QED BY <4>2, <4>3, <4>4, <4>5 DEF Good
      <3>3. CASE Reuse(c)
        <4>1. PICK w \in found[c] : w.status = "up" /\ Return(c, Id(w.session)) BY <3>3 DEF Reuse
        <4>2. UpNow(w.session) BY <2>2, <2>3, <4>1
        <4> QED BY <2>4, <4>1, <4>2, UpReturn DEF Id
      <3>4. CASE Replace(c) /\ ~Raise(c)
        <4>1. PICK w \in found[c] : found' = [found EXCEPT ![c] = @ \ {w}]
          BY <3>4 DEF Replace
        <4>2. UNCHANGED <<pc, held, seen>> BY <3>4 DEF Replace
        <4>3. found'[c] \subseteq found[c] /\ \A d \in Client \ {c} : found'[d] = found[d]
          BY <4>1 DEF TypeOK, ClientTypes
        <4>4. \A v \in found'[c] : v.status = "up" => UpNow(v.session) BY <2>2, <2>3, <4>3
        <4>5. held[c] # NoSession /\ (pc[c] = "use" \/ seen[c] = "up") => UpNow(held[c])
          <5>1. held[c] \in Session \cup {NoSession} BY DEF TypeOK, ClientTypes
          <5> QED BY <2>2, <5>1 DEF UpInv
        <4> QED BY <4>2, <4>3, <4>4, <4>5 DEF Good, Kept, CameUp, UpNow
      <3>5. CASE NoneReady(c)
        <4>1. UNCHANGED <<held, seen, found, status>> /\ pc' = [pc EXCEPT ![c] = "start"]
          BY <3>5 DEF NoneReady, Goto
        <4> QED BY <4>1 DEF Good, Kept, CameUp, UpNow, UpInv, TypeOK, ClientTypes
      <3> QED BY <1>2, <3>1, <3>2, <3>3, <3>4, <3>5
    <2> QED BY <2>2, <2>5, UpKept
  <1>3. ASSUME NEW c \in Client,
               \/ WorkerReady(c) \/ GiveUp(c) \/ PollStatus(c)
               \/ Abandon(c) \/ Leave(c) \/ Stop(c) \/ StopModel(c) \/ Die(c)
        PROVE  UpInv'
    <2>1. Shrinks BY <1>3, WaitMoves, EndingMoves DEF Moves
    <2>2. \A s \in Session : CameUp(s) => UpNow(s) BY <2>1, UpStays
    <2>3. ClientTypes /\ held[c] \in Session \cup {NoSession} BY DEF TypeOK, ClientTypes
    <2>4. Good(c) /\ \A d \in Client \ {c} : Kept(d)
      <3>1. CASE \E how, id : End(c, how, id) BY <2>3, <3>1, UpEnd
      <3>2. CASE WorkerReady(c)
        <4>1. seen[c] = "up" /\ Return(c, held[c]) BY <3>2 DEF WorkerReady
        <4>2. held[c] # NoSession => UpNow(held[c]) BY <2>2, <2>3, <4>1 DEF UpInv
        <4> QED BY <2>3, <4>1, <4>2, UpReturn
      <3>3. CASE GiveUp(c)
        <4>1. UNCHANGED <<held, seen, found, status>> /\ pc' = [pc EXCEPT ![c] = "abandon"]
          BY <3>3 DEF GiveUp, Goto
        <4> QED BY <4>1 DEF Good, Kept, CameUp, UpNow, UpInv, TypeOK, ClientTypes
      <3>4. CASE PollStatus(c) /\ ~Raise(c)
        <4>1. /\ pc[c] = "wait" /\ UNCHANGED <<pc, held, found, status>>
              /\ seen' = [seen EXCEPT ![c] = status[held[c]]]
          BY <3>4 DEF PollStatus
        <4> QED BY <4>1 DEF Good, Kept, CameUp, UpNow, UpInv, TypeOK, ClientTypes
      <3> QED BY <1>3, <3>1, <3>2, <3>3, <3>4
           DEF PollStatus, Abandon, Leave, Stop, StopModel, Die, Raise
    <2> QED BY <2>2, <2>4, UpKept
  <1>4. ASSUME NEW c \in Client, Start(c) PROVE UpInv'
    <2>1. CASE Raise(c) /\ UNCHANGED <<status, startedBy>>
      <3>1. Good(c) /\ \A d \in Client \ {c} : Kept(d) BY <2>1, UpEnd DEF Raise, TypeOK
      <3>2. \A s \in Session : CameUp(s) => UpNow(s) BY <2>1 DEF CameUp, UpNow
      <3> QED BY <3>1, <3>2, UpKept
    <2>2. ASSUME NEW s \in Session, NEW reported \in {"starting", "up"}, Begin(c, s, reported),
                 \/ reported = "starting" /\ Raise(c)
                 \/ /\ held' = [held EXCEPT ![c] = Id(s)] /\ seen' = [seen EXCEPT ![c] = reported]
                    /\ Goto(c, "wait") /\ UNCHANGED <<op, found, waited, outcome>>
          PROVE  UpInv'
      <3>1. status[s] = "none" /\ status' = [status EXCEPT ![s] = reported] BY <2>2 DEF Begin
      <3>2. \A t \in Session : CameUp(t) => UpNow(t) BY <3>1 DEF CameUp, UpNow, TypeOK
      <3>3. Good(c) /\ \A d \in Client \ {c} : Kept(d)
        <4>1. CASE Raise(c) BY <4>1, UpEnd DEF Raise, TypeOK
        <4>2. CASE /\ held' = [held EXCEPT ![c] = Id(s)] /\ seen' = [seen EXCEPT ![c] = reported]
                   /\ Goto(c, "wait") /\ UNCHANGED <<op, found, waited, outcome>>
          <5>1. held'[c] = Id(s) /\ seen'[c] = reported /\ pc'[c] = "wait" /\ found'[c] = found[c]
            BY <4>2 DEF Goto, TypeOK, ClientTypes
          <5>2. Id(s) # NoSession /\ reported = "up" => UpNow(Id(s))
            BY <3>1 DEF Id, CameUp, UpNow, TypeOK
          <5>3. \A w \in found[c] : w.status = "up" => UpNow(w.session)
            BY <3>2 DEF UpInv, TypeOK, ClientTypes
          <5>4. \A d \in Client \ {c} : Kept(d)
            BY <4>2 DEF Goto, Kept, TypeOK, ClientTypes
          <5> QED BY <5>1, <5>2, <5>3, <5>4 DEF Good, CameUp, UpNow
        <4> QED BY <2>2, <4>1, <4>2
      <3> QED BY <3>2, <3>3, UpKept
    <2> QED BY <1>4, <2>1, <2>2 DEF Start
  <1>5. CASE Backend
    <2>1. CASE \E s \in Session : ComesUp(s) \/ Dies(s)
      BY <2>1 DEF ComesUp, Dies, Running, clientVars, UpInv, CameUp, UpNow, TypeOK, ClientTypes
    <2>2. ASSUME NEW s \in Session, Recycle(s) PROVE UpInv'
      <3>1. \A t \in Session \ {s} : status'[t] = status[t] BY <2>2 DEF Recycle, TypeOK
      <3>2. \A d \in Client : held[d] # s /\ \A w \in found[d] : w.session # s
        BY <2>2 DEF Recycle
      <3>3. UNCHANGED <<pc, held, seen, found>> BY <2>2 DEF Recycle, clientVars
      <3> QED BY <3>1, <3>2, <3>3 DEF UpInv, CameUp, UpNow, TypeOK, ClientTypes
    <2> QED BY <1>5, <2>1, <2>2 DEF Backend
  <1>6. CASE UNCHANGED vars BY <1>6 DEF vars, clientVars, UpInv, CameUp, UpNow
  <1> QED BY <1>1, <1>2, <1>3, <1>4, <1>5, <1>6, StepCases

\* Every variable keeps its type, whatever calls are made.
THEOREM WorkersTypes == Spec => []TypeOK
  <1>1. Spec => [](TypeOK /\ KnownInv) BY InitKnown, NextKnown, PTL DEF Spec
  <1> QED BY <1>1, PTL

\* A start given up on, and running(stop_on_exit=True), leave no worker
\* running unless the stop failed, whatever other clients do.
THEOREM PromisedStops == Spec => []NothingLeftRunning
  <1>1. Spec => [](TypeOK /\ KnownInv) BY InitKnown, NextKnown, PTL DEF Spec
  <1>2. KnownInv => NothingLeftRunning BY DEF KnownInv, NothingLeftRunning, Running
  <1> QED BY <1>1, <1>2, PTL

\* A client that looks before it starts never has two of its workers billed,
\* although requests fail after their effect, clients die and others do not look.
THEOREM OneWorkerPerClient == Spec => []OneSessionEach
  <1>1. Init => IInv
    BY InitKnown DEF Init, IInv, ListInv, OneSessionEach, Running
  <1>2. IInv /\ [Next]_vars => IInv' BY NextList
  <1>3. IInv => OneSessionEach BY DEF IInv
  <1> QED BY <1>1, <1>2, <1>3, PTL DEF Spec
\* No client is in running() with a worker that has not come up, however the
\* lists it chose from age and whatever other clients stop or start meanwhile.
THEOREM UsedOnceUp == Spec => []InUseCameUp
  <1>1. Init => UpInv BY WorkersAssumption DEF Init, UpInv
  <1>2. Spec => [](TypeOK /\ KnownInv /\ UpInv)
    BY <1>1, InitKnown, NextKnown, UpStep, PTL DEF Spec
  <1>3. UpInv => InUseCameUp BY DEF UpInv, InUseCameUp, CameUp
  <1> QED BY <1>2, <1>3, PTL
=============================================================================
