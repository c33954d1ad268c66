----------------------------- MODULE TokenStore ------------------------------
(* The query tokens a session creates, saves and loads (studio                *)
(* resources/tokens.py, query storage/token_store.py, storage/_files.py),     *)
(* while other processes save tokens and clean up in the same directory, and  *)
(* the operations its calls report to.                                        *)
(*                                                                            *)
(* A token's file is named by its id in a directory named by its name; the    *)
(* time of a file is that of writing it, before it takes its place, by a      *)
(* clock that may be set, so any time.  The names here are without outer      *)
(* blanks: load strips the name it looks for, save does not.                  *)
EXTENDS Operations

CONSTANTS
    Operation,      \* what the blocks around the calls are called
    Token,          \* tokens, numbered as their paths sort
    NameOf,         \* the name of each
    MaxTime,        \* bound: the times files may have
    MaxSaid         \* bound: messages an operation has before the last call in it

ASSUME TokenAssumption ==
    /\ Token \subseteq Nat /\ DOMAIN NameOf = Token
    /\ MaxTime \in Nat /\ MaxSaid \in Nat
    /\ None \notin Nat /\ None \notin [token : Token, time : Nat]

VARIABLES
    held,       \* the tokens whose value is known
    files,      \* the saved tokens' modification times, None if there is no file
    job,        \* the call in progress
    steady,     \* history: the files there since the load in progress began, untouched
    answer      \* history: how the load that returns ended

vars == <<logVars, held, files, job, steady, answer>>

Idle ==
    [kind |-> "idle", token |-> None, save |-> FALSE, own |-> FALSE,
     name |-> None, todo |-> {}, newest |-> None]

Init ==
    /\ InitLog
    /\ held = {} /\ files = [t \in Token |-> None]
    /\ job = Idle /\ steady = {} /\ answer = None

\* Nothing is in progress but the blocks around the next call; a call is made
\* while they have reported little enough.
Free == job = Idle /\ (blocks # <<>> => ~Last(blocks).ending)
MayCall == Free /\ Len(said) <= MaxSaid
StoreVars == <<held, files, steady, answer>>

-----------------------------------------------------------------------------
(* Saving *)

\* TokensAPI.create: the request is an operation of its own if no other is
\* running.
Create ==
    /\ MayCall
    /\ \E t \in Token \ held, save, own \in BOOLEAN :
          /\ job' = [Idle EXCEPT !.kind = "request", !.token = t, !.save = save, !.own = own]
          /\ own <=> Operations = {}
          /\ IF own THEN Start("request") ELSE UNCHANGED logVars
    /\ UNCHANGED StoreVars

\* Only the answer has the token's value: when the request fails, before its
\* effect or after it, nobody holds the token.
Answered ==
    /\ job.kind = "request"
    /\ \E failed \in BOOLEAN :
          /\ held' = IF failed THEN held ELSE held \cup {job.token}
          /\ job' = [job EXCEPT !.kind = "answered", !.save = @ /\ ~failed]
          /\ IF job.own THEN Stop(failed) ELSE UNCHANGED logVars
    /\ UNCHANGED <<files, steady, answer>>

Created ==
    /\ job.kind = "answered"
    /\ IF job.own THEN Stopped ELSE UNCHANGED logVars
    /\ job' = IF job.save THEN [job EXCEPT !.kind = "save"] ELSE Idle
    /\ UNCHANGED StoreVars

\* save_query_token: of a token held, again too.
Save ==
    /\ MayCall
    /\ \E t \in held : job' = [Idle EXCEPT !.kind = "save", !.token = t]
    /\ UNCHANGED logVars /\ UNCHANGED StoreVars

SaveWrite ==
    /\ job.kind = "save" /\ job' = [job EXCEPT !.kind = "replace"]
    /\ LogInfo(<< <<"saving">>, <<"path">> >>)
    /\ UNCHANGED StoreVars

\* A written file takes its place.
Put(t) ==
    /\ \E time \in 0..MaxTime : files' = [files EXCEPT ![t] = time]
    /\ steady' = steady \ {t}

\* atomic_private_write: the temporary file takes its place, or is removed when
\* something fails.
SaveReplace ==
    /\ job.kind = "replace" /\ job' = Idle
    /\ Put(job.token) \/ UNCHANGED <<files, steady>>
    /\ UNCHANGED logVars /\ UNCHANGED <<held, answer>>

\* Other processes save the same tokens, and clean up: between the calls nobody
\* would see it before the next one.
OtherReplace ==
    /\ job # Idle
    /\ \E t \in held : Put(t)
    /\ UNCHANGED logVars /\ UNCHANGED <<held, job, answer>>

Cleanup ==
    /\ job # Idle
    /\ \E t \in Token : files[t] # None /\ files' = [files EXCEPT ![t] = None] /\ steady' = steady \ {t}
    /\ UNCHANGED logVars /\ UNCHANGED <<held, job, answer>>

-----------------------------------------------------------------------------
(* Loading *)

Named(name) == {t \in Token : name = None \/ NameOf[t] = name}
Saved(name) == {t \in Named(name) : files[t] # None}

\* load_query_token, up to the listing of the candidates, which is lazy.
Load ==
    /\ MayCall
    /\ \E name \in {NameOf[t] : t \in Token} \cup {None} :
          /\ job' = [Idle EXCEPT !.kind = "stat", !.name = name, !.todo = Named(name)]
          /\ steady' = Saved(name)
    /\ LogInfo(<< <<"selecting">> >>)
    /\ UNCHANGED <<held, files, answer>>

Found(t) == [token |-> t, time |-> files[t]]

\* (Slip: the paths alone are compared.)
LaterByPath(f, g) == f.token > g.token
Later(f, g) == f.time > g.time \/ (f.time = g.time /\ f.token > g.token)

\* _newest, one candidate after the other: one that is gone is skipped, and the
\* listing may miss one that came or went meanwhile.
Stat ==
    /\ job.kind = "stat"
    /\ \E t \in job.todo, missed \in BOOLEAN :
          /\ missed => t \notin steady
          /\ job' = [job EXCEPT !.todo = @ \ {t},
                !.newest = IF ~missed /\ files[t] # None /\ (@ = None \/ Later(Found(t), @))
                           THEN Found(t) ELSE @]
    /\ UNCHANGED logVars /\ UNCHANGED StoreVars

Answer(kind) ==
    [kind |-> kind, name |-> job.name, found |-> job.newest,
     steady |-> [t \in steady |-> files[t]]]

\* What the newest one's file has is read, unless it is gone by now.
Read ==
    /\ job.kind = "stat" /\ job.todo = {} /\ job' = [Idle EXCEPT !.kind = "return"]
    /\ LET kind == IF job.newest = None THEN "none"
                   ELSE IF files[job.newest.token] = None THEN "invalid" ELSE "token"
       IN  /\ answer' = Answer(kind)
           /\ LogInfo(CASE kind = "none" -> <<>>
                     [] kind = "invalid" -> << <<"path">> >>
                     [] kind = "token" -> << <<"path">>, <<"loaded">> >>)
    /\ UNCHANGED <<held, files, steady>>

Return ==
    /\ job.kind = "return" /\ job' = Idle
    /\ answer' = None /\ steady' = {}
    /\ UNCHANGED logVars /\ UNCHANGED <<held, files>>

\* The blocks a program puts around its calls, and the thread.
Blocks ==
    /\ \/ Free /\ (EnterContext \/ ExitContext)
       \/ MayCall /\ \E op \in Operation : Start(op)
       \/ Free /\ \E error \in BOOLEAN : Stop(error)
       \/ job = Idle /\ Stopped
       \/ Check \/ Draw
    /\ UNCHANGED <<job, StoreVars>>

Next ==
    \/ Blocks
    \/ Create \/ Answered \/ Created \/ Save \/ SaveWrite \/ SaveReplace
    \/ OtherReplace \/ Cleanup
    \/ Load \/ Stat \/ Read \/ Return

Spec == Init /\ [][Next]_vars

-----------------------------------------------------------------------------
(* Properties *)

\* A load returns a token of its name that no file there during the whole load
\* is newer than; it finds none only if none was there all the time, and calls
\* the stored token invalid only if that was touched meanwhile
\* (token_store.py: load_query_token, _newest).
LoadsNewest ==
    answer # None =>
        LET f == answer.found
            there == DOMAIN answer.steady
        IN  /\ answer.kind = "none" => there = {}
            /\ answer.kind = "invalid" => f.token \notin there
            /\ answer.kind # "none" =>
                  /\ answer.name # None => NameOf[f.token] = answer.name
                  /\ \A t \in there : answer.steady[t] < f.time \/ (answer.steady[t] = f.time /\ t <= f.token)

=============================================================================
