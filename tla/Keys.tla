-------------------------------- MODULE Keys --------------------------------
(***************************************************************************)
(* KeysAPI (client/keys.py): ensure, generate and load over the local key  *)
(* store, with the registration of the evaluation key at the backend       *)
(* (transport/backend.py: upload_file_and_alert, is_worker_up) and its     *)
(* preprocessing by a running worker.                                      *)
(*                                                                         *)
(* The backend and the worker are external: the backend keeps the last     *)
(* evaluation key whose upload was reported complete, and a worker loads   *)
(* the backend's key when it comes up and when it is told to preprocess.   *)
(***************************************************************************)
EXTENDS KeyStore

CONSTANT LateAlerts     \* TRUE: an alert the client gave up on may still arrive

ASSUME LateAlertsType == LateAlerts \in BOOLEAN

VARIABLES
    op,             \* op[c]: the public call client c is running
    blobs,          \* evaluation keys in the object store
    registered,     \* evaluation keys whose upload the backend acknowledged
    ek,             \* ek[t]: the evaluation key registered for token t
    inflight,       \* alerts given up on by a client and not yet processed
    workerUp,       \* the status the backend reports is "UP"
    workerKey       \* workerKey[t]: t's evaluation key in the worker's memory

backendVars == <<blobs, registered, ek, inflight, workerUp, workerKey>>
vars == <<storeVars, op, backendVars>>

Op == {"ensure", "generate", "generate_local", "load"}

Init ==
    /\ StoreInit
    /\ op = [c \in Client |-> "load"]
    /\ blobs = {}
    /\ registered = {}
    /\ ek = [t \in Token |-> NoRevision]
    /\ inflight = {}
    /\ workerUp \in BOOLEAN
    /\ workerKey = [t \in Token |-> NoRevision]

-----------------------------------------------------------------------------
(* The public calls: each takes the lock of its path first. *)

Call(c, o, p) ==
    /\ pc[c] = "idle"
    /\ op' = [op EXCEPT ![c] = o]
    /\ path' = [path EXCEPT ![c] = p]
    /\ Goto(c, "lock")
    /\ UNCHANGED <<held, lock, current, files, backendVars>>

EnterLock(c) ==
    /\ Acquire(c, CASE op[c] = "ensure" -> "check"
                    [] op[c] = "load" -> "load"
                    [] OTHER -> "fetch")
    /\ UNCHANGED <<op, backendVars>>

\* ensure: generate when there is no bundle, load it when there is one.
CheckBundle(c) ==
    /\ pc[c] = "check"
    /\ Goto(c, IF key_bundle_exists(path[c]) THEN "load" ELSE "fetch")
    /\ UNCHANGED <<path, held, lock, current, files, op, backendVars>>

\* (Slip: ensure returns a loaded key without resuming its registration.)
LoadBundleOnly(c) == Load(c, "return") /\ UNCHANGED <<op, backendVars>>

\* ensure registers a loaded key that is still pending.
LoadBundle(c) ==
    /\ Load(c, IF op[c] = "ensure" /\ ~uploaded[current[path[c]]]
               THEN "put" ELSE "return")
    /\ UNCHANGED <<op, backendVars>>

\* _generate: the initialization data, fetched or passed in, and the FHE key.
FetchAndGenerate(c) ==
    /\ pc[c] = "fetch"
    /\ Goto(c, "stage")
    /\ UNCHANGED <<path, held, lock, current, files, op, backendVars>>

PruneThenRegister(c) ==
    /\ Prune(c, IF op[c] = "generate_local" THEN "return" ELSE "put")
    /\ UNCHANGED <<op, backendVars>>

StoreStep(c) ==
    /\ \/ Stage(c) \/ WriteArtifact(c) \/ Rename(c) \/ Commit(c)
       \/ Cleanup(c) \/ MarkUploaded(c) \/ LoadRaises(c) \/ Unlock(c)
    /\ UNCHANGED <<op, backendVars>>

-----------------------------------------------------------------------------
(* _upload_evaluation_key *)

\* (Slip: the upload is not followed by the alert.)
PutKeyWithoutAlert(c) ==
    /\ pc[c] = "put"
    /\ blobs' = blobs \cup {held[c]}
    /\ Goto(c, "worker")
    /\ UNCHANGED <<path, held, lock, current, files, op>>
    /\ UNCHANGED <<registered, ek, inflight, workerUp, workerKey>>

\* _upload_file: the upload target, then the PUT.  A failed PUT may have stored it.
PutKey(c) ==
    /\ pc[c] = "put"
    /\ blobs' = blobs \cup {held[c]}
    /\ Goto(c, "alert") \/ Goto(c, "raise")
    /\ UNCHANGED <<path, held, lock, current, files, op>>
    /\ UNCHANGED <<registered, ek, inflight, workerUp, workerKey>>

\* The backend's side of api/files/upload_complete.
Register(r) ==
    /\ r \in blobs
    /\ registered' = registered \cup {r}
    /\ ek' = [ek EXCEPT ![owner[r]] = r]

\* _alert_upload_complete; the answer may be lost after the backend acted on it.
AlertComplete(c) ==
    /\ pc[c] = "alert"
    /\ Register(held[c])
    /\ Goto(c, "worker") \/ Goto(c, "raise")
    /\ UNCHANGED <<path, held, lock, current, files, op>>
    /\ UNCHANGED <<blobs, inflight, workerUp, workerKey>>

\* The client times out, the request is still on its way.
AlertDelayed(c) ==
    /\ LateAlerts
    /\ pc[c] = "alert"
    /\ inflight' = inflight \cup {held[c]}
    /\ Goto(c, "raise")
    /\ UNCHANGED <<path, held, lock, current, files, op>>
    /\ UNCHANGED <<blobs, registered, ek, workerUp, workerKey>>

AlertArrives(r) ==
    /\ r \in inflight
    /\ Register(r)
    /\ inflight' = inflight \ {r}
    /\ UNCHANGED <<storeVars, op, blobs, workerUp, workerKey>>

\* (Slip: a running worker is not told about the new key.)
CheckNoWorker(c) ==
    /\ pc[c] = "worker"
    /\ Goto(c, "mark")
    /\ UNCHANGED <<path, held, lock, current, files, op, backendVars>>

\* if not is_worker_up(): return -- a worker that starts later loads the key itself.
CheckWorker(c) ==
    /\ pc[c] = "worker"
    /\ Goto(c, IF workerUp THEN "preprocess" ELSE "mark")
    /\ UNCHANGED <<path, held, lock, current, files, op, backendVars>>

\* preprocess_evaluation_key: the worker reloads the backend's key.  It raises
\* (StepFails) when the worker went down since the check; its answer may be lost.
Preprocess(c) ==
    /\ pc[c] = "preprocess"
    /\ workerUp
    /\ workerKey' = [workerKey EXCEPT ![TokenOf[c]] = ek[TokenOf[c]]]
    /\ Goto(c, "mark") \/ Goto(c, "raise")
    /\ UNCHANGED <<path, held, lock, current, files, op>>
    /\ UNCHANGED <<blobs, registered, ek, inflight, workerUp>>

-----------------------------------------------------------------------------
(* The environment: workers come and go, calls fail, processes die. *)

WorkerStarts ==
    /\ ~workerUp
    /\ workerUp' = TRUE
    /\ workerKey' = ek
    /\ UNCHANGED <<storeVars, op, blobs, registered, ek, inflight>>

WorkerStops ==
    /\ workerUp
    /\ workerUp' = FALSE
    /\ workerKey' = [t \in Token |-> NoRevision]
    /\ UNCHANGED <<storeVars, op, blobs, registered, ek, inflight>>

CallFails(c) == StepFails(c) /\ UNCHANGED <<op, backendVars>>
ClientDies(c) == Crash(c) /\ UNCHANGED <<op, backendVars>>

ClientStep(c) ==
    \/ EnterLock(c) \/ CheckBundle(c) \/ LoadBundle(c) \/ FetchAndGenerate(c)
    \/ StoreStep(c) \/ PruneThenRegister(c)
    \/ PutKey(c) \/ AlertComplete(c) \/ AlertDelayed(c)
    \/ CheckWorker(c) \/ Preprocess(c) \/ CallFails(c)

Next ==
    \/ \E c \in Client :
        \/ \E o \in Op, p \in Path : Call(c, o, p)
        \/ ClientStep(c)
        \/ ClientDies(c)
    \/ \E r \in Revision : AlertArrives(r)
    \/ WorkerStarts
    \/ WorkerStops

Spec == Init /\ [][Next]_vars
-----------------------------------------------------------------------------
(* Safety *)

TypeOK ==
    /\ StoreTypeOK
    /\ op \in [Client -> Op]
    /\ blobs \subseteq Revision
    /\ registered \subseteq Revision
    /\ ek \in [Token -> Revision \cup {NoRevision}]
    /\ inflight \subseteq Revision
    /\ workerUp \in BOOLEAN
    /\ workerKey \in [Token -> Revision \cup {NoRevision}]

\* A path that has a key can be used: `current` always names a complete bundle,
\* whatever generation was interrupted or crashed half way (README, "Key storage
\* and recovery": an interrupted generation leaves the previous revision usable).
CurrentUsable ==
    \A p \in Path : current[p] # NoRevision => Usable(current[p])

\* evaluation_key_uploaded in the metadata of a key in use means that the backend
\* acknowledged the registration of that very key (mark_key_uploaded).
UploadedMeansRegistered ==
    \A p \in Path : current[p] # NoRevision /\ uploaded[current[p]]
        => current[p] \in registered

\* What ensure() and generate() return is the key in use at their path, it belongs
\* to the caller's token, and its registration is complete and recorded.
ReturnedKeyIsReady ==
    \A c \in Client : pc[c] = "return" =>
        /\ held[c] = current[path[c]]
        /\ owner[held[c]] = TokenOf[c]
        /\ op[c] \in {"ensure", "generate"} =>
              uploaded[held[c]] /\ held[c] \in registered

\* No client ever registers, for any token, an evaluation key generated for another
\* token, even when two tokens share an explicit path (KeyTokenMismatchError).
NoForeignKey ==
    /\ \A t \in Token : ek[t] # NoRevision => owner[ek[t]] = t
    /\ \A c \in Client : pc[c] \in {"put", "alert", "worker", "preprocess", "mark"}
        => owner[held[c]] = TokenOf[c]

\* With one path and prompt alerts, a key recorded as uploaded is the key the
\* backend has for its token: no older registration can overwrite it.
BackendHasKeyInUse ==
    \A p \in Path : current[p] # NoRevision /\ uploaded[current[p]]
        => ek[owner[current[p]]] = current[p]

\* ... and a worker that is up computes with that key, however the worker came up
\* or went down around the is_worker_up check of _upload_evaluation_key.
WorkerServesKeyInUse ==
    \A p \in Path : current[p] # NoRevision /\ uploaded[current[p]] /\ workerUp
        => workerKey[owner[current[p]]] = current[p]
-----------------------------------------------------------------------------
(* The inductive invariant behind the safety properties. *)

\* Where a client has a StoredKey, and where that key is already the one in use.
InHand == {"write", "rename", "commit", "cleanup"}
Committed == {"prune", "put", "alert", "worker", "preprocess", "mark", "return"}

\* Whoever is past key_lock holds the lock of the path it works on.
LockInv == \A c \in Client : pc[c] \in Locked => lock[path[c]] = c

\* A client's revision belongs to its path and its token.
HeldInv ==
    \A c \in Client : pc[c] \in InHand \cup Committed =>
        /\ held[c] \in Revision
        /\ dir[held[c]] # "new"
        /\ home[held[c]] = path[c]
        /\ owner[held[c]] = TokenOf[c]

\* How far an uncommitted revision has got.
SavingInv ==
    \A c \in Client :
        /\ pc[c] = "write" => "meta" \notin artifacts[held[c]]
        /\ pc[c] = "rename" => artifacts[held[c]] = Artifact
        /\ pc[c] = "commit" => Usable(held[c])
        /\ pc[c] \in Saving => current[path[c]] # held[c]
        /\ pc[c] \in Saving => held[c] \notin blobs \cup inflight \cup registered
        /\ ~LateFailure /\ pc[c] = "cleanup" => current[path[c]] # held[c]

\* From the commit on, and after a load, the revision in hand is the one in use.
CommittedInv ==
    \A c \in Client :
        /\ pc[c] \in Committed => current[path[c]] = held[c]
        /\ pc[c] \in {"worker", "preprocess", "mark"} => held[c] \in registered
        /\ pc[c] = "return" /\ op[c] \in {"ensure", "generate"} => uploaded[held[c]]
        /\ pc[c] = "load" => op[c] \in {"ensure", "load"}
        /\ pc[c] = "check" => op[c] = "ensure"

\* What the files and the backend say about a revision.
RevisionInv ==
    /\ \A p \in Path : current[p] # NoRevision =>
        home[current[p]] = p /\ dir[current[p]] # "new"
    /\ \A r \in Revision : uploaded[r] => r \in registered
    /\ \A r \in blobs \cup inflight \cup registered : dir[r] # "new"
    /\ \A r \in Revision : dir[r] = "new" => artifacts[r] = {}
    /\ \A t \in Token : ek[t] # NoRevision => owner[ek[t]] = t /\ dir[ek[t]] # "new"
    /\ ~LateFailure => CurrentUsable

IInv == TypeOK /\ LockInv /\ HeldInv /\ SavingInv /\ CommittedInv /\ RevisionInv

\* With one path and prompt alerts: the key whose registration a client is about
\* to record is the one the backend, and a worker that is up, have by then.
BackendInv ==
    /\ inflight = {}
    /\ \A c \in Client : pc[c] \in {"worker", "preprocess", "mark"} => ek[TokenOf[c]] = held[c]
    /\ \A c \in Client : pc[c] = "mark" /\ workerUp => workerKey[TokenOf[c]] = held[c]
    /\ BackendHasKeyInUse /\ WorkerServesKeyInUse

-----------------------------------------------------------------------------
(* Refinement: `current` is the abstract key, the commit is the replacement. *)

InUse(p) == current[p] # NoRevision

KeyInUse == [p \in Path |->
    IF InUse(p) /\ Usable(current[p]) THEN current[p] ELSE NoRevision]
KeyConfirmed == [p \in Path |-> InUse(p) /\ uploaded[current[p]]]

Registry == INSTANCE KeyRegistry WITH
    key <- KeyInUse, confirmed <- KeyConfirmed, acknowledged <- registered

\* save_key_bundle, mark_key_uploaded and the registration implement the abstract
\* registry: every intermediate file operation is invisible to a later reader.
ImplementsRegistry == Registry!RegSpec

-----------------------------------------------------------------------------
(* Liveness *)

\* flock and the calls under it: a client that is scheduled takes its next step,
\* and a client waiting for a lock that keeps being released gets it.
Progress(c) == WF_vars(ClientStep(c)) /\ SF_vars(EnterLock(c))

FairSpec == Spec /\ \A c \in Client : Progress(c)
\* A call that raises, a process that dies, a worker that stops.  Only a call that
\* finds no fresh name (the bound on Revision) does not count.
Fault ==
    \/ WorkerStops
    \/ \E c \in Client :
        \/ pc[c] \in Locked \ {"stage", "raise"} /\ pc'[c] = "raise"
        \/ pc[c] \notin {"idle", "return", "raise"} /\ pc'[c] = "idle"

\* One client that keeps coming back to ensure(p), between other calls.
Retries == \A p \in Path : SF_vars(Call(CHOOSE c \in Client : TRUE, "ensure", p))

\* The README's "the key stays pending and the next client.keys.ensure() resumes
\* registration": after any number of interrupted uploads, crashes and stopped
\* workers, once they cease a pending key is registered (or replaced).
PendingIsRegistered ==
    Retries /\ <>[][~Fault]_vars =>
        \A p \in Path, r \in Revision :
            current[p] = r /\ ~uploaded[r] ~> uploaded[r] \/ current[p] # r
=============================================================================
