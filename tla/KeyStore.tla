------------------------------ MODULE KeyStore ------------------------------
(***************************************************************************)
(* The local key storage of lattica_query (storage/key_store.py and        *)
(* storage/_files.py): one directory per path, holding immutable revisions *)
(* and a file `current` naming the revision in use.  Several clients       *)
(* (processes or threads) work on the same paths, serialized by a file     *)
(* lock.  Every file system call that another client, a crash or an        *)
(* exception can observe is a step of its own.                             *)
(*                                                                         *)
(* Data abstraction: context.bin, secret-key.bin and client-model.bin are  *)
(* written, read and validated alike and are one artifact, "key".  A       *)
(* revision name (uuid4) is an element of Revision that is used once.      *)
(***************************************************************************)
EXTENDS Naturals, FiniteSets

CONSTANTS
    Client,         \* processes and threads that use the key store
    Path,           \* directories that hold a key bundle
    Token,          \* query tokens, identified by their id
    Revision,       \* uuid4 names, each drawn at most once
    TokenOf,        \* TokenOf[c]: the token client c was built with
    NoClient, NoRevision,
    LateFailure     \* TRUE: a call may raise after its rename took effect
                    \* (directory fsync error, KeyboardInterrupt)

ASSUME TokenOfType == TokenOf \in [Client -> Token]
ASSUME PathIsInhabited == Path # {} /\ Token # {}
ASSUME NullsAreFresh == NoClient \notin Client /\ NoRevision \notin Revision
ASSUME LateFailureType == LateFailure \in BOOLEAN

VARIABLES
    pc,             \* pc[c]: the step client c is about to take
    path,           \* path[c]: the path the running call works on
    held,           \* held[c]: the revision of the StoredKey in c's hands
    lock,           \* lock[p]: the client that holds the flock of p
    current,        \* current[p]: the content of the file p/current
    dir,            \* dir[r]: "new" (never drawn), "staging", "bundle", "gone"
    home,           \* home[r]: the path r was saved under
    owner,          \* owner[r]: the token in r's metadata
    artifacts,      \* artifacts[r]: the complete files of r
    uploaded        \* uploaded[r]: evaluation_key_uploaded in r's metadata

files == <<dir, home, owner, artifacts, uploaded>>
storeVars == <<pc, path, held, lock, current, files>>

Artifact == {"key", "ek", "meta"}

\* A step may raise: inside save_key_bundle's try block the bundle is removed first.
Saving == {"write", "rename", "commit"}
Fallible == Saving \cup {"check", "load", "fetch", "stage", "prune",
                         "put", "alert", "worker", "preprocess", "mark"}
Locked == Fallible \cup {"cleanup", "return", "raise"}
Step == Locked \cup {"idle", "lock"}

Goto(c, to) == pc' = [pc EXCEPT ![c] = to]

\* What load_key_bundle accepts: the directory and every artifact are there.
Usable(r) == dir[r] = "bundle" /\ artifacts[r] = Artifact

\* path of an idle client, home and owner of an undrawn revision: any value will do.
SomePath == CHOOSE p \in Path : TRUE
SomeToken == CHOOSE t \in Token : TRUE

StoreInit ==
    /\ pc = [c \in Client |-> "idle"]
    /\ path = [c \in Client |-> SomePath]
    /\ held = [c \in Client |-> NoRevision]
    /\ lock = [p \in Path |-> NoClient]
    /\ current = [p \in Path |-> NoRevision]
    /\ dir = [r \in Revision |-> "new"]
    /\ home = [r \in Revision |-> SomePath]
    /\ owner = [r \in Revision |-> SomeToken]
    /\ artifacts = [r \in Revision |-> {}]
    /\ uploaded = [r \in Revision |-> FALSE]

-----------------------------------------------------------------------------
(* key_lock *)

\* (Slip: the lock is not awaited.)
AcquireUnlocked(c, to) ==
    /\ pc[c] = "lock"
    /\ lock' = [lock EXCEPT ![path[c]] = c]
    /\ Goto(c, to)
    /\ UNCHANGED <<path, held, current, files>>

\* key_lock(resolved_path): flock(LOCK_EX) blocks while another client holds it.
Acquire(c, to) ==
    /\ pc[c] = "lock"
    /\ lock[path[c]] = NoClient
    /\ lock' = [lock EXCEPT ![path[c]] = c]
    /\ Goto(c, to)
    /\ UNCHANGED <<path, held, current, files>>

Release(c) ==
    /\ lock' = [p \in Path |-> IF lock[p] = c THEN NoClient ELSE lock[p]]
    /\ held' = [held EXCEPT ![c] = NoRevision]
    /\ path' = [path EXCEPT ![c] = SomePath]
    /\ Goto(c, "idle")
    /\ UNCHANGED <<current, files>>

\* (Slip: an exception skips the unlock.)
UnlockOnReturn(c) ==
    \/ pc[c] = "return" /\ Release(c)
    \/ /\ pc[c] = "raise"
       /\ Goto(c, "idle")
       /\ UNCHANGED <<path, held, lock, current, files>>

\* The call returns or raises: the context manager unlocks.
Unlock(c) == pc[c] \in {"return", "raise"} /\ Release(c)

\* The process dies at any point: the kernel drops its flock, the files stay.
Crash(c) == pc[c] # "idle" /\ Release(c)

\* A step raises without any effect.
StepFails(c) ==
    /\ pc[c] \in Fallible
    /\ Goto(c, IF pc[c] \in Saving THEN "cleanup" ELSE "raise")
    /\ UNCHANGED <<path, held, lock, current, files>>

-----------------------------------------------------------------------------
(* load_key_bundle and the token check of _load_bundle *)

key_bundle_exists(p) == current[p] # NoRevision

\* (Slip: the token id in the metadata is not compared.)
LoadableForAnyToken(c) ==
    current[path[c]] # NoRevision /\ Usable(current[path[c]])

Loadable(c) ==
    LET r == current[path[c]]
    IN  /\ r # NoRevision
        /\ Usable(r)
        /\ owner[r] = TokenOf[c]

Load(c, to) ==
    /\ pc[c] = "load"
    /\ Loadable(c)
    /\ held' = [held EXCEPT ![c] = current[path[c]]]
    /\ Goto(c, to)
    /\ UNCHANGED <<path, lock, current, files>>

\* FileNotFoundError, KeyStorageError or KeyTokenMismatchError.
LoadRaises(c) ==
    /\ pc[c] = "load"
    /\ ~Loadable(c)
    /\ Goto(c, "raise")
    /\ UNCHANGED <<path, held, lock, current, files>>

-----------------------------------------------------------------------------
(* save_key_bundle *)

\* A fresh revision name and its empty staging directory.
Stage(c) ==
    /\ pc[c] = "stage"
    /\ \E r \in Revision :
        /\ dir[r] = "new"
        /\ dir' = [dir EXCEPT ![r] = "staging"]
        /\ home' = [home EXCEPT ![r] = path[c]]
        /\ owner' = [owner EXCEPT ![r] = TokenOf[c]]
        /\ held' = [held EXCEPT ![c] = r]
    /\ Goto(c, "write")
    /\ UNCHANGED <<path, lock, current, artifacts, uploaded>>

\* The order of the atomic_private_write calls; the metadata is last.
NextArtifact(done) ==
    CASE "key" \notin done -> "key"
      [] "key" \in done /\ "ek" \notin done -> "ek"
      [] OTHER -> "meta"

WriteArtifact(c) ==
    /\ pc[c] = "write"
    /\ LET a == NextArtifact(artifacts[held[c]])
       IN  /\ artifacts' = [artifacts EXCEPT ![held[c]] = @ \cup {a}]
           /\ Goto(c, IF a = "meta" THEN "rename" ELSE "write")
    /\ UNCHANGED <<path, held, lock, current, dir, home, owner, uploaded>>

\* (Slip: the staging directory is never renamed.)
RenameForgotten(c) ==
    /\ pc[c] = "rename"
    /\ Goto(c, "commit")
    /\ UNCHANGED <<path, held, lock, current, files>>

\* os.replace(staging_path, bundle_path); with a late failure the handler runs.
Rename(c) ==
    /\ pc[c] = "rename"
    /\ dir' = [dir EXCEPT ![held[c]] = "bundle"]
    /\ \/ Goto(c, "commit")
       \/ LateFailure /\ Goto(c, "cleanup")
    /\ UNCHANGED <<path, held, lock, current, home, owner, artifacts, uploaded>>

\* atomic_private_write(current, revision): its os.replace is the commit point,
\* the directory fsync after it can still raise into save_key_bundle's handler.
Commit(c) ==
    /\ pc[c] = "commit"
    /\ current' = [current EXCEPT ![path[c]] = held[c]]
    /\ \/ Goto(c, "prune")
       \/ LateFailure /\ Goto(c, "cleanup")
    /\ UNCHANGED <<path, held, lock, files>>

\* rmtree(ignore_errors=True) of the directories in rs: each is removed, torn
\* (some files gone, the directory left) or untouched.
RemoveTrees(rs) ==
    \E gone, torn \in SUBSET rs :
        /\ gone \cap torn = {}
        /\ dir' = [r \in Revision |-> IF r \in gone THEN "gone" ELSE dir[r]]
        /\ artifacts' = [r \in Revision |->
                            IF r \in gone \cup torn THEN {} ELSE artifacts[r]]

OnDisk(p) == {r \in Revision : home[r] = p /\ dir[r] \in {"staging", "bundle"}}

\* The except BaseException handler: both directories of the new revision.
Cleanup(c) ==
    /\ pc[c] = "cleanup"
    /\ RemoveTrees({held[c]})
    /\ Goto(c, "raise")
    /\ UNCHANGED <<path, held, lock, current, home, owner, uploaded>>

\* (Slip: the new revision is not spared.)
PruneAll(c, to) ==
    /\ pc[c] = "prune"
    /\ RemoveTrees(OnDisk(path[c]))
    /\ Goto(c, to)
    /\ UNCHANGED <<path, held, lock, current, home, owner, uploaded>>

\* _remove_old_revisions: every directory but the new revision's.
Prune(c, to) ==
    /\ pc[c] = "prune"
    /\ RemoveTrees(OnDisk(path[c]) \ {held[c]})
    /\ Goto(c, to)
    /\ UNCHANGED <<path, held, lock, current, home, owner, uploaded>>

-----------------------------------------------------------------------------
(* mark_key_uploaded: metadata.json is replaced atomically. *)
MarkUploaded(c) ==
    /\ pc[c] = "mark"
    /\ uploaded' = [uploaded EXCEPT ![held[c]] = TRUE]
    /\ \/ Goto(c, "return")
       \/ LateFailure /\ Goto(c, "raise")
    /\ UNCHANGED <<path, held, lock, current, dir, home, owner, artifacts>>

StoreTypeOK ==
    /\ pc \in [Client -> Step]
    /\ path \in [Client -> Path]
    /\ held \in [Client -> Revision \cup {NoRevision}]
    /\ lock \in [Path -> Client \cup {NoClient}]
    /\ current \in [Path -> Revision \cup {NoRevision}]
    /\ dir \in [Revision -> {"new", "staging", "bundle", "gone"}]
    /\ home \in [Revision -> Path]
    /\ owner \in [Revision -> Token]
    /\ artifacts \in [Revision -> SUBSET Artifact]
    /\ uploaded \in [Revision -> BOOLEAN]
=============================================================================
