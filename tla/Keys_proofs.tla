----------------------------- MODULE Keys_proofs -----------------------------
(***************************************************************************)
(* Proofs about Keys, for every set of clients, paths, tokens and          *)
(* revisions: the inductive invariant IInv and the safety properties that  *)
(* follow from it.                                                         *)
(***************************************************************************)
EXTENDS Keys, TLAPS

USE TokenOfType, PathIsInhabited, NullsAreFresh, LateFailureType, LateAlertsType

\* The initial states satisfy the inductive invariant.
LEMMA InitIInv == Init => IInv
<1> SUFFICES ASSUME Init PROVE IInv
  OBVIOUS
<1>1. SomePath \in Path /\ SomeToken \in Token
  BY DEF SomePath, SomeToken
<1>2. TypeOK
  BY <1>1 DEF Init, StoreInit, TypeOK, StoreTypeOK, Step, Locked, Fallible, Saving, Op
<1>3. LockInv /\ HeldInv /\ SavingInv /\ CommittedInv
  BY DEF Init, StoreInit, LockInv, HeldInv, SavingInv, CommittedInv, InHand,
         Committed, Locked, Fallible, Saving
<1>4. RevisionInv
  BY DEF Init, StoreInit, RevisionInv, CurrentUsable
<1> QED
  BY <1>2, <1>3, <1>4 DEF IInv

-----------------------------------------------------------------------------
\* A step that only moves the program counters or the path of an idle client, and
\* touches neither the files nor the backend, keeps the revision facts.
LEMMA RevisionFrame ==
    ASSUME RevisionInv, UNCHANGED <<current, files, blobs, registered, ek, inflight>>
    PROVE  RevisionInv'
BY DEF RevisionInv, CurrentUsable, Usable, files

\* Two different clients past key_lock work on different paths.
LEMMA Exclusive ==
    ASSUME LockInv, TypeOK, NEW c \in Client, NEW d \in Client, c # d,
           pc[c] \in Locked, pc[d] \in Locked
    PROVE  path[c] # path[d]
BY DEF LockInv

\* Every step keeps the types.
LEMMA StepTypeOK == TypeOK /\ HeldInv /\ [Next]_vars => TypeOK'
<1> SUFFICES ASSUME TypeOK, HeldInv, [Next]_vars PROVE TypeOK'
  OBVIOUS
<1> USE DEF TypeOK, StoreTypeOK
<1>0. SomePath \in Path
  BY DEF SomePath
<1>1. ASSUME NEW c \in Client, NEW o \in Op, NEW p \in Path, Call(c, o, p)
      PROVE  TypeOK'
  BY <1>1 DEF Call, Goto, Step, files, backendVars
<1>2. ASSUME NEW c \in Client, EnterLock(c) PROVE TypeOK'
  BY <1>2 DEF EnterLock, Acquire, Goto, Step, Locked, Fallible, files, backendVars, Op
<1>3. ASSUME NEW c \in Client, CheckBundle(c) PROVE TypeOK'
  BY <1>3 DEF CheckBundle, Goto, Step, Locked, Fallible, files, backendVars
<1>4. ASSUME NEW c \in Client, LoadBundle(c) PROVE TypeOK'
  BY <1>4 DEF LoadBundle, Load, Loadable, Goto, Step, Locked, Fallible, files, backendVars
<1>5. ASSUME NEW c \in Client, FetchAndGenerate(c) PROVE TypeOK'
  BY <1>5 DEF FetchAndGenerate, Goto, Step, Locked, Fallible, files, backendVars
<1>6. ASSUME NEW c \in Client, StoreStep(c) PROVE TypeOK'
  <2> USE DEF Goto, Step, Locked, Fallible, Saving, files, backendVars
  <2>1. CASE Stage(c)
    BY <1>6, <2>1 DEF StoreStep, Stage
  <2>2. CASE WriteArtifact(c)
    <3>1. NextArtifact(artifacts[held[c]]) \in Artifact
      BY DEF NextArtifact, Artifact
    <3> QED
      BY <1>6, <2>2, <3>1 DEF StoreStep, WriteArtifact
  <2>3. CASE Rename(c)
    BY <1>6, <2>3 DEF StoreStep, Rename
  <2>6. CASE Commit(c)
    BY <1>6, <2>6 DEF StoreStep, Commit
  <2>7. CASE MarkUploaded(c)
    BY <1>6, <2>7 DEF StoreStep, MarkUploaded
  <2>4. CASE Cleanup(c)
    BY <1>6, <2>4 DEF StoreStep, Cleanup, RemoveTrees
  <2>5. CASE LoadRaises(c) \/ Unlock(c)
    BY <1>0, <1>6, <2>5 DEF StoreStep, LoadRaises, Unlock, Release
  <2> QED
    BY <1>6, <2>1, <2>2, <2>3, <2>4, <2>5, <2>6, <2>7 DEF StoreStep
<1>7. ASSUME NEW c \in Client, PruneThenRegister(c) PROVE TypeOK'
  BY <1>7 DEF PruneThenRegister, Prune, RemoveTrees, Goto, Step, Locked, Fallible,
              files, backendVars
<1>8. ASSUME NEW c \in Client, PutKey(c) PROVE TypeOK'
  BY <1>8 DEF PutKey, HeldInv, Committed, Goto, Step, Locked, Fallible, files
<1>9. ASSUME NEW c \in Client, AlertComplete(c) PROVE TypeOK'
  BY <1>9 DEF AlertComplete, Register, HeldInv, Committed, Goto, Step, Locked, Fallible, files
<1>10. ASSUME NEW c \in Client, AlertDelayed(c) PROVE TypeOK'
  BY <1>10 DEF AlertDelayed, HeldInv, Committed, Goto, Step, Locked, Fallible, files
<1>11. ASSUME NEW c \in Client, CheckWorker(c) PROVE TypeOK'
  BY <1>11 DEF CheckWorker, Goto, Step, Locked, Fallible, files, backendVars
<1>12. ASSUME NEW c \in Client, Preprocess(c) PROVE TypeOK'
  BY <1>12 DEF Preprocess, Goto, Step, Locked, Fallible, files
<1>13. ASSUME NEW c \in Client, CallFails(c) \/ ClientDies(c) PROVE TypeOK'
  BY <1>0, <1>13 DEF CallFails, ClientDies, StepFails, Crash, Release, Goto, Step,
                     Locked, Fallible, Saving, files, backendVars
<1>14. ASSUME NEW r \in Revision, AlertArrives(r) PROVE TypeOK'
  BY <1>14 DEF AlertArrives, Register, storeVars, files
<1>15. CASE WorkerStarts \/ WorkerStops
  BY <1>15 DEF WorkerStarts, WorkerStops, storeVars, files
<1>16. CASE UNCHANGED vars
  BY <1>16 DEF vars, storeVars, files, backendVars
<1> QED
  BY <1>1, <1>2, <1>3, <1>4, <1>5, <1>6, <1>7, <1>8, <1>9, <1>10, <1>11, <1>12,
     <1>13, <1>14, <1>15, <1>16 DEF Next, ClientStep


-----------------------------------------------------------------------------
LEMMA CallIInv ==
    ASSUME IInv, TypeOK', NEW c \in Client, NEW o \in Op, NEW p \in Path, Call(c, o, p)
    PROVE  IInv'
<1> USE DEF IInv, TypeOK, StoreTypeOK, Goto, files, Locked, Fallible, Saving, InHand, Committed
<1>1. LockInv'
  BY DEF LockInv, Call, backendVars
<1>2. HeldInv'
  BY DEF LockInv, HeldInv, CommittedInv, RevisionInv, Call, backendVars
<1>3. SavingInv'
  BY DEF LockInv, HeldInv, SavingInv, CommittedInv, RevisionInv, Usable, Call, backendVars
<1>4. CommittedInv'
  BY DEF LockInv, HeldInv, SavingInv, CommittedInv, RevisionInv, Call, backendVars
<1>5. RevisionInv'
  BY DEF LockInv, HeldInv, SavingInv, CommittedInv, RevisionInv, CurrentUsable, Usable, Call, backendVars
<1> QED
  BY <1>1, <1>2, <1>3, <1>4, <1>5

LEMMA EnterLockIInv ==
    ASSUME IInv, TypeOK', NEW c \in Client, EnterLock(c)
    PROVE  IInv'
<1> USE DEF IInv, TypeOK, StoreTypeOK, Goto, files, Locked, Fallible, Saving, InHand, Committed
<1>1. LockInv'
  BY DEF LockInv, EnterLock, Acquire, backendVars
<1>2. HeldInv'
  BY DEF LockInv, HeldInv, CommittedInv, RevisionInv, EnterLock, Acquire, backendVars
<1>3. SavingInv'
  BY DEF LockInv, HeldInv, SavingInv, CommittedInv, RevisionInv, Usable, EnterLock, Acquire, backendVars
<1>4. CommittedInv'
  BY DEF LockInv, HeldInv, SavingInv, CommittedInv, RevisionInv, EnterLock, Acquire, backendVars
<1>5. RevisionInv'
  BY DEF LockInv, HeldInv, SavingInv, CommittedInv, RevisionInv, CurrentUsable, Usable, EnterLock, Acquire, backendVars
<1> QED
  BY <1>1, <1>2, <1>3, <1>4, <1>5

LEMMA CheckBundleIInv ==
    ASSUME IInv, TypeOK', NEW c \in Client, CheckBundle(c)
    PROVE  IInv'
<1> USE DEF IInv, TypeOK, StoreTypeOK, Goto, files, Locked, Fallible, Saving, InHand, Committed
<1>1. LockInv'
  BY DEF LockInv, CheckBundle, backendVars
<1>2. HeldInv'
  BY DEF LockInv, HeldInv, CommittedInv, RevisionInv, CheckBundle, backendVars
<1>3. SavingInv'
  BY DEF LockInv, HeldInv, SavingInv, CommittedInv, RevisionInv, Usable, CheckBundle, backendVars
<1>4. CommittedInv'
  BY DEF LockInv, HeldInv, SavingInv, CommittedInv, RevisionInv, CheckBundle, backendVars
<1>5. RevisionInv'
  BY DEF LockInv, HeldInv, SavingInv, CommittedInv, RevisionInv, CurrentUsable, Usable, CheckBundle, backendVars
<1> QED
  BY <1>1, <1>2, <1>3, <1>4, <1>5

LEMMA LoadBundleIInv ==
    ASSUME IInv, TypeOK', NEW c \in Client, LoadBundle(c)
    PROVE  IInv'
<1> USE DEF IInv, TypeOK, StoreTypeOK, Goto, files, Locked, Fallible, Saving, InHand, Committed
<1>1. LockInv'
  BY DEF LockInv, LoadBundle, Load, Loadable, Usable, backendVars
<1>2. HeldInv'
  BY DEF LockInv, HeldInv, CommittedInv, RevisionInv, LoadBundle, Load, Loadable, Usable, backendVars
<1>3. SavingInv'
  BY DEF LockInv, HeldInv, SavingInv, CommittedInv, RevisionInv, Usable, LoadBundle, Load, Loadable, backendVars
<1>4. CommittedInv'
  BY DEF LockInv, HeldInv, SavingInv, CommittedInv, RevisionInv, LoadBundle, Load, Loadable, Usable, backendVars
<1>5. RevisionInv'
  BY DEF LockInv, HeldInv, SavingInv, CommittedInv, RevisionInv, CurrentUsable, Usable, LoadBundle, Load, Loadable, backendVars
<1> QED
  BY <1>1, <1>2, <1>3, <1>4, <1>5

LEMMA FetchAndGenerateIInv ==
    ASSUME IInv, TypeOK', NEW c \in Client, FetchAndGenerate(c)
    PROVE  IInv'
<1> USE DEF IInv, TypeOK, StoreTypeOK, Goto, files, Locked, Fallible, Saving, InHand, Committed
<1>1. LockInv'
  BY DEF LockInv, FetchAndGenerate, backendVars
<1>2. HeldInv'
  BY DEF LockInv, HeldInv, CommittedInv, RevisionInv, FetchAndGenerate, backendVars
<1>3. SavingInv'
  BY DEF LockInv, HeldInv, SavingInv, CommittedInv, RevisionInv, Usable, FetchAndGenerate, backendVars
<1>4. CommittedInv'
  BY DEF LockInv, HeldInv, SavingInv, CommittedInv, RevisionInv, FetchAndGenerate, backendVars
<1>5. RevisionInv'
  BY DEF LockInv, HeldInv, SavingInv, CommittedInv, RevisionInv, CurrentUsable, Usable, FetchAndGenerate, backendVars
<1> QED
  BY <1>1, <1>2, <1>3, <1>4, <1>5

LEMMA StageIInv ==
    ASSUME IInv, TypeOK', NEW c \in Client, Stage(c), UNCHANGED <<op, backendVars>>
    PROVE  IInv'
<1> USE DEF IInv, TypeOK, StoreTypeOK, Goto, files, Locked, Fallible, Saving, InHand, Committed
<1>1. LockInv'
  BY DEF LockInv, Stage, backendVars
<1>2. HeldInv'
  BY DEF LockInv, HeldInv, CommittedInv, RevisionInv, Stage, backendVars
<1>3. SavingInv'
  BY DEF LockInv, HeldInv, SavingInv, CommittedInv, RevisionInv, Usable, Stage, backendVars
<1>4. CommittedInv'
  BY DEF LockInv, HeldInv, SavingInv, CommittedInv, RevisionInv, Stage, backendVars
<1>5. RevisionInv'
  BY DEF LockInv, HeldInv, SavingInv, CommittedInv, RevisionInv, CurrentUsable, Usable, Stage, backendVars
<1> QED
  BY <1>1, <1>2, <1>3, <1>4, <1>5

LEMMA WriteArtifactIInv ==
    ASSUME IInv, TypeOK', NEW c \in Client, WriteArtifact(c), UNCHANGED <<op, backendVars>>
    PROVE  IInv'
<1> USE DEF IInv, TypeOK, StoreTypeOK, Goto, files, Locked, Fallible, Saving, InHand, Committed
<1>1. LockInv'
  BY DEF LockInv, WriteArtifact, NextArtifact, Artifact, backendVars
<1>2. HeldInv'
  BY DEF LockInv, HeldInv, CommittedInv, RevisionInv, WriteArtifact, NextArtifact, Artifact, backendVars
<1>3. SavingInv'
  BY DEF LockInv, HeldInv, SavingInv, CommittedInv, RevisionInv, Usable, WriteArtifact, NextArtifact, Artifact, backendVars
<1>4. CommittedInv'
  BY DEF LockInv, HeldInv, SavingInv, CommittedInv, RevisionInv, WriteArtifact, NextArtifact, Artifact, backendVars
<1>5. RevisionInv'
  BY DEF LockInv, HeldInv, SavingInv, CommittedInv, RevisionInv, CurrentUsable, Usable, WriteArtifact, NextArtifact, Artifact, backendVars
<1> QED
  BY <1>1, <1>2, <1>3, <1>4, <1>5

LEMMA RenameIInv ==
    ASSUME IInv, TypeOK', NEW c \in Client, Rename(c), UNCHANGED <<op, backendVars>>
    PROVE  IInv'
<1> USE DEF IInv, TypeOK, StoreTypeOK, Goto, files, Locked, Fallible, Saving, InHand, Committed
<1>1. LockInv'
  BY DEF LockInv, Rename, backendVars
<1>2. HeldInv'
  BY DEF LockInv, HeldInv, CommittedInv, RevisionInv, Rename, backendVars
<1>3. SavingInv'
  BY DEF LockInv, HeldInv, SavingInv, CommittedInv, RevisionInv, Usable, Rename, backendVars
<1>4. CommittedInv'
  BY DEF LockInv, HeldInv, SavingInv, CommittedInv, RevisionInv, Rename, backendVars
<1>5. RevisionInv'
  BY DEF LockInv, HeldInv, SavingInv, CommittedInv, RevisionInv, CurrentUsable, Usable, Rename, backendVars
<1> QED
  BY <1>1, <1>2, <1>3, <1>4, <1>5

LEMMA CommitIInv ==
    ASSUME IInv, TypeOK', NEW c \in Client, Commit(c), UNCHANGED <<op, backendVars>>
    PROVE  IInv'
<1> USE DEF IInv, TypeOK, StoreTypeOK, Goto, files, Locked, Fallible, Saving, InHand, Committed
<1>1. LockInv'
  BY DEF LockInv, Commit, backendVars
<1>2. HeldInv'
  BY DEF LockInv, HeldInv, CommittedInv, RevisionInv, Commit, backendVars
<1>3. SavingInv'
  BY DEF LockInv, HeldInv, SavingInv, CommittedInv, RevisionInv, Usable, Commit, backendVars
<1>4. CommittedInv'
  BY DEF LockInv, HeldInv, SavingInv, CommittedInv, RevisionInv, Commit, backendVars
<1>5. RevisionInv'
  BY DEF LockInv, HeldInv, SavingInv, CommittedInv, RevisionInv, CurrentUsable, Usable, Commit, backendVars
<1> QED
  BY <1>1, <1>2, <1>3, <1>4, <1>5

LEMMA CleanupIInv ==
    ASSUME IInv, TypeOK', NEW c \in Client, Cleanup(c), UNCHANGED <<op, backendVars>>
    PROVE  IInv'
<1> USE DEF IInv, TypeOK, StoreTypeOK, Goto, files, Locked, Fallible, Saving, InHand, Committed
<1>1. LockInv'
  BY DEF LockInv, Cleanup, RemoveTrees, backendVars
<1>2. HeldInv'
  BY DEF LockInv, HeldInv, CommittedInv, RevisionInv, Cleanup, RemoveTrees, backendVars
<1>3. SavingInv'
  BY DEF LockInv, HeldInv, SavingInv, CommittedInv, RevisionInv, Usable, Cleanup, RemoveTrees, backendVars
<1>4. CommittedInv'
  BY DEF LockInv, HeldInv, SavingInv, CommittedInv, RevisionInv, Cleanup, RemoveTrees, backendVars
<1>5. RevisionInv'
  BY DEF LockInv, HeldInv, SavingInv, CommittedInv, RevisionInv, CurrentUsable, Usable, Cleanup, RemoveTrees, backendVars
<1> QED
  BY <1>1, <1>2, <1>3, <1>4, <1>5

LEMMA MarkUploadedIInv ==
    ASSUME IInv, TypeOK', NEW c \in Client, MarkUploaded(c), UNCHANGED <<op, backendVars>>
    PROVE  IInv'
<1> USE DEF IInv, TypeOK, StoreTypeOK, Goto, files, Locked, Fallible, Saving, InHand, Committed
<1>1. LockInv'
  BY DEF LockInv, MarkUploaded, backendVars
<1>2. HeldInv'
  BY DEF LockInv, HeldInv, CommittedInv, RevisionInv, MarkUploaded, backendVars
<1>3. SavingInv'
  BY DEF LockInv, HeldInv, SavingInv, CommittedInv, RevisionInv, Usable, MarkUploaded, backendVars
<1>4. CommittedInv'
  BY DEF LockInv, HeldInv, SavingInv, CommittedInv, RevisionInv, MarkUploaded, backendVars
<1>5. RevisionInv'
  BY DEF LockInv, HeldInv, SavingInv, CommittedInv, RevisionInv, CurrentUsable, Usable, MarkUploaded, backendVars
<1> QED
  BY <1>1, <1>2, <1>3, <1>4, <1>5

LEMMA LoadRaisesIInv ==
    ASSUME IInv, TypeOK', NEW c \in Client, LoadRaises(c), UNCHANGED <<op, backendVars>>
    PROVE  IInv'
<1> USE DEF IInv, TypeOK, StoreTypeOK, Goto, files, Locked, Fallible, Saving, InHand, Committed
<1>1. LockInv'
  BY DEF LockInv, LoadRaises, backendVars
<1>2. HeldInv'
  BY DEF LockInv, HeldInv, CommittedInv, RevisionInv, LoadRaises, backendVars
<1>3. SavingInv'
  BY DEF LockInv, HeldInv, SavingInv, CommittedInv, RevisionInv, Usable, LoadRaises, backendVars
<1>4. CommittedInv'
  BY DEF LockInv, HeldInv, SavingInv, CommittedInv, RevisionInv, LoadRaises, backendVars
<1>5. RevisionInv'
  BY DEF LockInv, HeldInv, SavingInv, CommittedInv, RevisionInv, CurrentUsable, Usable, LoadRaises, backendVars
<1> QED
  BY <1>1, <1>2, <1>3, <1>4, <1>5

LEMMA ReleaseIInv ==
    ASSUME IInv, TypeOK', NEW c \in Client, Release(c), UNCHANGED <<op, backendVars>>
    PROVE  IInv'
<1> USE DEF IInv, TypeOK, StoreTypeOK, Goto, files, Locked, Fallible, Saving, InHand, Committed
<1>1. LockInv'
  BY DEF LockInv, Release, backendVars
<1>2. HeldInv'
  BY DEF LockInv, HeldInv, CommittedInv, RevisionInv, Release, backendVars
<1>3. SavingInv'
  BY DEF LockInv, HeldInv, SavingInv, CommittedInv, RevisionInv, Usable, Release, backendVars
<1>4. CommittedInv'
  BY DEF LockInv, HeldInv, SavingInv, CommittedInv, RevisionInv, Release, backendVars
<1>5. RevisionInv'
  BY DEF LockInv, HeldInv, SavingInv, CommittedInv, RevisionInv, CurrentUsable, Usable, Release, backendVars
<1> QED
  BY <1>1, <1>2, <1>3, <1>4, <1>5

LEMMA PruneIInv ==
    ASSUME IInv, TypeOK', NEW c \in Client, PruneThenRegister(c)
    PROVE  IInv'
<1> USE DEF IInv, TypeOK, StoreTypeOK, Goto, files, Locked, Fallible, Saving, InHand, Committed
<1>1. LockInv'
  BY DEF LockInv, PruneThenRegister, Prune, RemoveTrees, OnDisk, backendVars
<1>2. HeldInv'
  BY DEF LockInv, HeldInv, CommittedInv, RevisionInv, PruneThenRegister, Prune, RemoveTrees, OnDisk, backendVars
<1>3. SavingInv'
  BY DEF LockInv, HeldInv, SavingInv, CommittedInv, RevisionInv, Usable, PruneThenRegister, Prune, RemoveTrees, OnDisk, backendVars
<1>4. CommittedInv'
  BY DEF LockInv, HeldInv, SavingInv, CommittedInv, RevisionInv, PruneThenRegister, Prune, RemoveTrees, OnDisk, backendVars
<1>5. RevisionInv'
  BY DEF LockInv, HeldInv, SavingInv, CommittedInv, RevisionInv, CurrentUsable, Usable, PruneThenRegister, Prune, RemoveTrees, OnDisk, backendVars
<1> QED
  BY <1>1, <1>2, <1>3, <1>4, <1>5

LEMMA PutKeyIInv ==
    ASSUME IInv, TypeOK', NEW c \in Client, PutKey(c)
    PROVE  IInv'
<1> USE DEF IInv, TypeOK, StoreTypeOK, Goto, files, Locked, Fallible, Saving, InHand, Committed
<1>1. LockInv'
  BY DEF LockInv, PutKey
<1>2. HeldInv'
  BY DEF LockInv, HeldInv, CommittedInv, RevisionInv, PutKey
<1>3. SavingInv'
  BY DEF LockInv, HeldInv, SavingInv, CommittedInv, RevisionInv, Usable, PutKey
<1>4. CommittedInv'
  BY DEF LockInv, HeldInv, SavingInv, CommittedInv, RevisionInv, PutKey
<1>5. RevisionInv'
  BY DEF LockInv, HeldInv, SavingInv, CommittedInv, RevisionInv, CurrentUsable, Usable, PutKey
<1> QED
  BY <1>1, <1>2, <1>3, <1>4, <1>5

LEMMA AlertCompleteIInv ==
    ASSUME IInv, TypeOK', NEW c \in Client, AlertComplete(c)
    PROVE  IInv'
<1> USE DEF IInv, TypeOK, StoreTypeOK, Goto, files, Locked, Fallible, Saving, InHand, Committed
<1>1. LockInv'
  BY DEF LockInv, AlertComplete, Register
<1>2. HeldInv'
  BY DEF LockInv, HeldInv, CommittedInv, RevisionInv, AlertComplete, Register
<1>3. SavingInv'
  BY DEF LockInv, HeldInv, SavingInv, CommittedInv, RevisionInv, Usable, AlertComplete, Register
<1>4. CommittedInv'
  BY DEF LockInv, HeldInv, SavingInv, CommittedInv, RevisionInv, AlertComplete, Register
<1>5. RevisionInv'
  BY DEF LockInv, HeldInv, SavingInv, CommittedInv, RevisionInv, CurrentUsable, Usable, AlertComplete, Register
<1> QED
  BY <1>1, <1>2, <1>3, <1>4, <1>5

LEMMA AlertDelayedIInv ==
    ASSUME IInv, TypeOK', NEW c \in Client, AlertDelayed(c)
    PROVE  IInv'
<1> USE DEF IInv, TypeOK, StoreTypeOK, Goto, files, Locked, Fallible, Saving, InHand, Committed
<1>1. LockInv'
  BY DEF LockInv, AlertDelayed
<1>2. HeldInv'
  BY DEF LockInv, HeldInv, CommittedInv, RevisionInv, AlertDelayed
<1>3. SavingInv'
  BY DEF LockInv, HeldInv, SavingInv, CommittedInv, RevisionInv, Usable, AlertDelayed
<1>4. CommittedInv'
  BY DEF LockInv, HeldInv, SavingInv, CommittedInv, RevisionInv, AlertDelayed
<1>5. RevisionInv'
  BY DEF LockInv, HeldInv, SavingInv, CommittedInv, RevisionInv, CurrentUsable, Usable, AlertDelayed
<1> QED
  BY <1>1, <1>2, <1>3, <1>4, <1>5

LEMMA CheckWorkerIInv ==
    ASSUME IInv, TypeOK', NEW c \in Client, CheckWorker(c)
    PROVE  IInv'
<1> USE DEF IInv, TypeOK, StoreTypeOK, Goto, files, Locked, Fallible, Saving, InHand, Committed
<1>1. LockInv'
  BY DEF LockInv, CheckWorker, backendVars
<1>2. HeldInv'
  BY DEF LockInv, HeldInv, CommittedInv, RevisionInv, CheckWorker, backendVars
<1>3. SavingInv'
  BY DEF LockInv, HeldInv, SavingInv, CommittedInv, RevisionInv, Usable, CheckWorker, backendVars
<1>4. CommittedInv'
  BY DEF LockInv, HeldInv, SavingInv, CommittedInv, RevisionInv, CheckWorker, backendVars
<1>5. RevisionInv'
  BY DEF LockInv, HeldInv, SavingInv, CommittedInv, RevisionInv, CurrentUsable, Usable, CheckWorker, backendVars
<1> QED
  BY <1>1, <1>2, <1>3, <1>4, <1>5

LEMMA PreprocessIInv ==
    ASSUME IInv, TypeOK', NEW c \in Client, Preprocess(c)
    PROVE  IInv'
<1> USE DEF IInv, TypeOK, StoreTypeOK, Goto, files, Locked, Fallible, Saving, InHand, Committed
<1>1. LockInv'
  BY DEF LockInv, Preprocess
<1>2. HeldInv'
  BY DEF LockInv, HeldInv, CommittedInv, RevisionInv, Preprocess
<1>3. SavingInv'
  BY DEF LockInv, HeldInv, SavingInv, CommittedInv, RevisionInv, Usable, Preprocess
<1>4. CommittedInv'
  BY DEF LockInv, HeldInv, SavingInv, CommittedInv, RevisionInv, Preprocess
<1>5. RevisionInv'
  BY DEF LockInv, HeldInv, SavingInv, CommittedInv, RevisionInv, CurrentUsable, Usable, Preprocess
<1> QED
  BY <1>1, <1>2, <1>3, <1>4, <1>5

LEMMA StepFailsIInv ==
    ASSUME IInv, TypeOK', NEW c \in Client, StepFails(c), UNCHANGED <<op, backendVars>>
    PROVE  IInv'
<1> USE DEF IInv, TypeOK, StoreTypeOK, Goto, files, Locked, Fallible, Saving, InHand, Committed
<1>1. LockInv'
  BY DEF LockInv, StepFails, backendVars
<1>2. HeldInv'
  BY DEF LockInv, HeldInv, CommittedInv, RevisionInv, StepFails, backendVars
<1>3. SavingInv'
  BY DEF LockInv, HeldInv, SavingInv, CommittedInv, RevisionInv, Usable, StepFails, backendVars
<1>4. CommittedInv'
  BY DEF LockInv, HeldInv, SavingInv, CommittedInv, RevisionInv, StepFails, backendVars
<1>5. RevisionInv'
  BY DEF LockInv, HeldInv, SavingInv, CommittedInv, RevisionInv, CurrentUsable, Usable, StepFails, backendVars
<1> QED
  BY <1>1, <1>2, <1>3, <1>4, <1>5

-----------------------------------------------------------------------------
\* The steps of other parties leave the clients and the files alone.
LEMMA EnvironmentIInv ==
    ASSUME IInv, TypeOK',
           (\E r \in Revision : AlertArrives(r)) \/ WorkerStarts \/ WorkerStops
    PROVE  IInv'
<1> USE DEF IInv, storeVars, files
<1>1. ASSUME NEW r \in Revision, AlertArrives(r) PROVE IInv'
  <2>1. LockInv' /\ HeldInv' /\ SavingInv'
    BY <1>1 DEF AlertArrives, Register, LockInv, HeldInv, SavingInv, Usable
  <2>2. CommittedInv'
    BY <1>1 DEF AlertArrives, Register, CommittedInv
  <2>3. RevisionInv'
    BY <1>1 DEF AlertArrives, Register, RevisionInv, CurrentUsable, Usable,
                TypeOK, StoreTypeOK
  <2> QED
    BY <2>1, <2>2, <2>3
<1>2. CASE WorkerStarts \/ WorkerStops
  <2>1. LockInv' /\ HeldInv' /\ SavingInv' /\ CommittedInv'
    BY <1>2 DEF WorkerStarts, WorkerStops, LockInv, HeldInv, SavingInv, CommittedInv,
                Usable
  <2>2. RevisionInv'
    BY <1>2, RevisionFrame DEF WorkerStarts, WorkerStops
  <2> QED
    BY <2>1, <2>2
<1> QED
  BY <1>1, <1>2

LEMMA StoreStepIInv ==
    ASSUME IInv, TypeOK', NEW c \in Client, StoreStep(c)
    PROVE  IInv'
BY StageIInv, WriteArtifactIInv, RenameIInv, CommitIInv, CleanupIInv, MarkUploadedIInv,
   LoadRaisesIInv, ReleaseIInv DEF StoreStep, Unlock

LEMMA ClientStepIInv ==
    ASSUME IInv, TypeOK', NEW c \in Client, ClientStep(c)
    PROVE  IInv'
BY EnterLockIInv, CheckBundleIInv, LoadBundleIInv, FetchAndGenerateIInv, StoreStepIInv,
   PruneIInv, PutKeyIInv, AlertCompleteIInv, AlertDelayedIInv, CheckWorkerIInv,
   PreprocessIInv, StepFailsIInv DEF ClientStep, CallFails

\* IInv is inductive.
LEMMA NextIInv == IInv /\ [Next]_vars => IInv'
<1> SUFFICES ASSUME IInv, [Next]_vars PROVE IInv'
  OBVIOUS
<1>0. TypeOK'
  BY StepTypeOK DEF IInv
<1>1. ASSUME NEW c \in Client, NEW o \in Op, NEW p \in Path, Call(c, o, p) PROVE IInv'
  BY <1>0, <1>1, CallIInv
<1>2. ASSUME NEW c \in Client, ClientStep(c) PROVE IInv'
  BY <1>0, <1>2, ClientStepIInv
<1>3. ASSUME NEW c \in Client, ClientDies(c) PROVE IInv'
  BY <1>0, <1>3, ReleaseIInv DEF ClientDies, Crash
<1>4. CASE (\E r \in Revision : AlertArrives(r)) \/ WorkerStarts \/ WorkerStops
  BY <1>0, <1>4, EnvironmentIInv
<1>5. CASE UNCHANGED vars
  BY <1>0, <1>5, RevisionFrame DEF IInv, LockInv, HeldInv, SavingInv, CommittedInv,
     Usable, vars, storeVars, files, backendVars
<1> QED
  BY <1>1, <1>2, <1>3, <1>4, <1>5 DEF Next

LEMMA AlwaysIInv == Spec => []IInv
  BY InitIInv, NextIInv, PTL DEF Spec

-----------------------------------------------------------------------------
\* Every variable keeps its type.
THEOREM TypeCorrect == Spec => []TypeOK
<1>1. IInv => TypeOK
  BY DEF IInv
<1> QED
  BY <1>1, AlwaysIInv, PTL

\* A key recorded as uploaded has been registered at the backend, however many
\* clients, paths and tokens there are and whatever fails (mark_key_uploaded).
THEOREM UploadedKeysAreRegistered == Spec => []UploadedMeansRegistered
<1>1. IInv => UploadedMeansRegistered
  BY DEF IInv, TypeOK, StoreTypeOK, RevisionInv, UploadedMeansRegistered
<1> QED
  BY <1>1, AlwaysIInv, PTL

\* ensure and generate return the key in use, the caller's own and registered.
THEOREM ReturnedKeysAreReady == Spec => []ReturnedKeyIsReady
<1>1. IInv => ReturnedKeyIsReady
  BY DEF IInv, HeldInv, CommittedInv, RevisionInv, Committed, ReturnedKeyIsReady
<1> QED
  BY <1>1, AlwaysIInv, PTL

\* No evaluation key is registered for a token it was not generated for.
THEOREM NoForeignKeys == Spec => []NoForeignKey
<1>1. IInv => NoForeignKey
  BY DEF IInv, HeldInv, RevisionInv, Committed, NoForeignKey
<1> QED
  BY <1>1, AlwaysIInv, PTL

\* When no call raises after its rename took effect, the key in use at a path is
\* complete in every reachable state, mid-save and after any crash (save_key_bundle).
THEOREM KeysInUseAreComplete ==
    ASSUME LateFailure = FALSE
    PROVE  Spec => []CurrentUsable
<1>1. IInv => CurrentUsable
  BY DEF IInv, RevisionInv
<1> QED
  BY <1>1, AlwaysIInv, PTL

-----------------------------------------------------------------------------
(* The backend and its worker have the key in use, with one path.          *)

\* With a single path, a client past key_lock is alone there.
LEMMA Alone ==
    ASSUME NEW p, Path = {p}, LockInv, TypeOK, NEW c \in Client, NEW d \in Client,
           pc[c] \in Locked, pc[d] \in Locked
    PROVE  c = d
BY DEF LockInv, TypeOK, StoreTypeOK

LEMMA BackendStep ==
    ASSUME NEW p, Path = {p}, LateAlerts = FALSE, IInv, BackendInv, [Next]_vars, IInv'
    PROVE  BackendInv'
<1> DEFINE K == {"worker", "preprocess", "mark"}
           Facts == /\ \A c \in Client : pc[c] \in K => ek[TokenOf[c]] = held[c]
                    /\ \A c \in Client : pc[c] = "mark" /\ workerUp => workerKey[TokenOf[c]] = held[c]
<1> USE DEF IInv, TypeOK, StoreTypeOK
<1>0. K \subseteq Locked /\ {"put", "alert", "prune", "commit"} \subseteq Locked
  BY DEF Locked, Fallible, Saving
\* Whatever is neither about current, its mark, the backend or the worker.
<1>1. ASSUME UNCHANGED <<current, uploaded, inflight, ek, workerUp, workerKey>>,
             \A r \in Revision : dir[r] # "new" => owner'[r] = owner[r],
             \A c \in Client : pc'[c] \in K => pc[c] = pc'[c] /\ held'[c] = held[c]
      PROVE  BackendInv'
  <2>1. \A q \in Path : current[q] # NoRevision => owner'[current[q]] = owner[current[q]]
    BY <1>1 DEF RevisionInv
  <2>2. BackendHasKeyInUse' /\ WorkerServesKeyInUse'
    BY <1>1, <2>1 DEF BackendInv, BackendHasKeyInUse, WorkerServesKeyInUse
  <2>3. Facts'
    BY <1>1 DEF BackendInv
  <2> QED
    BY <1>1, <2>2, <2>3 DEF BackendInv
<1>2. ASSUME NEW c \in Client, Commit(c), UNCHANGED <<op, backendVars>> PROVE BackendInv'
  <2>1. path[c] = p /\ current' = [current EXCEPT ![p] = held[c]] /\ ~uploaded[held[c]]
    BY <1>2 DEF Commit, SavingInv, Saving, RevisionInv, HeldInv, InHand
  <2>2. BackendHasKeyInUse' /\ WorkerServesKeyInUse'
    BY <1>2, <2>1 DEF Commit, files, backendVars, BackendHasKeyInUse, WorkerServesKeyInUse
  <2>3. Facts'
    BY <1>2 DEF Commit, Goto, files, backendVars, BackendInv
  <2> QED
    BY <1>2, <2>2, <2>3 DEF BackendInv, backendVars
<1>3. ASSUME NEW c \in Client, MarkUploaded(c), UNCHANGED <<op, backendVars>> PROVE BackendInv'
  <2>1. /\ held[c] = current[p] /\ held[c] \in Revision /\ owner[held[c]] = TokenOf[c]
        /\ ek[TokenOf[c]] = held[c] /\ (workerUp => workerKey[TokenOf[c]] = held[c])
    BY <1>3 DEF MarkUploaded, HeldInv, CommittedInv, Committed, BackendInv
  <2>2. BackendHasKeyInUse' /\ WorkerServesKeyInUse'
    BY <1>3, <2>1 DEF MarkUploaded, backendVars, BackendHasKeyInUse, WorkerServesKeyInUse
  <2>3. Facts'
    BY <1>3 DEF MarkUploaded, Goto, backendVars, BackendInv
  <2> QED
    BY <1>3, <2>2, <2>3 DEF BackendInv, backendVars
<1>4. ASSUME NEW c \in Client, AlertComplete(c) PROVE BackendInv'
  <2>1. /\ held[c] = current[p] /\ held[c] \in Revision /\ owner[held[c]] = TokenOf[c]
    BY <1>4 DEF AlertComplete, HeldInv, CommittedInv, Committed
  <2>2. ek' = [ek EXCEPT ![TokenOf[c]] = held[c]] /\ UNCHANGED <<held, current, uploaded, owner, inflight, workerUp, workerKey>>
    BY <1>4, <2>1 DEF AlertComplete, Register, files
  <2>3. \A d \in Client \ {c} : pc[d] \notin K /\ pc'[d] = pc[d]
    <3>1. pc[c] = "alert" /\ pc[c] \in Locked /\ \A d \in Client \ {c} : pc'[d] = pc[d]
      BY <1>4 DEF AlertComplete, Goto, Locked, Fallible
    <3>2. \A d \in Client \ {c} : pc[d] \notin Locked
      BY <3>1, Alone
    <3> QED
      BY <1>0, <3>1, <3>2
  <2>4. pc'[c] \in {"worker", "raise"}
    BY <1>4 DEF AlertComplete, Goto
  <2>5. BackendHasKeyInUse' /\ WorkerServesKeyInUse'
    BY <2>1, <2>2 DEF BackendInv, BackendHasKeyInUse, WorkerServesKeyInUse
  <2>6. Facts'
    BY <2>2, <2>3, <2>4
  <2> QED
    BY <2>2, <2>5, <2>6 DEF BackendInv
<1>5. ASSUME NEW c \in Client, CheckWorker(c) PROVE BackendInv'
  <2>1. UNCHANGED <<held, current, uploaded, owner, inflight, ek, workerUp, workerKey>>
    BY <1>5 DEF CheckWorker, files, backendVars
  <2>2. /\ pc[c] \in K /\ pc'[c] \in {"preprocess", "mark"} /\ (workerUp => pc'[c] # "mark")
        /\ \A d \in Client \ {c} : pc'[d] = pc[d]
    BY <1>5 DEF CheckWorker, Goto
  <2>3. Facts'
    BY <2>1, <2>2 DEF BackendInv
  <2> QED
    BY <2>1, <2>3 DEF BackendInv, BackendHasKeyInUse, WorkerServesKeyInUse
<1>6. ASSUME NEW c \in Client, Preprocess(c) PROVE BackendInv'
  <2>1. /\ held[c] = current[p] /\ held[c] \in Revision /\ owner[held[c]] = TokenOf[c]
        /\ ek[TokenOf[c]] = held[c]
    BY <1>6 DEF Preprocess, HeldInv, CommittedInv, Committed, BackendInv
  <2>2. /\ workerKey' = [workerKey EXCEPT ![TokenOf[c]] = held[c]]
        /\ UNCHANGED <<held, current, uploaded, owner, inflight, ek, workerUp>>
    BY <1>6, <2>1 DEF Preprocess, files
  <2>3. \A d \in Client \ {c} : pc[d] \notin K /\ pc'[d] = pc[d]
    <3>1. pc[c] = "preprocess" /\ pc[c] \in Locked /\ \A d \in Client \ {c} : pc'[d] = pc[d]
      BY <1>6 DEF Preprocess, Goto, Locked, Fallible
    <3>2. \A d \in Client \ {c} : pc[d] \notin Locked
      BY <3>1, Alone
    <3> QED
      BY <1>0, <3>1, <3>2
  <2>4. BackendHasKeyInUse' /\ WorkerServesKeyInUse'
    BY <2>1, <2>2 DEF BackendInv, BackendHasKeyInUse, WorkerServesKeyInUse
  <2>5. Facts'
    BY <2>1, <2>2, <2>3
  <2> QED
    BY <2>2, <2>4, <2>5 DEF BackendInv
<1>7. CASE WorkerStarts \/ WorkerStops
  <2>1. UNCHANGED <<pc, held, current, uploaded, owner, inflight, ek>>
        /\ (workerUp' => workerKey' = ek)
    BY <1>7 DEF WorkerStarts, WorkerStops, storeVars, files
  <2>2. Facts'
    BY <2>1 DEF BackendInv
  <2> QED
    BY <2>1, <2>2 DEF BackendInv, BackendHasKeyInUse, WorkerServesKeyInUse
<1>8. ASSUME NEW c \in Client, AlertDelayed(c) \/ (\E r \in Revision : AlertArrives(r))
      PROVE  FALSE
  BY <1>8 DEF AlertDelayed, AlertArrives, BackendInv
<1>9. ASSUME NEW c \in Client, ClientStep(c) PROVE BackendInv'
  <2>1. CASE Stage(c) /\ UNCHANGED <<op, backendVars>>
    BY <1>1, <2>1 DEF Stage, Goto, backendVars
  <2>2. CASE (WriteArtifact(c) \/ Rename(c) \/ Cleanup(c) \/ LoadRaises(c)) /\ UNCHANGED <<op, backendVars>>
    BY <1>1, <2>2 DEF WriteArtifact, Rename, Cleanup, LoadRaises, Goto, files, backendVars
  <2>3. CASE Unlock(c) /\ UNCHANGED <<op, backendVars>>
    BY <1>1, <2>3 DEF Unlock, Release, Goto, files, backendVars
  <2>4. CASE EnterLock(c) \/ CheckBundle(c) \/ LoadBundle(c) \/ FetchAndGenerate(c)
    BY <1>1, <2>4 DEF EnterLock, Acquire, CheckBundle, LoadBundle, Load, FetchAndGenerate,
                      Goto, files, backendVars
  <2>5. CASE PruneThenRegister(c) \/ PutKey(c) \/ CallFails(c)
    BY <1>1, <2>5 DEF PruneThenRegister, Prune, PutKey, CallFails, StepFails, Goto, files, backendVars
  <2> QED
    BY <1>2, <1>3, <1>4, <1>5, <1>6, <1>8, <1>9, <2>1, <2>2, <2>3, <2>4, <2>5
       DEF ClientStep, StoreStep
<1>10. ASSUME NEW c \in Client, ClientDies(c) \/ \E o \in Op, q \in Path : Call(c, o, q)
       PROVE  BackendInv'
  BY <1>1, <1>10 DEF ClientDies, Crash, Release, Call, Goto, files, backendVars
<1>11. CASE UNCHANGED vars
  BY <1>1, <1>11 DEF vars, storeVars, files, backendVars
<1>12. CASE \E r \in Revision : AlertArrives(r)
  BY <1>12 DEF AlertArrives, BackendInv
<1> QED
  BY <1>7, <1>9, <1>10, <1>11, <1>12 DEF Next

LEMMA AlwaysBackendInv ==
    ASSUME NEW p, Path = {p}, LateAlerts = FALSE
    PROVE  Spec => []BackendInv
<1>1. Init => BackendInv
  BY DEF Init, StoreInit, BackendInv, BackendHasKeyInUse, WorkerServesKeyInUse
<1>2. IInv /\ IInv' /\ BackendInv /\ [Next]_vars => BackendInv'
  BY BackendStep
<1> QED
  BY <1>1, <1>2, AlwaysIInv, PTL DEF Spec

\* With one path, and alerts that take effect promptly or never, a key marked as
\* uploaded is the one the backend has for its token (_upload_evaluation_key).
THEOREM BackendKeyIsCurrent ==
    ASSUME NEW p, Path = {p}, LateAlerts = FALSE
    PROVE  Spec => []BackendHasKeyInUse
<1>1. BackendInv => BackendHasKeyInUse
  BY DEF BackendInv
<1> QED
  BY <1>1, AlwaysBackendInv, PTL

\* So does a worker that is up, whenever it comes up or goes down around the look
\* at its status (is_worker_up, preprocess).
THEOREM WorkerKeyIsCurrent ==
    ASSUME NEW p, Path = {p}, LateAlerts = FALSE
    PROVE  Spec => []WorkerServesKeyInUse
<1>1. BackendInv => WorkerServesKeyInUse
  BY DEF BackendInv
<1> QED
  BY <1>1, AlwaysBackendInv, PTL

-----------------------------------------------------------------------------
(* The refinement: the commit replaces the key, every other file operation stutters. *)

LEMMA RegistryInit == Init => Registry!RegInit
BY DEF Init, StoreInit, Registry!RegInit, KeyInUse, KeyConfirmed, InUse, Usable

\* A step that changes neither `current`, nor the revisions it names, nor the
\* backend's acknowledgements is invisible to the registry.
LEMMA Invisible ==
    ASSUME UNCHANGED <<current, registered>>,
           \A p \in Path : InUse(p) =>
               /\ Usable(current[p])' = Usable(current[p])
               /\ uploaded'[current[p]] = uploaded[current[p]]
    PROVE  UNCHANGED Registry!regVars
BY DEF Registry!regVars, KeyInUse, KeyConfirmed, InUse

LEMMA HeldInPath ==
    ASSUME IInv, NEW c \in Client, Commit(c) \/ MarkUploaded(c)
    PROVE  path[c] \in Path /\ held[c] \in Revision
BY DEF IInv, TypeOK, StoreTypeOK, HeldInv, InHand, Committed, Commit, MarkUploaded

LEMMA StepRefines ==
    ASSUME LateFailure = FALSE, IInv, [Next]_vars, TypeOK'
    PROVE  [Registry!RegNext]_(Registry!regVars)
<1> USE DEF IInv, TypeOK, StoreTypeOK
<1>1. ASSUME NEW c \in Client, Commit(c), UNCHANGED <<op, backendVars>>
      PROVE  Registry!Replace(path[c], held[c])
  <2>0. pc[c] = "commit" /\ held[c] \in Revision /\ home[held[c]] = path[c]
    BY <1>1 DEF Commit, HeldInv, InHand
  <2>1. held[c] \notin registered /\ Usable(held[c]) /\ ~uploaded[held[c]]
    BY <2>0 DEF SavingInv, Saving, RevisionInv
  <2>2. \A q \in Path : KeyInUse[q] # held[c]
    BY <2>0 DEF KeyInUse, InUse, SavingInv, Saving, RevisionInv
  <2>3. KeyInUse' = [KeyInUse EXCEPT ![path[c]] = held[c]]
    BY <1>1, <2>0, <2>1 DEF Commit, KeyInUse, InUse, Usable, files
  <2>4. KeyConfirmed' = [KeyConfirmed EXCEPT ![path[c]] = FALSE]
    BY <1>1, <2>0, <2>1 DEF Commit, KeyConfirmed, InUse, files
  <2> QED
    BY <1>1, <2>1, <2>2, <2>3, <2>4 DEF Registry!Replace, backendVars
<1>2. ASSUME NEW c \in Client, MarkUploaded(c), UNCHANGED <<op, backendVars>>
      PROVE  Registry!Confirm(path[c])
  <2>0. /\ pc[c] = "mark"
        /\ held[c] \in Revision
        /\ home[held[c]] = path[c]
        /\ current[path[c]] = held[c]
        /\ held[c] \in registered
    BY <1>2 DEF MarkUploaded, HeldInv, CommittedInv, Committed
  <2>1. KeyInUse[path[c]] = held[c]
    BY <2>0 DEF KeyInUse, InUse, RevisionInv, CurrentUsable
  <2>2. KeyInUse' = KeyInUse
    BY <1>2 DEF MarkUploaded, KeyInUse, InUse, Usable
  <2>3. KeyConfirmed' = [KeyConfirmed EXCEPT ![path[c]] = TRUE]
    <3>1. \A q \in Path : q # path[c] /\ InUse(q) => current[q] # held[c]
      BY <2>0 DEF InUse, RevisionInv
    <3>2. ASSUME NEW q \in Path, q # path[c]
          PROVE  KeyConfirmed'[q] = KeyConfirmed[q]
      <4>1. current' = current
        BY <1>2 DEF MarkUploaded
      <4>2. InUse(q) => uploaded'[current[q]] = uploaded[current[q]]
        BY <1>2, <2>0, <3>1, <3>2 DEF MarkUploaded, InUse
      <4>3. CASE InUse(q)
        BY <3>2, <4>1, <4>2, <4>3, Zenon DEF KeyConfirmed, InUse
      <4>4. CASE ~InUse(q)
        BY <3>2, <4>1, <4>4, Zenon DEF KeyConfirmed, InUse
      <4> QED
        BY <4>3, <4>4
    <3>3. KeyConfirmed'[path[c]] = TRUE
      BY <1>2, <2>0, HeldInPath DEF MarkUploaded, KeyConfirmed, InUse
    <3>4. /\ KeyConfirmed = [q \in Path |-> KeyConfirmed[q]]
          /\ KeyConfirmed' = [q \in Path |-> KeyConfirmed'[q]]
      BY DEF KeyConfirmed
    <3> QED
      BY <3>2, <3>3, <3>4
  <2> QED
    BY <1>2, <2>0, <2>1, <2>2, <2>3 DEF Registry!Confirm, backendVars
<1>3. ASSUME NEW c \in Client, AlertComplete(c)
      PROVE  held[c] \in Revision /\ Registry!Acknowledge(held[c])
  BY <1>3 DEF AlertComplete, Register, HeldInv, Committed, Registry!Acknowledge,
              KeyInUse, KeyConfirmed, InUse, Usable, files
<1>4. ASSUME NEW r \in Revision, AlertArrives(r)
      PROVE  Registry!Acknowledge(r)
  BY <1>4 DEF AlertArrives, Register, Registry!Acknowledge, KeyInUse, KeyConfirmed,
              InUse, Usable, storeVars, files
<1>5. ASSUME NEW c \in Client, UNCHANGED <<op, backendVars>>,
             Stage(c) \/ WriteArtifact(c) \/ Rename(c) \/ Cleanup(c)
      PROVE  UNCHANGED Registry!regVars
  <2> SUFFICES ASSUME NEW p \in Path, InUse(p)
               PROVE  /\ Usable(current[p])' = Usable(current[p])
                      /\ uploaded'[current[p]] = uploaded[current[p]]
    BY <1>5, Invisible DEF Stage, WriteArtifact, Rename, Cleanup, backendVars
  <2>0. current[p] \in Revision /\ dir[current[p]] # "new" /\ home[current[p]] = p
    BY DEF InUse, RevisionInv
  <2>1. CASE Stage(c)
    BY <2>0, <2>1 DEF Stage, Usable
  <2>2. CASE WriteArtifact(c) \/ Rename(c) \/ Cleanup(c)
    <3>1. pc[c] \in InHand /\ current[path[c]] # held[c]
      BY <2>2 DEF WriteArtifact, Rename, Cleanup, InHand, SavingInv, Saving
    <3>2. current[p] # held[c]
      BY <2>0, <3>1 DEF HeldInv
    <3> QED
      BY <2>0, <2>2, <3>2 DEF WriteArtifact, Rename, Cleanup, RemoveTrees, Usable
  <2> QED
    BY <1>5, <2>1, <2>2
<1>6. ASSUME NEW c \in Client, PruneThenRegister(c)
      PROVE  UNCHANGED Registry!regVars
  <2> SUFFICES ASSUME NEW p \in Path, InUse(p)
               PROVE  /\ Usable(current[p])' = Usable(current[p])
                      /\ uploaded'[current[p]] = uploaded[current[p]]
    BY <1>6, Invisible DEF PruneThenRegister, Prune, backendVars
  <2>1. current[p] \in Revision /\ home[current[p]] = p /\ current[path[c]] = held[c]
    BY <1>6 DEF PruneThenRegister, Prune, InUse, RevisionInv, CommittedInv, Committed
  <2>2. current[p] \notin OnDisk(path[c]) \ {held[c]}
    BY <2>1 DEF OnDisk
  <2> QED
    BY <1>6, <2>1, <2>2 DEF PruneThenRegister, Prune, RemoveTrees, Usable
<1>7. ASSUME UNCHANGED <<current, files, registered>>
      PROVE  UNCHANGED Registry!regVars
  BY <1>7, Invisible DEF files, Usable
<1>8. ASSUME NEW c \in Client, ClientStep(c)
      PROVE  [Registry!RegNext]_(Registry!regVars)
  <2>1. CASE StoreStep(c)
    <3>1. CASE LoadRaises(c) \/ Unlock(c)
      BY <1>7, <2>1, <3>1 DEF StoreStep, LoadRaises, Unlock, Release, backendVars
    <3> QED
      BY <1>1, <1>2, <1>5, <2>1, <3>1, HeldInPath DEF StoreStep, Registry!RegNext
  <2>2. CASE AlertComplete(c) \/ PruneThenRegister(c)
    BY <1>3, <1>6, <2>2 DEF Registry!RegNext
  <2>3. CASE EnterLock(c) \/ CheckBundle(c) \/ LoadBundle(c) \/ FetchAndGenerate(c)
    BY <1>7, <2>3 DEF EnterLock, Acquire, CheckBundle, LoadBundle, Load,
                      FetchAndGenerate, backendVars
  <2>4. CASE PutKey(c) \/ AlertDelayed(c) \/ CheckWorker(c) \/ Preprocess(c) \/ CallFails(c)
    BY <1>7, <2>4 DEF PutKey, AlertDelayed, CheckWorker, Preprocess, CallFails,
                      StepFails, backendVars
  <2> QED
    BY <1>8, <2>1, <2>2, <2>3, <2>4 DEF ClientStep
<1>9. CASE \E c \in Client : ClientDies(c) \/ \E o \in Op, p \in Path : Call(c, o, p)
  BY <1>7, <1>9 DEF ClientDies, Crash, Release, Call, backendVars
<1>10. CASE WorkerStarts \/ WorkerStops \/ UNCHANGED vars
  BY <1>7, <1>10 DEF WorkerStarts, WorkerStops, vars, storeVars, backendVars
<1>11. CASE \E r \in Revision : AlertArrives(r)
  BY <1>4, <1>11 DEF Registry!RegNext
<1> QED
  BY <1>8, <1>9, <1>10, <1>11 DEF Next

\* Keys implements KeyRegistry: with no late failures, a reader of the store sees
\* atomic replacements of complete keys and honest upload marks, and nothing else.
THEOREM KeysImplementRegistry ==
    ASSUME LateFailure = FALSE
    PROVE  Spec => ImplementsRegistry
<1>1. IInv /\ IInv' /\ [Next]_vars => [Registry!RegNext]_(Registry!regVars)
  BY StepRefines DEF IInv
<1> QED
  BY <1>1, RegistryInit, AlwaysIInv, PTL DEF Spec, ImplementsRegistry, Registry!RegSpec
=============================================================================
