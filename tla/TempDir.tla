------------------------------ MODULE TempDir -------------------------------
(***************************************************************************)
(* storage/internal/tempdir: temporary directories next to the data they   *)
(* stage, each protected by a staging lock, and the recovery of those that *)
(* a dead process left behind.  Layers are deleted by moving their files   *)
(* into one, and created by moving files out of one.  A goroutine either   *)
(* owns a TempDir (NewTempDir to Cleanup) or runs RecoverStaleDirs.        *)
(***************************************************************************)
EXTENDS StagingLockFile

CONSTANTS
  Objects,                \* files or directories that get staged
  MaxCrashes, MaxErrors

VARIABLES
  dirs,     \* ids whose temp-dir-<id> exists
  where,    \* where[o]: "home", "gone", or the id of the directory it is in
  todo,     \* ids each RecoverStaleDirs has still to look at
  used,     \* ids os.CreateTemp has returned; random names do not repeat
  crashes, errors

vars == <<pc, id, lockVars, dirs, where, todo, used, crashes, errors>>

OwnerSteps == {"mkdir", "inuse", "unlock", "unlocking"}

\* The steps at which a goroutine has a *StagingLockFile.
HolderSteps == OwnerSteps \cup {"remove", "delete", "deleting"}

Steps == OwnerSteps \cup
  {"idle", "created", "acquire", "acquiring",
   "recover", "try", "trying", "remove", "delete", "deleting"}

\* Types; and what belongs to a step: a goroutine has a descriptor exactly
\* while it creates, tries or holds a lock, so none is left open when a try
\* fails; it has the mutex exactly inside tryAcquireLockForFile and
\* UnlockAndDelete; the lock it holds is in the map.
TypeOK ==
  /\ LockTypeOK
  /\ \A t \in Threads :
       /\ fd[t] # None <=> pc[t] \in HolderSteps \cup {"created", "acquiring", "trying"}
       /\ stagingLockFileLock[ProcOf[t]] = t
            <=> pc[t] \in {"acquiring", "trying", "unlocking", "deleting"}
       /\ pc[t] \in HolderSteps => id[t] \in stagingLockFiles[ProcOf[t]]
  /\ pc \in [Threads -> Steps]
  /\ dirs \subseteq Ids
  /\ where \in [Objects -> Ids \cup {"home", "gone"}]
  /\ todo \in [Threads -> SUBSET Ids]
  /\ used \subseteq Ids

Init ==
  /\ LockInit
  /\ pc = [t \in Threads |-> "idle"]
  /\ dirs = {}
  /\ where \in [Objects -> {"home", "gone"}]
  /\ todo = [t \in Threads |-> {}]
  /\ used = {}
  /\ crashes = 0 /\ errors = 0

NoFault == UNCHANGED <<crashes, errors>>
Fault == errors < MaxErrors /\ errors' = errors + 1 /\ UNCHANGED crashes

\* EnsureRemoveAll of temp-dir-<i>
RemoveAll(i) ==
  /\ dirs' = dirs \ {i}
  /\ where' = [o \in Objects |-> IF where[o] = i THEN "gone" ELSE where[o]]

-----------------------------------------------------------------------------
(* NewTempDir: CreateAndLock, which starts over with a new file when the   *)
(* lock cannot be acquired (up to maxRetries times), then MkdirAll.        *)
NewTempDir(t, i) ==
  /\ pc[t] = "idle" /\ i \notin used
  /\ CreateTemp(t, i, "created")
  /\ used' = used \cup {i}
  /\ NoFault
  /\ UNCHANGED <<dirs, where, todo>>

CreateClose(t) ==
  /\ pc[t] = "created"
  /\ CloseTemp(t, "acquire")
  /\ NoFault
  /\ UNCHANGED <<dirs, where, todo, used>>

CreateAcquire(t) ==
  /\ \/ pc[t] = "acquire" /\ TryAcquireOpen(t, "acquiring", "idle")
     \/ pc[t] = "acquiring" /\ TryAcquireLock(t, "mkdir", "idle")
  /\ NoFault
  /\ UNCHANGED <<dirs, where, todo, used>>

MakeDir(t) ==
  /\ pc[t] = "mkdir"
  /\ \/ /\ dirs' = dirs \cup {id[t]}
        /\ Goto(t, "inuse")
        /\ NoFault
        /\ UNCHANGED <<id, lockVars>>
     \/ Lose(t) /\ Goto(t, "idle") /\ Fault /\ UNCHANGED dirs
  /\ UNCHANGED <<where, todo, used>>

\* StageDeletion moves o into the directory; it fails if that is gone.
StageDeletion(t, o) ==
  /\ pc[t] = "inuse" /\ id[t] \in dirs /\ where[o] = "home"
  /\ where' = [where EXCEPT ![o] = id[t]]
  /\ NoFault
  /\ UNCHANGED <<pc, id, lockVars, dirs, todo, used>>

\* The caller creates o at the path StageAddition returned ...
StageAddition(t, o) ==
  /\ pc[t] = "inuse" /\ id[t] \in dirs /\ where[o] = "gone"
  /\ where' = [where EXCEPT ![o] = id[t]]
  /\ NoFault
  /\ UNCHANGED <<pc, id, lockVars, dirs, todo, used>>

\* ... and Commit moves it to its place.
Commit(t, o) ==
  /\ pc[t] = "inuse" /\ where[o] = id[t]
  /\ where' = [where EXCEPT ![o] = "home"]
  /\ NoFault
  /\ UNCHANGED <<pc, id, lockVars, dirs, todo, used>>

\* Cleanup: EnsureRemoveAll (if that fails, the TempDir stays in use), then
\* UnlockAndDelete.
Cleanup(t) ==
  /\ pc[t] = "inuse"
  /\ RemoveAll(id[t])
  /\ Goto(t, "unlock")
  /\ NoFault
  /\ UNCHANGED <<id, lockVars, todo, used>>

CleanupUnlock(t) ==
  /\ \/ pc[t] = "unlock" /\ UnlockRemove(t, "unlocking")
     \/ pc[t] = "unlocking" /\ UnlockClose(t, "idle")
  /\ NoFault
  /\ UNCHANGED <<dirs, where, todo, used>>

-----------------------------------------------------------------------------
\* Fault: only lock files are looked for.
ListPotentialStaleDirs_LocksOnly(t) ==
  LET found == {i \in Ids : path[i] # None} IN
  /\ pc[t] = "idle" /\ found # {}
  /\ todo' = [todo EXCEPT ![t] = found]
  /\ Goto(t, "recover")
  /\ NoFault
  /\ UNCHANGED <<id, lockVars, dirs, where, used>>

(* RecoverStaleDirs: for every id listPotentialStaleDirs found ...         *)
ListPotentialStaleDirs(t) ==
  LET found == dirs \cup {i \in Ids : path[i] # None} IN
  /\ pc[t] = "idle" /\ found # {}
  /\ todo' = [todo EXCEPT ![t] = found]
  /\ Goto(t, "recover")
  /\ NoFault
  /\ UNCHANGED <<id, lockVars, dirs, where, used>>

\* ... TryLockPath; if it fails, go on with the next one ...
PickStale(t) ==
  /\ pc[t] = "recover"
  /\ IF todo[t] = {}
     THEN Goto(t, "idle") /\ id' = [id EXCEPT ![t] = None] /\ UNCHANGED todo
     ELSE \E i \in todo[t] :
            /\ id' = [id EXCEPT ![t] = i]
            /\ todo' = [todo EXCEPT ![t] = @ \ {i}]
            /\ Goto(t, "try")
  /\ NoFault
  /\ UNCHANGED <<lockVars, dirs, where, used>>

TryLockPath(t) ==
  /\ \/ pc[t] = "try" /\ TryAcquireOpen(t, "trying", "recover")
     \/ pc[t] = "trying" /\ TryAcquireLock(t, "remove", "recover")
  /\ NoFault
  /\ UNCHANGED <<dirs, where, todo, used>>

\* ... remove the directory, or fail to; in either case ...
RemoveStale(t) ==
  /\ pc[t] = "remove"
  /\ \/ RemoveAll(id[t]) /\ NoFault
     \/ Fault /\ UNCHANGED <<dirs, where>>
  /\ Goto(t, "delete")
  /\ UNCHANGED <<id, lockVars, todo, used>>

\* ... UnlockAndDelete.
DeleteStaleLock(t) ==
  /\ \/ pc[t] = "delete" /\ UnlockRemove(t, "deleting")
     \/ pc[t] = "deleting" /\ UnlockClose(t, "recover")
  /\ NoFault
  /\ UNCHANGED <<dirs, where, todo, used>>

Crash(p) ==
  /\ crashes < MaxCrashes /\ crashes' = crashes + 1
  /\ LockDie(p)
  /\ pc' = [t \in Threads |-> IF ProcOf[t] = p THEN "idle" ELSE pc[t]]
  /\ todo' = [t \in Threads |-> IF ProcOf[t] = p THEN {} ELSE todo[t]]
  /\ UNCHANGED <<dirs, where, used, errors>>

-----------------------------------------------------------------------------
Recovery(t) == PickStale(t) \/ TryLockPath(t) \/ RemoveStale(t) \/ DeleteStaleLock(t)

Owning(t) ==
  \/ CreateClose(t) \/ CreateAcquire(t) \/ MakeDir(t)
  \/ \E o \in Objects : StageDeletion(t, o) \/ StageAddition(t, o) \/ Commit(t, o)
  \/ Cleanup(t) \/ CleanupUnlock(t)

Next ==
  \/ \E t \in Threads :
       \/ \E i \in Ids : NewTempDir(t, i)
       \/ Owning(t) \/ ListPotentialStaleDirs(t) \/ Recovery(t)
  \/ \E p \in Procs : Crash(p)

Spec == Init /\ [][Next]_vars

-----------------------------------------------------------------------------
\* "During its lifetime, the temporary directory is protected by its instance
\* lock." (tempdir.go:53): it is there as long as its TempDir is in use.
DirProtected == \A t \in Threads : pc[t] = "inuse" => id[t] \in dirs

\* What a TempDir in use has staged is neither lost nor moved by others: it
\* stays until Commit, or until Cleanup of that TempDir (StageAddition,
\* StageDeletion, Commit, RecoverStaleDirs).
StagedIsKept ==
  [][\A t \in Threads, o \in Objects :
       pc[t] = "inuse" /\ pc'[t] = "inuse" /\ where[o] = id[t]
         => where'[o] \in {id[t], "home"}]_vars

\* The process of a TempDir in use holds the kernel's lock on the file it has
\* open: no close by another goroutine drops it (tryAcquireLockForFile,
\* UnlockAndDelete, file.Close in CreateAndLock).
OwnerHoldsLock ==
  \A t \in Threads : pc[t] \in {"mkdir", "inuse"} => owner[fd[t]] = ProcOf[t]

\* At most one goroutine of a process works under the lock of an id, be it
\* the owner or a recovery.
OneHolderInProcess ==
  \A t, u \in Threads :
    t # u /\ ProcOf[t] = ProcOf[u] /\ pc[t] \in HolderSteps /\ pc[u] \in HolderSteps
      => id[t] # id[u]

\* "a StagingLockFile for a particular path exists if the current process
\* currently owns the lock for that file, and it is recorded in
\* stagingLockFiles" (staging_lockfile.go:20): a goroutine that has one
\* owns the kernel's lock.
RecordedLockIsOwned ==
  \A t \in Threads :
    pc[t] \in HolderSteps => owner[fd[t]] = ProcOf[t]

\* A directory without an owner is removed, if recovery runs often enough.
\* Fairness: layerStore.load calls RecoverStaleDirs whenever a store in use
\* is reloaded, and a started recovery runs to its end.
Orphan(i) == i \in dirs /\ \A t \in Threads : id[t] = i => pc[t] \notin OwnerSteps

FairSpec ==
  /\ Spec
  /\ \A t \in Threads :
       /\ WF_vars(ListPotentialStaleDirs(t))
       /\ SF_vars(Recovery(t))
       /\ WF_vars(Owning(t))

OrphansAreRemoved == \A i \in Ids : Orphan(i) ~> ~Orphan(i)
=============================================================================
