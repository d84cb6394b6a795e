-------------------------- MODULE StagingLockFile ---------------------------
(***************************************************************************)
(* storage/internal/staging_lockfile: exclusive locks on files that are    *)
(* created for the purpose and deleted by the holder.  The lock file of id *)
(* is the path lock-<id>; the kernel's lock is on the inode the path had   *)
(* when it was opened, and belongs to the process: closing any descriptor  *)
(* of the inode drops it.                                                  *)
(*                                                                         *)
(* This module has the state and the steps; TempDir runs them.             *)
(***************************************************************************)
EXTENDS Integers, FiniteSets

CONSTANTS
  Threads, Procs, ProcOf,
  Ids,      \* the random parts of file names
  Inodes,   \* enough of them that one is always free
  None

VARIABLES
  pc,       \* each goroutine's step
  id,       \* the id each goroutine works on
  path,     \* path[i]: the inode that lock-<i> names, or None
  fd,       \* fd[t]: the inode of the descriptor goroutine t has open, or None
  owner,    \* owner[n]: the process holding the kernel's lock on inode n
  stagingLockFiles,     \* per process: ids in the map
  stagingLockFileLock,  \* per process: the goroutine holding the mutex, or None
  lost      \* per process: inodes of descriptors nobody will close

lockVars == <<path, fd, owner, stagingLockFiles, stagingLockFileLock, lost>>

LockTypeOK ==
  /\ id \in [Threads -> Ids \cup {None}]
  /\ path \in [Ids -> Inodes \cup {None}]
  /\ fd \in [Threads -> Inodes \cup {None}]
  /\ owner \in [Inodes -> Procs \cup {None}]
  /\ stagingLockFiles \in [Procs -> SUBSET Ids]
  /\ stagingLockFileLock \in [Procs -> Threads \cup {None}]
  /\ lost \in [Procs -> SUBSET Inodes]

LockInit ==
  /\ id = [t \in Threads |-> None]
  /\ path = [i \in Ids |-> None]
  /\ fd = [t \in Threads |-> None]
  /\ owner = [n \in Inodes |-> None]
  /\ stagingLockFiles = [p \in Procs |-> {}]
  /\ stagingLockFileLock = [p \in Procs |-> None]
  /\ lost = [p \in Procs |-> {}]

Goto(t, step) == pc' = [pc EXCEPT ![t] = step]

-----------------------------------------------------------------------------
(* The file system. *)

\* No path and no open descriptor refers to inode n.
Unused(n) ==
  /\ \A i \in Ids : path[i] # n
  /\ \A t \in Threads : fd[t] # n
  /\ \A p \in Procs : n \notin lost[p]

\* open(O_CREAT) of lock-<i> by t
Open(t, i) ==
  LET n == IF path[i] # None THEN path[i] ELSE CHOOSE m \in Inodes : Unused(m) IN
  /\ path' = [path EXCEPT ![i] = n]
  /\ fd' = [fd EXCEPT ![t] = n]

\* close of t's descriptor: the process has no lock on the inode any more.
Close(t) ==
  /\ fd' = [fd EXCEPT ![t] = None]
  /\ owner' = [owner EXCEPT ![fd[t]] = IF @ = ProcOf[t] THEN None ELSE @]

-----------------------------------------------------------------------------
\* CreateAndLock: os.CreateTemp of a name that was never used, and file.Close.
CreateTemp(t, i, step) ==
  /\ path[i] = None
  /\ id' = [id EXCEPT ![t] = i]
  /\ Open(t, i)
  /\ Goto(t, step)
  /\ UNCHANGED <<owner, stagingLockFiles, stagingLockFileLock, lost>>

CloseTemp(t, step) ==
  /\ Close(t)
  /\ Goto(t, step)
  /\ UNCHANGED <<id, path, stagingLockFiles, stagingLockFileLock, lost>>

\* Fault: the map is not consulted.
TryAcquireOpen_NoMap(t, step, failed) ==
  LET p == ProcOf[t] IN
  /\ stagingLockFileLock[p] = None
  /\ Open(t, id[t])
  /\ stagingLockFileLock' = [stagingLockFileLock EXCEPT ![p] = t]
  /\ Goto(t, step)
  /\ UNCHANGED <<id, owner, stagingLockFiles, lost>>

\* tryAcquireLockForFile up to OpenLock, under the mutex; if the path is in
\* the map, it fails and t goes on to step failed.
TryAcquireOpen(t, step, failed) ==
  LET p == ProcOf[t] IN
  /\ stagingLockFileLock[p] = None
  /\ \/ /\ id[t] \in stagingLockFiles[p]
        /\ Goto(t, failed)
        /\ UNCHANGED lockVars
     \/ /\ id[t] \notin stagingLockFiles[p]
        /\ Open(t, id[t])
        /\ stagingLockFileLock' = [stagingLockFileLock EXCEPT ![p] = t]
        /\ Goto(t, step)
        /\ UNCHANGED <<owner, stagingLockFiles, lost>>
  /\ UNCHANGED id

\* Fault: CloseHandle is forgotten when the lock is not acquired.
TryAcquireLock_LeftOpen(t, step, failed) ==
  LET p == ProcOf[t]  n == fd[t] IN
  /\ stagingLockFileLock' = [stagingLockFileLock EXCEPT ![p] = None]
  /\ IF owner[n] \in {None, p}
     THEN /\ owner' = [owner EXCEPT ![n] = p]
          /\ stagingLockFiles' = [stagingLockFiles EXCEPT ![p] = @ \cup {id[t]}]
          /\ Goto(t, step)
     ELSE Goto(t, failed) /\ UNCHANGED <<owner, stagingLockFiles>>
  /\ UNCHANGED <<id, fd, path, lost>>

\* The rest of tryAcquireLockForFile: fcntl(F_SETLK); on failure, close.
TryAcquireLock(t, step, failed) ==
  LET p == ProcOf[t]  n == fd[t] IN
  /\ stagingLockFileLock' = [stagingLockFileLock EXCEPT ![p] = None]
  /\ IF owner[n] \in {None, p}
     THEN /\ owner' = [owner EXCEPT ![n] = p]
          /\ stagingLockFiles' = [stagingLockFiles EXCEPT ![p] = @ \cup {id[t]}]
          /\ Goto(t, step)
          /\ UNCHANGED fd
     ELSE Close(t) /\ Goto(t, failed) /\ UNCHANGED stagingLockFiles
  /\ UNCHANGED <<id, path, lost>>

\* Fault: the id leaves the map before the descriptor is closed, and the
\* mutex is not held in between.
UnlockRemove_LeavesMap(t, step) ==
  LET p == ProcOf[t] IN
  /\ stagingLockFileLock[p] = None
  /\ stagingLockFiles' = [stagingLockFiles EXCEPT ![p] = @ \ {id[t]}]
  /\ path' = [path EXCEPT ![id[t]] = None]
  /\ Goto(t, step)
  /\ UNCHANGED <<id, fd, owner, stagingLockFileLock, lost>>

\* UnlockAndDelete: under the mutex, remove the path (or fail to) ...
UnlockRemove(t, step) ==
  LET p == ProcOf[t] IN
  /\ stagingLockFileLock[p] = None
  /\ stagingLockFileLock' = [stagingLockFileLock EXCEPT ![p] = t]
  /\ path' \in {path, [path EXCEPT ![id[t]] = None]}
  /\ Goto(t, step)
  /\ UNCHANGED <<id, fd, owner, stagingLockFiles, lost>>

\* ... then close, which unlocks, and leave the map.
UnlockClose(t, step) ==
  LET p == ProcOf[t] IN
  /\ Close(t)
  /\ stagingLockFiles' = [stagingLockFiles EXCEPT ![p] = @ \ {id[t]}]
  /\ stagingLockFileLock' = [stagingLockFileLock EXCEPT ![p] = None]
  /\ id' = [id EXCEPT ![t] = None]
  /\ Goto(t, step)
  /\ UNCHANGED <<path, lost>>

\* t drops its *StagingLockFile without UnlockAndDelete.
Lose(t) ==
  LET p == ProcOf[t] IN
  /\ lost' = [lost EXCEPT ![p] = @ \cup {fd[t]}]
  /\ fd' = [fd EXCEPT ![t] = None]
  /\ id' = [id EXCEPT ![t] = None]
  /\ UNCHANGED <<path, owner, stagingLockFiles, stagingLockFileLock>>

\* Process p ends: its descriptors are closed, its locks dropped.
LockDie(p) ==
  /\ id' = [t \in Threads |-> IF ProcOf[t] = p THEN None ELSE id[t]]
  /\ fd' = [t \in Threads |-> IF ProcOf[t] = p THEN None ELSE fd[t]]
  /\ owner' = [n \in Inodes |-> IF owner[n] = p THEN None ELSE owner[n]]
  /\ stagingLockFiles' = [stagingLockFiles EXCEPT ![p] = {}]
  /\ stagingLockFileLock' = [stagingLockFileLock EXCEPT ![p] = None]
  /\ lost' = [lost EXCEPT ![p] = {}]
  /\ UNCHANGED path
=============================================================================
