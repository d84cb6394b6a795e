------------------------------ MODULE LockFile ------------------------------
(***************************************************************************)
(* storage/pkg/lockfile: a readers/writer lock on one path, shared by the  *)
(* goroutines of a process (rwMutex, stateMutex, counter) and by processes *)
(* (a POSIX fcntl lock, which belongs to the process and is dropped when   *)
(* the process closes any descriptor of the file, or ends).                *)
(*                                                                         *)
(* A thread is a goroutine of the process ProcOf[t].  Acquiring each mutex *)
(* and the fcntl call are steps of their own; what runs while stateMutex   *)
(* is held and touches only the process's own LockFile is one step.        *)
(***************************************************************************)
EXTENDS Integers, FiniteSets

CONSTANTS
  Threads,     \* goroutines that use the lock
  Procs,       \* processes
  ProcOf,      \* the process of each thread
  RO,          \* processes that obtained the path with GetROLockFile
  MaxCrashes,  \* bound on the number of process crashes
  NoThread

ASSUME ThreadsAssumption ==
  /\ IsFiniteSet(Threads)
  /\ NoThread \notin Threads
  /\ ProcOf \in [Threads -> Procs]
  /\ RO \subseteq Procs
  /\ MaxCrashes \in Nat

VARIABLES
  pc,          \* pc[t]: where t is in Lock, tryLock or Unlock
  want,        \* want[t]: the lock type of t's last request
  lockFiles,   \* lockFiles[p]: the path is in p's lockFiles map
  readers,     \* readers[p]: threads holding p's rwMutex for reading
  writer,      \* writer[p]: thread that holds, or waits to drain, p's rwMutex
  stateMutex,  \* stateMutex[p]: the thread holding it
  counter, lockType, locked,   \* the fields of p's LockFile
  fcntl,       \* fcntl[p]: the kernel's record lock of p on the file
  crashes

vars == <<pc, want, lockFiles, readers, writer, stateMutex, counter, lockType,
          locked, fcntl, crashes>>

LockTypes == {"read", "write"}

Steps == {"new", "idle", "rwMutex", "rwDrain", "state", "fcntl", "held",
          "tryState", "tryFcntl", "unlock", "panic"}

TypeOK ==
  /\ pc \in [Threads -> Steps]
  /\ want \in [Threads -> LockTypes]
  /\ lockFiles \in [Procs -> BOOLEAN]
  /\ readers \in [Procs -> SUBSET Threads]
  /\ writer \in [Procs -> Threads \cup {NoThread}]
  /\ stateMutex \in [Procs -> Threads \cup {NoThread}]
  /\ counter \in [Procs -> Nat]
  /\ lockType \in [Procs -> LockTypes]
  /\ locked \in [Procs -> BOOLEAN]
  /\ fcntl \in [Procs -> LockTypes \cup {"none"}]
  /\ crashes \in 0..MaxCrashes

Init ==
  /\ pc = [t \in Threads |-> "new"]
  /\ want = [t \in Threads |-> "read"]
  /\ lockFiles = [p \in Procs |-> FALSE]
  /\ readers = [p \in Procs |-> {}]
  /\ writer = [p \in Procs |-> NoThread]
  /\ stateMutex = [p \in Procs |-> NoThread]
  /\ counter = [p \in Procs |-> 0]
  /\ lockType = [p \in Procs |-> "read"]
  /\ locked = [p \in Procs |-> FALSE]
  /\ fcntl = [p \in Procs |-> "none"]
  /\ crashes = 0

Goto(t, step) == pc' = [pc EXCEPT ![t] = step]

-----------------------------------------------------------------------------
(* The kernel and sync.RWMutex, as the code uses them. *)

\* fcntl(F_SETLK) by process p would not conflict with another process.
Grantable(p, m) ==
  \A q \in Procs \ {p} :
    fcntl[q] = "none" \/ (m = "read" /\ fcntl[q] = "read")

\* Closing any descriptor of the file drops the process's lock on it.
CloseHandle(p) == fcntl' = [fcntl EXCEPT ![p] = "none"]

\* (R)Unlock of the rwMutex of t's process, taken in mode m.
RwRelease(t, m) ==
  LET p == ProcOf[t] IN
  IF m = "read"
  THEN readers' = [readers EXCEPT ![p] = @ \ {t}] /\ UNCHANGED writer
  ELSE writer' = [writer EXCEPT ![p] = NoThread] /\ UNCHANGED readers

-----------------------------------------------------------------------------
\* Fault: every caller opens and closes the file again.
GetLockFile_Reopens(t) ==
  LET p == ProcOf[t] IN
  /\ pc[t] = "new"
  /\ Goto(t, "idle")
  /\ lockFiles' = [lockFiles EXCEPT ![p] = TRUE]
  /\ CloseHandle(p)
  /\ UNCHANGED <<want, readers, writer, stateMutex, counter, lockType, locked, crashes>>

(* getLockfile: the first caller of a process opens and closes the file to *)
(* check it, and registers the LockFile; later callers get the same one.   *)
GetLockFile(t) ==
  LET p == ProcOf[t] IN
  /\ pc[t] = "new"
  /\ Goto(t, "idle")
  /\ IF lockFiles[p]
     THEN UNCHANGED <<lockFiles, lockType, fcntl>>
     ELSE /\ lockFiles' = [lockFiles EXCEPT ![p] = TRUE]
          /\ lockType' = [lockType EXCEPT ![p] = IF p \in RO THEN "read" ELSE "write"]
          /\ CloseHandle(p)
  /\ UNCHANGED <<want, readers, writer, stateMutex, counter, locked, crashes>>

(* Lock and RLock, up to the rwMutex.  Locking a read-only LockFile for    *)
(* writing is a caller's error (a panic) and is not requested.             *)
CallLock(t, m) ==
  /\ pc[t] = "idle"
  /\ m = "write" => ProcOf[t] \notin RO
  /\ want' = [want EXCEPT ![t] = m]
  /\ Goto(t, "rwMutex")
  /\ UNCHANGED <<lockFiles, readers, writer, stateMutex, counter, lockType,
                 locked, fcntl, crashes>>

\* Fault: a reader does not wait for a writer of its own process.
RwRLock_Barges(t) ==
  /\ pc[t] = "rwMutex" /\ want[t] = "read"
  /\ readers' = [readers EXCEPT ![ProcOf[t]] = @ \cup {t}]
  /\ Goto(t, "state")
  /\ UNCHANGED <<want, lockFiles, writer, stateMutex, counter, lockType,
                 locked, fcntl, crashes>>

\* rwMutex.RLock: waits while a writer holds the mutex or waits for readers.
RwRLock(t) ==
  LET p == ProcOf[t] IN
  /\ pc[t] = "rwMutex" /\ want[t] = "read"
  /\ writer[p] = NoThread
  /\ readers' = [readers EXCEPT ![p] = @ \cup {t}]
  /\ Goto(t, "state")
  /\ UNCHANGED <<want, lockFiles, writer, stateMutex, counter, lockType,
                 locked, fcntl, crashes>>

\* rwMutex.Lock announces the writer, which keeps new readers out ...
RwAnnounce(t) ==
  LET p == ProcOf[t] IN
  /\ pc[t] = "rwMutex" /\ want[t] = "write"
  /\ writer[p] = NoThread
  /\ writer' = [writer EXCEPT ![p] = t]
  /\ Goto(t, "rwDrain")
  /\ UNCHANGED <<want, lockFiles, readers, stateMutex, counter, lockType,
                 locked, fcntl, crashes>>

\* ... and returns when the readers that were in have left.
RwDrained(t) ==
  /\ pc[t] = "rwDrain"
  /\ readers[ProcOf[t]] = {}
  /\ Goto(t, "state")
  /\ UNCHANGED <<want, lockFiles, readers, writer, stateMutex, counter,
                 lockType, locked, fcntl, crashes>>

\* Fault: a second holder in the process is not counted.
StateLock_Uncounted(t) ==
  LET p == ProcOf[t] IN
  /\ pc[t] = "state"
  /\ stateMutex[p] = NoThread
  /\ IF counter[p] = 0
     THEN stateMutex' = [stateMutex EXCEPT ![p] = t] /\ Goto(t, "fcntl")
     ELSE UNCHANGED stateMutex /\ Goto(t, "held")
  /\ UNCHANGED <<want, lockFiles, readers, writer, counter, lockType, locked,
                 fcntl, crashes>>

\* Fault: every holder of the process asks the kernel.
StateLock_IgnoresCounter(t) ==
  LET p == ProcOf[t] IN
  /\ pc[t] = "state"
  /\ stateMutex[p] = NoThread
  /\ stateMutex' = [stateMutex EXCEPT ![p] = t]
  /\ Goto(t, "fcntl")
  /\ UNCHANGED <<want, lockFiles, readers, writer, counter, lockType, locked,
                 fcntl, crashes>>

\* lock: under stateMutex, only the first holder in the process opens the
\* file and asks the kernel; it keeps stateMutex while it waits.
StateLock(t) ==
  LET p == ProcOf[t] IN
  /\ pc[t] = "state"
  /\ stateMutex[p] = NoThread
  /\ IF counter[p] = 0
     THEN /\ stateMutex' = [stateMutex EXCEPT ![p] = t]
          /\ Goto(t, "fcntl")
          /\ UNCHANGED counter
     ELSE /\ counter' = [counter EXCEPT ![p] = @ + 1]
          /\ Goto(t, "held")
          /\ UNCHANGED stateMutex
  /\ UNCHANGED <<want, lockFiles, readers, writer, lockType, locked, fcntl, crashes>>

\* The kernel grants the lock: the rest of lock and tryLock.
TakeFcntl(t) ==
  LET p == ProcOf[t] IN
  /\ Grantable(p, want[t])
  /\ fcntl' = [fcntl EXCEPT ![p] = want[t]]
  /\ lockType' = [lockType EXCEPT ![p] = want[t]]
  /\ locked' = [locked EXCEPT ![p] = TRUE]
  /\ counter' = [counter EXCEPT ![p] = @ + 1]
  /\ stateMutex' = [stateMutex EXCEPT ![p] = NoThread]
  /\ Goto(t, "held")
  /\ UNCHANGED <<want, lockFiles, readers, writer, crashes>>

\* lock: F_SETLKW returns when no other process holds a conflicting lock.
Fcntl(t) == pc[t] = "fcntl" /\ TakeFcntl(t)

(* TryLock and TryRLock.  When the rwMutex cannot be taken at once they    *)
(* return an error and nothing has changed.                                *)
TryLock(t, m) ==
  LET p == ProcOf[t] IN
  /\ pc[t] = "idle"
  /\ m = "write" => p \notin RO
  /\ writer[p] = NoThread
  /\ IF m = "read"
     THEN readers' = [readers EXCEPT ![p] = @ \cup {t}] /\ UNCHANGED writer
     ELSE /\ readers[p] = {}
          /\ writer' = [writer EXCEPT ![p] = t]
          /\ UNCHANGED readers
  /\ want' = [want EXCEPT ![t] = m]
  /\ Goto(t, "tryState")
  /\ UNCHANGED <<lockFiles, stateMutex, counter, lockType, locked, fcntl, crashes>>

\* Fault: the rwMutex is not given back.
TryStateBusy_KeepsRw(t) ==
  /\ pc[t] = "tryState"
  /\ stateMutex[ProcOf[t]] # NoThread
  /\ Goto(t, "idle")
  /\ UNCHANGED <<want, lockFiles, readers, writer, stateMutex, counter,
                 lockType, locked, fcntl, crashes>>

\* tryLock: stateMutex.TryLock fails, and the rwMutex is given back.
TryStateBusy(t) ==
  /\ pc[t] = "tryState"
  /\ stateMutex[ProcOf[t]] # NoThread
  /\ RwRelease(t, want[t])
  /\ Goto(t, "idle")
  /\ UNCHANGED <<want, lockFiles, stateMutex, counter, lockType, locked, fcntl, crashes>>

\* tryLock: stateMutex.TryLock succeeds.
TryState(t) ==
  LET p == ProcOf[t] IN
  /\ pc[t] = "tryState"
  /\ stateMutex[p] = NoThread
  /\ IF counter[p] = 0
     THEN /\ stateMutex' = [stateMutex EXCEPT ![p] = t]
          /\ Goto(t, "tryFcntl")
          /\ UNCHANGED counter
     ELSE /\ counter' = [counter EXCEPT ![p] = @ + 1]
          /\ Goto(t, "held")
          /\ UNCHANGED stateMutex
  /\ UNCHANGED <<want, lockFiles, readers, writer, lockType, locked, fcntl, crashes>>

TryFcntl(t) == pc[t] = "tryFcntl" /\ TakeFcntl(t)

\* tryLock gives up: the file cannot be opened, or the kernel refuses the
\* lock and the new descriptor is closed.
TryFails(t) ==
  LET p == ProcOf[t] IN
  /\ pc[t] = "tryFcntl"
  /\ \/ UNCHANGED fcntl
     \/ ~Grantable(p, want[t]) /\ CloseHandle(p)
  /\ RwRelease(t, want[t])
  /\ stateMutex' = [stateMutex EXCEPT ![p] = NoThread]
  /\ Goto(t, "idle")
  /\ UNCHANGED <<want, lockFiles, counter, lockType, locked, crashes>>

\* Unlock of t with counter lowered by n, closing the descriptor if close.
UnlockBy(t, n, close) ==
  LET p == ProcOf[t] IN
  /\ pc[t] = "held"
  /\ stateMutex[p] = NoThread
  /\ stateMutex' = [stateMutex EXCEPT ![p] = t]
  /\ counter' = [counter EXCEPT ![p] = @ - n]
  /\ locked' = [locked EXCEPT ![p] = counter[p] > 1]
  /\ IF close THEN CloseHandle(p) ELSE UNCHANGED fcntl
  /\ Goto(t, "unlock")
  /\ UNCHANGED <<want, lockFiles, readers, writer, lockType, crashes>>

\* Faults: the counter is lowered twice; the descriptor is closed by every
\* holder; it is never closed.
Unlock_Twice(t) == UnlockBy(t, 2, counter[ProcOf[t]] = 1)
Unlock_ClosesEarly(t) == UnlockBy(t, 1, TRUE)
Unlock_NeverCloses(t) == UnlockBy(t, 1, FALSE)

(* Unlock: the last holder of the process closes the descriptor, all under *)
(* stateMutex; the rwMutex is released after that.                         *)
Unlock(t) ==
  LET p == ProcOf[t] IN
  /\ pc[t] = "held"
  /\ stateMutex[p] = NoThread
  /\ stateMutex' = [stateMutex EXCEPT ![p] = t]
  /\ IF ~locked[p] \/ counter[p] - 1 < 0
     THEN Goto(t, "panic") /\ UNCHANGED <<counter, locked, fcntl>>
     ELSE /\ counter' = [counter EXCEPT ![p] = @ - 1]
          /\ IF counter[p] = 1
             THEN locked' = [locked EXCEPT ![p] = FALSE] /\ CloseHandle(p)
             ELSE UNCHANGED <<locked, fcntl>>
          /\ Goto(t, "unlock")
  /\ UNCHANGED <<want, lockFiles, readers, writer, lockType, crashes>>

\* Unlock: the mode to release the rwMutex in is read from the LockFile.
UnlockRw(t) ==
  LET p == ProcOf[t] IN
  /\ pc[t] = "unlock"
  /\ RwRelease(t, lockType[p])
  /\ stateMutex' = [stateMutex EXCEPT ![p] = NoThread]
  /\ Goto(t, "idle")
  /\ UNCHANGED <<want, lockFiles, counter, lockType, locked, fcntl, crashes>>

\* A process ends at any point (also by the panics of lock) and is started
\* again: its memory is lost and the kernel drops its locks.
Crash(p) ==
  /\ crashes < MaxCrashes
  /\ crashes' = crashes + 1
  /\ pc' = [t \in Threads |-> IF ProcOf[t] = p THEN "new" ELSE pc[t]]
  /\ lockFiles' = [lockFiles EXCEPT ![p] = FALSE]
  /\ readers' = [readers EXCEPT ![p] = {}]
  /\ writer' = [writer EXCEPT ![p] = NoThread]
  /\ stateMutex' = [stateMutex EXCEPT ![p] = NoThread]
  /\ counter' = [counter EXCEPT ![p] = 0]
  /\ locked' = [locked EXCEPT ![p] = FALSE]
  /\ CloseHandle(p)
  /\ UNCHANGED <<want, lockType>>

-----------------------------------------------------------------------------
Step(t) ==
  \/ GetLockFile(t)
  \/ \E m \in LockTypes : CallLock(t, m) \/ TryLock(t, m)
  \/ RwRLock(t) \/ RwAnnounce(t) \/ RwDrained(t) \/ StateLock(t) \/ Fcntl(t)
  \/ TryStateBusy(t) \/ TryState(t) \/ TryFcntl(t) \/ TryFails(t)
  \/ Unlock(t) \/ UnlockRw(t)

Next ==
  \/ \E t \in Threads : Step(t)
  \/ \E p \in Procs : Crash(p)

Spec == Init /\ [][Next]_vars

(* Go's mutexes hand themselves over to a waiter that keeps failing to get *)
(* them (starvation mode), hence strong fairness for the steps that take   *)
(* one; the other steps only need the goroutine to be scheduled.  Nothing  *)
(* obliges a caller to ask for the lock, but a holder unlocks it.          *)
Fairness ==
  \A t \in Threads :
    /\ SF_vars(RwRLock(t) \/ RwAnnounce(t))
    /\ SF_vars(StateLock(t) \/ Unlock(t))
    /\ WF_vars(RwDrained(t) \/ Fcntl(t) \/ TryStateBusy(t) \/ TryState(t)
               \/ TryFcntl(t) \/ TryFails(t) \/ UnlockRw(t))

FairSpec == Spec /\ Fairness

-----------------------------------------------------------------------------
Holds(t, m) == pc[t] = "held" /\ want[t] = m

\* A goroutine that holds the lock for writing is the only holder, in its
\* process and in every other one (lock, tryLock).
MutualExclusion ==
  \A t, u \in Threads :
    t # u /\ Holds(t, "write") => pc[u] # "held"

\* As long as some goroutine holds the lock, its process owns the kernel's
\* lock in the mode asked for, and AssertLocked and AssertLockedForWriting
\* succeed: no Unlock, failed tryLock or GetLockFile of another goroutine
\* drops it by closing a descriptor.
HolderOwnsKernelLock ==
  \A t \in Threads :
    pc[t] = "held" =>
      /\ locked[ProcOf[t]]
      /\ lockType[ProcOf[t]] = want[t]
      /\ fcntl[ProcOf[t]] = want[t]

\* Unlock never meets the conditions on which it panics.
NeverPanics == \A t \in Threads : pc[t] # "panic"

\* A goroutine that waits in F_SETLKW keeps stateMutex, which Unlock needs:
\* then no goroutine of its own process holds the lock, so the one it waits
\* for is in another process and is not waiting for stateMutex.
NoSelfDeadlock ==
  \A t, u \in Threads :
    pc[t] = "fcntl" /\ ProcOf[u] = ProcOf[t] => pc[u] # "held"

\* An idle process has no descriptor open, hence no kernel lock left behind
\* (Unlock, the error paths of tryLock).
NoLeakedKernelLock ==
  \A p \in Procs :
    fcntl[p] # "none" => \E t \in Threads : ProcOf[t] = p /\ pc[t] = "held"

\* The lock as its users see it.
holding == [t \in Threads |-> IF pc[t] = "held" THEN want[t] ELSE "none"]

Abstract == INSTANCE RWLock WITH holds <- holding

\* Every step of the implementation is a step of the readers/writer lock
\* that the stores rely on.
ImplementsRWLock == Abstract!Spec

Waiting(t) == pc[t] \in {"rwMutex", "rwDrain", "state", "fcntl"}

\* While goroutines wait in Lock or RLock, some goroutine gets the lock (or
\* those that wait die): the two mutexes and the kernel never wait for each
\* other in a cycle.
Progress ==
  (\E t \in Threads : Waiting(t))
    ~> \/ \E t \in Threads : pc[t] = "held"
       \/ \A t \in Threads : ~Waiting(t)
=============================================================================
