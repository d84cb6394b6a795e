--------------------------- MODULE LockFileProofs ---------------------------
(***************************************************************************)
(* Proofs about LockFile, for any number of processes and goroutines:      *)
(* its invariants, and that it implements RWLock.                          *)
(*                                                                         *)
(* MutualExclusion says nothing of the mutexes and the counter it rests    *)
(* on, so it is not inductive.  IInv says who is in the rwMutex and who    *)
(* has stateMutex, that counter counts the holders of the process, and     *)
(* that the kernel's lock is there exactly while there are holders.        *)
(***************************************************************************)
EXTENDS LockFile, FiniteSetTheorems, TLAPS

\* Steps at which a goroutine is in the rwMutex of its process.
InRw(t) == pc[t] \in {"state", "fcntl", "held", "tryState", "tryFcntl", "unlock"}

HeldIn(p) == {t \in Threads : ProcOf[t] = p /\ pc[t] = "held"}

RwMutexInv ==
  /\ \A t \in Threads : t \in readers[ProcOf[t]] <=> InRw(t) /\ want[t] = "read"
  /\ \A p \in Procs : \A t \in readers[p] : ProcOf[t] = p
  /\ \A t \in Threads :
       writer[ProcOf[t]] = t <=> (InRw(t) /\ want[t] = "write") \/ pc[t] = "rwDrain"
  /\ \A p \in Procs : writer[p] # NoThread => ProcOf[writer[p]] = p
  /\ \A t \in Threads : pc[t] = "rwDrain" => want[t] = "write"
  /\ \A t \in Threads : InRw(t) /\ want[t] = "write" => readers[ProcOf[t]] = {}

StateMutexInv ==
  /\ \A t \in Threads :
       stateMutex[ProcOf[t]] = t <=> pc[t] \in {"fcntl", "tryFcntl", "unlock"}
  /\ \A p \in Procs : stateMutex[p] # NoThread => ProcOf[stateMutex[p]] = p
  /\ \A t \in Threads : pc[t] \in {"fcntl", "tryFcntl"} => counter[ProcOf[t]] = 0

CounterInv == \A p \in Procs : counter[p] = Cardinality(HeldIn(p))

KernelInv ==
  /\ \A p \in Procs : locked[p] <=> counter[p] > 0
  /\ \A p \in Procs : fcntl[p] = IF locked[p] THEN lockType[p] ELSE "none"
  /\ \A t \in Threads : pc[t] \in {"held", "unlock"} => lockType[ProcOf[t]] = want[t]
  /\ \A p, q \in Procs : p # q /\ fcntl[p] = "write" => fcntl[q] = "none"

KnownInv ==
  \A t \in Threads : pc[t] # "new" => lockFiles[ProcOf[t]]

IInv ==
  /\ TypeOK /\ NeverPanics
  /\ RwMutexInv /\ StateMutexInv /\ CounterInv /\ KernelInv /\ KnownInv

-----------------------------------------------------------------------------
(* Counting the holders of a process. *)

\* The holders of a process are finitely many.
LEMMA HeldFinite ==
  ASSUME NEW p \in Procs
  PROVE  IsFiniteSet(HeldIn(p)) /\ Cardinality(HeldIn(p)) \in Nat
<1>1. HeldIn(p) \subseteq Threads
  BY DEF HeldIn
<1>2. IsFiniteSet(HeldIn(p))
  BY <1>1, FS_Subset, ThreadsAssumption
<1> QED
  BY <1>2, FS_CardinalityType

\* If counter is zero, no goroutine of the process holds the lock.
LEMMA NoHolder ==
  ASSUME CounterInv, NEW t \in Threads, counter[ProcOf[t]] = 0
  PROVE  pc[t] # "held"
<1> DEFINE p == ProcOf[t]
<1>1. p \in Procs
  BY ThreadsAssumption
<1>2. Cardinality(HeldIn(p)) = 0
  BY <1>1 DEF CounterInv
<1>3. HeldIn(p) = {}
  BY <1>1, <1>2, HeldFinite, FS_EmptySet
<1> QED
  BY <1>3 DEF HeldIn

\* If it is not, one does.
LEMMA SomeHolder ==
  ASSUME CounterInv, NEW p \in Procs, counter[p] # 0
  PROVE  \E u \in Threads : ProcOf[u] = p /\ pc[u] = "held"
<1>1. HeldIn(p) # {}
  BY FS_EmptySet DEF CounterInv
<1> QED
  BY <1>1 DEF HeldIn

\* A step after which the same goroutines hold the lock keeps the count.
LEMMA CountKept ==
  ASSUME CounterInv, counter' = counter,
         \A t \in Threads : pc'[t] = "held" <=> pc[t] = "held"
  PROVE  CounterInv'
<1> SUFFICES ASSUME NEW p \in Procs
             PROVE  counter'[p] = Cardinality(HeldIn(p)')
  BY DEF CounterInv
<1>1. HeldIn(p)' = HeldIn(p)
  BY DEF HeldIn
<1> QED
  BY <1>1 DEF CounterInv

\* A goroutine that takes the lock is counted once.
LEMMA CountTaken ==
  ASSUME TypeOK, CounterInv, NEW t \in Threads, pc[t] # "held",
         Goto(t, "held"), counter' = [counter EXCEPT ![ProcOf[t]] = @ + 1]
  PROVE  CounterInv'
<1> SUFFICES ASSUME NEW p \in Procs
             PROVE  counter'[p] = Cardinality(HeldIn(p)')
  BY DEF CounterInv
<1>1. CASE p = ProcOf[t]
  <2>1. HeldIn(p)' = HeldIn(p) \cup {t} /\ t \notin HeldIn(p)
    BY <1>1 DEF HeldIn, Goto, TypeOK
  <2>2. Cardinality(HeldIn(p)') = Cardinality(HeldIn(p)) + 1
    BY <2>1, HeldFinite, FS_AddElement
  <2> QED
    BY <1>1, <2>2 DEF CounterInv, TypeOK
<1>2. CASE p # ProcOf[t]
  <2>1. HeldIn(p)' = HeldIn(p)
    BY <1>2 DEF HeldIn, Goto, TypeOK
  <2> QED
    BY <1>2, <2>1 DEF CounterInv, TypeOK
<1> QED
  BY <1>1, <1>2

\* A goroutine that gives it back is no longer counted.
LEMMA CountGivenBack ==
  ASSUME TypeOK, CounterInv, NEW t \in Threads, pc[t] = "held",
         Goto(t, "unlock"), counter' = [counter EXCEPT ![ProcOf[t]] = @ - 1]
  PROVE  CounterInv'
<1> SUFFICES ASSUME NEW p \in Procs
             PROVE  counter'[p] = Cardinality(HeldIn(p)')
  BY DEF CounterInv
<1>1. CASE p = ProcOf[t]
  <2>1. HeldIn(p)' = HeldIn(p) \ {t} /\ t \in HeldIn(p)
    BY <1>1 DEF HeldIn, Goto, TypeOK
  <2>2. Cardinality(HeldIn(p)') = Cardinality(HeldIn(p)) - 1
    BY <2>1, HeldFinite, FS_RemoveElement
  <2> QED
    BY <1>1, <2>2 DEF CounterInv, TypeOK
<1>2. CASE p # ProcOf[t]
  <2>1. HeldIn(p)' = HeldIn(p)
    BY <1>2 DEF HeldIn, Goto, TypeOK
  <2> QED
    BY <1>2, <2>1 DEF CounterInv, TypeOK
<1> QED
  BY <1>1, <1>2

-----------------------------------------------------------------------------
(* The rwMutex. *)

\* Two goroutines of a process that are in the rwMutex both read.
LEMMA SameMode ==
  ASSUME RwMutexInv, NEW t \in Threads, NEW u \in Threads, t # u,
         ProcOf[t] = ProcOf[u], InRw(t), InRw(u), want \in [Threads -> LockTypes]
  PROVE  want[t] = "read" /\ want[u] = "read"
BY DEF RwMutexInv, LockTypes

\* A step of a goroutine that stays in, or out of, the rwMutex.
LEMMA RwKept ==
  ASSUME RwMutexInv, readers' = readers, writer' = writer, want' = want,
         \A u \in Threads : InRw(u)' <=> InRw(u),
         \A u \in Threads : pc'[u] = "rwDrain" <=> pc[u] = "rwDrain"
  PROVE  RwMutexInv'
BY ThreadsAssumption DEF RwMutexInv

\* A reader enters when there is no writer.
LEMMA RwReaderEnters ==
  ASSUME TypeOK, RwMutexInv, NEW t \in Threads, ~InRw(t), pc[t] # "rwDrain",
         writer[ProcOf[t]] = NoThread, writer' = writer,
         readers' = [readers EXCEPT ![ProcOf[t]] = @ \cup {t}],
         want' = [want EXCEPT ![t] = "read"],
         NEW step \in {"state", "tryState"}, Goto(t, step)
  PROVE  RwMutexInv'
<1> DEFINE p == ProcOf[t]
<1>1. p \in Procs
  BY ThreadsAssumption
<1>2. \A u \in Threads \ {t} : (InRw(u)' <=> InRw(u)) /\ want'[u] = want[u] /\ pc'[u] = pc[u]
  BY DEF TypeOK, Goto, InRw
<1>3. InRw(t)' /\ want'[t] = "read" /\ pc'[t] # "rwDrain"
  BY DEF TypeOK, Goto, InRw
<1>4. \A u \in Threads : ProcOf[u] = p => ~(InRw(u) /\ want[u] = "write") /\ pc[u] # "rwDrain"
  BY ThreadsAssumption DEF RwMutexInv
<1>5. \A q \in Procs : readers'[q] = IF q = p THEN readers[q] \cup {t} ELSE readers[q]
  BY <1>1 DEF TypeOK
<1>6. \A u \in Threads : u \in readers'[ProcOf[u]] <=> InRw(u)' /\ want'[u] = "read"
  BY <1>1, <1>2, <1>3, <1>5, ThreadsAssumption DEF RwMutexInv
<1>7. \A q \in Procs : \A u \in readers'[q] : ProcOf[u] = q
  BY <1>1, <1>5 DEF RwMutexInv
<1>8. \A u \in Threads :
        writer'[ProcOf[u]] = u <=> (InRw(u)' /\ want'[u] = "write") \/ pc'[u] = "rwDrain"
  BY <1>2, <1>3, ThreadsAssumption DEF RwMutexInv
<1>9. \A u \in Threads : pc'[u] = "rwDrain" => want'[u] = "write"
  BY <1>2, <1>3 DEF RwMutexInv
<1>10. \A u \in Threads : InRw(u)' /\ want'[u] = "write" => readers'[ProcOf[u]] = {}
  BY <1>2, <1>3, <1>4, <1>5, ThreadsAssumption DEF RwMutexInv
<1> QED
  BY <1>6, <1>7, <1>8, <1>9, <1>10 DEF RwMutexInv

\* A writer announces itself (lock), or is the only one in at once (tryLock).
LEMMA RwWriterEnters ==
  ASSUME TypeOK, RwMutexInv, NEW t \in Threads, ~InRw(t),
         writer[ProcOf[t]] = NoThread, readers' = readers,
         writer' = [writer EXCEPT ![ProcOf[t]] = t],
         want' = [want EXCEPT ![t] = "write"],
         NEW step \in {"rwDrain", "tryState"}, Goto(t, step),
         step = "tryState" => readers[ProcOf[t]] = {}
  PROVE  RwMutexInv'
<1>1. \A u \in Threads \ {t} : (InRw(u)' <=> InRw(u)) /\ want'[u] = want[u] /\ pc'[u] = pc[u]
  BY DEF TypeOK, Goto, InRw
<1>2. want'[t] = "write" /\ pc'[t] = step /\ (InRw(t)' <=> step = "tryState")
  BY DEF TypeOK, Goto, InRw
<1>3. \A q \in Procs : writer'[q] = IF q = ProcOf[t] THEN t ELSE writer[q]
  BY DEF TypeOK
<1> QED
  BY <1>1, <1>2, <1>3, ThreadsAssumption DEF RwMutexInv

\* A goroutine leaves the rwMutex in the mode it took it in.
LEMMA RwReleased ==
  ASSUME TypeOK, RwMutexInv, NEW t \in Threads, InRw(t),
         RwRelease(t, want[t]), Goto(t, "idle"), want' = want
  PROVE  RwMutexInv'
<1>1. \A u \in Threads \ {t} : (InRw(u)' <=> InRw(u)) /\ pc'[u] = pc[u]
  BY DEF TypeOK, Goto, InRw
<1>2. ~InRw(t)' /\ pc'[t] = "idle" /\ pc[t] # "rwDrain"
  BY DEF TypeOK, Goto, InRw
<1>3. CASE want[t] = "read"
  <2>1. writer' = writer
        /\ \A q \in Procs : \A u : u \in readers'[q] <=> u \in readers[q] /\ ~(q = ProcOf[t] /\ u = t)
    BY <1>3, ThreadsAssumption DEF RwRelease, TypeOK
  <2>2. \A u \in Threads : u \in readers'[ProcOf[u]] <=> InRw(u)' /\ want[u] = "read"
    BY <1>1, <1>2, <2>1, ThreadsAssumption DEF RwMutexInv
  <2>3. \A q \in Procs : \A u \in readers'[q] : ProcOf[u] = q
    BY <2>1 DEF RwMutexInv
  <2>4. \A u \in Threads :
          writer[ProcOf[u]] = u <=> (InRw(u)' /\ want[u] = "write") \/ pc'[u] = "rwDrain"
    BY <1>1, <1>2, <1>3 DEF RwMutexInv
  <2>5. \A u \in Threads : InRw(u)' /\ want[u] = "write" => readers'[ProcOf[u]] = {}
    BY <1>1, <1>2, <2>1, ThreadsAssumption DEF RwMutexInv
  <2> QED
    BY <1>1, <1>2, <2>1, <2>2, <2>3, <2>4, <2>5 DEF RwMutexInv
<1>4. CASE want[t] = "write"
  <2>1. readers' = readers
        /\ \A q \in Procs : writer'[q] = IF q = ProcOf[t] THEN NoThread ELSE writer[q]
    BY <1>4 DEF RwRelease, TypeOK
  <2> QED
    BY <1>1, <1>2, <1>4, <2>1, ThreadsAssumption DEF RwMutexInv
<1> QED
  BY <1>3, <1>4 DEF TypeOK, LockTypes


-----------------------------------------------------------------------------
(* IInv is inductive: one lemma for each action. *)

\* Initially nobody is in the lock.
LEMMA InitIInv == Init => IInv
<1> SUFFICES ASSUME Init PROVE IInv
  OBVIOUS
<1>1. \A p \in Procs : HeldIn(p) = {}
  BY DEF Init, HeldIn
<1>2. CounterInv
  BY <1>1, FS_EmptySet DEF CounterInv, Init
<1>3. TypeOK
  BY ThreadsAssumption DEF Init, TypeOK, Steps, LockTypes
<1> QED
  BY <1>2, <1>3, ThreadsAssumption
  DEF Init, IInv, NeverPanics, RwMutexInv, InRw, StateMutexInv, KernelInv, KnownInv

\* getLockfile: before the path is registered, no goroutine is past it, so
\* the descriptor it closes had no lock.
LEMMA KeepGetLockFile ==
  ASSUME IInv, NEW t \in Threads, GetLockFile(t)
  PROVE  IInv'
<1> DEFINE p == ProcOf[t]
<1>0. p \in Procs
  BY ThreadsAssumption
<1>1. TypeOK' /\ NeverPanics'
  BY <1>0 DEF IInv, GetLockFile, Goto, CloseHandle, TypeOK, NeverPanics, Steps, LockTypes
<1>2. RwMutexInv'
  BY RwKept DEF IInv, GetLockFile, Goto, InRw, TypeOK
<1>3. StateMutexInv'
  BY DEF IInv, GetLockFile, Goto, StateMutexInv, TypeOK
<1>4. CounterInv'
  BY CountKept DEF IInv, GetLockFile, Goto, TypeOK
<1>5. KernelInv'
  <2>1. CASE lockFiles[p]
    BY <2>1 DEF IInv, GetLockFile, Goto, KernelInv, TypeOK
  <2>2. CASE ~lockFiles[p]
    <3>1. \A u \in Threads : ProcOf[u] = p => pc[u] = "new"
      BY <2>2 DEF IInv, KnownInv
    <3>2. counter[p] = 0
      BY <1>0, <3>1, SomeHolder DEF IInv
    <3>3. ~locked[p] /\ fcntl[p] = "none"
      BY <1>0, <3>2 DEF IInv, KernelInv
    <3>4. fcntl' = fcntl
      BY <1>0, <2>2, <3>3 DEF IInv, GetLockFile, CloseHandle, TypeOK
    <3>5. \A q \in Procs \ {p} : lockType'[q] = lockType[q]
      BY <2>2 DEF IInv, GetLockFile, TypeOK
    <3>6. \A u \in Threads : pc'[u] \in {"held", "unlock"} => pc'[u] = pc[u] /\ ProcOf[u] # p
      BY <3>1 DEF IInv, GetLockFile, Goto, TypeOK
    <3> QED
      BY <3>3, <3>4, <3>5, <3>6, ThreadsAssumption DEF IInv, GetLockFile, KernelInv
  <2> QED
    BY <2>1, <2>2
<1>6. KnownInv'
  BY <1>0, ThreadsAssumption DEF IInv, GetLockFile, Goto, KnownInv, TypeOK
<1> QED
  BY <1>1, <1>2, <1>3, <1>4, <1>5, <1>6 DEF IInv


\* The request of an idle goroutine.
LEMMA KeepCallLock ==
  ASSUME IInv, NEW t \in Threads, NEW m \in LockTypes, CallLock(t, m)
  PROVE  IInv'
<1>1. TypeOK' /\ NeverPanics'
  BY ThreadsAssumption DEF IInv, CallLock, Goto, TypeOK, NeverPanics, Steps, LockTypes
<1>2. RwMutexInv'
  BY DEF IInv, CallLock, Goto, RwMutexInv, InRw, TypeOK
<1>3. StateMutexInv'
  BY DEF IInv, CallLock, Goto, StateMutexInv, TypeOK
<1>4. CounterInv'
  BY CountKept DEF IInv, CallLock, Goto, TypeOK
<1>5. KernelInv'
  BY DEF IInv, CallLock, Goto, KernelInv, TypeOK
<1>6. KnownInv'
  BY DEF IInv, CallLock, Goto, KnownInv, TypeOK
<1> QED
  BY <1>1, <1>2, <1>3, <1>4, <1>5, <1>6 DEF IInv


\* A reader enters the rwMutex.
LEMMA KeepRwRLock ==
  ASSUME IInv, NEW t \in Threads, RwRLock(t)
  PROVE  IInv'
<1>1. TypeOK' /\ NeverPanics'
  BY ThreadsAssumption DEF IInv, RwRLock, Goto, TypeOK, NeverPanics, Steps, LockTypes
<1>2. RwMutexInv'
  <2>1. want' = [want EXCEPT ![t] = "read"]
    BY DEF IInv, RwRLock, TypeOK
  <2> QED
    BY <2>1, RwReaderEnters DEF IInv, RwRLock, InRw
<1>3. StateMutexInv'
  BY DEF IInv, RwRLock, Goto, StateMutexInv, TypeOK
<1>4. CounterInv'
  BY CountKept DEF IInv, RwRLock, Goto, TypeOK
<1>5. KernelInv'
  BY DEF IInv, RwRLock, Goto, KernelInv, TypeOK
<1>6. KnownInv'
  BY DEF IInv, RwRLock, Goto, KnownInv, TypeOK
<1> QED
  BY <1>1, <1>2, <1>3, <1>4, <1>5, <1>6 DEF IInv


\* A writer announces itself.
LEMMA KeepRwAnnounce ==
  ASSUME IInv, NEW t \in Threads, RwAnnounce(t)
  PROVE  IInv'
<1>1. TypeOK' /\ NeverPanics'
  BY ThreadsAssumption DEF IInv, RwAnnounce, Goto, TypeOK, NeverPanics, Steps, LockTypes
<1>2. RwMutexInv'
  <2>1. want' = [want EXCEPT ![t] = "write"]
    BY DEF IInv, RwAnnounce, TypeOK
  <2> QED
    BY <2>1, RwWriterEnters DEF IInv, RwAnnounce, InRw
<1>3. StateMutexInv'
  BY DEF IInv, RwAnnounce, Goto, StateMutexInv, TypeOK
<1>4. CounterInv'
  BY CountKept DEF IInv, RwAnnounce, Goto, TypeOK
<1>5. KernelInv'
  BY DEF IInv, RwAnnounce, Goto, KernelInv, TypeOK
<1>6. KnownInv'
  BY DEF IInv, RwAnnounce, Goto, KnownInv, TypeOK
<1> QED
  BY <1>1, <1>2, <1>3, <1>4, <1>5, <1>6 DEF IInv


\* A writer enters when the readers have left.
LEMMA KeepRwDrained ==
  ASSUME IInv, NEW t \in Threads, RwDrained(t)
  PROVE  IInv'
<1>1. TypeOK' /\ NeverPanics'
  BY ThreadsAssumption DEF IInv, RwDrained, Goto, TypeOK, NeverPanics, Steps, LockTypes
<1>2. RwMutexInv'
  BY DEF IInv, RwDrained, Goto, RwMutexInv, InRw, TypeOK
<1>3. StateMutexInv'
  BY DEF IInv, RwDrained, Goto, StateMutexInv, TypeOK
<1>4. CounterInv'
  BY CountKept DEF IInv, RwDrained, Goto, TypeOK
<1>5. KernelInv'
  BY DEF IInv, RwDrained, Goto, KernelInv, TypeOK
<1>6. KnownInv'
  BY DEF IInv, RwDrained, Goto, KnownInv, TypeOK
<1> QED
  BY <1>1, <1>2, <1>3, <1>4, <1>5, <1>6 DEF IInv


\* TryLock enters at once.
LEMMA KeepTryLock ==
  ASSUME IInv, NEW t \in Threads, NEW m \in LockTypes, TryLock(t, m)
  PROVE  IInv'
<1>1. TypeOK' /\ NeverPanics'
  BY ThreadsAssumption DEF IInv, TryLock, Goto, TypeOK, NeverPanics, Steps, LockTypes
<1>2. RwMutexInv'
  <2>1. CASE m = "read"
    BY <2>1, RwReaderEnters DEF IInv, TryLock, InRw
  <2>2. CASE m = "write"
    BY <2>2, RwWriterEnters DEF IInv, TryLock, InRw
  <2> QED
    BY <2>1, <2>2 DEF LockTypes
<1>3. StateMutexInv'
  BY DEF IInv, TryLock, Goto, StateMutexInv, TypeOK
<1>4. CounterInv'
  BY CountKept DEF IInv, TryLock, Goto, TypeOK
<1>5. KernelInv'
  BY DEF IInv, TryLock, Goto, KernelInv, TypeOK
<1>6. KnownInv'
  BY DEF IInv, TryLock, Goto, KnownInv, TypeOK
<1> QED
  BY <1>1, <1>2, <1>3, <1>4, <1>5, <1>6 DEF IInv


\* tryLock gives up because stateMutex is taken.
LEMMA KeepTryStateBusy ==
  ASSUME IInv, NEW t \in Threads, TryStateBusy(t)
  PROVE  IInv'
<1>1. TypeOK' /\ NeverPanics'
  BY ThreadsAssumption DEF IInv, TryStateBusy, Goto, TypeOK, NeverPanics, Steps, LockTypes, RwRelease
<1>2. RwMutexInv'
  BY RwReleased DEF IInv, TryStateBusy, InRw
<1>3. StateMutexInv'
  BY DEF IInv, TryStateBusy, Goto, StateMutexInv, TypeOK
<1>4. CounterInv'
  BY CountKept DEF IInv, TryStateBusy, Goto, TypeOK
<1>5. KernelInv'
  BY DEF IInv, TryStateBusy, Goto, KernelInv, TypeOK
<1>6. KnownInv'
  BY DEF IInv, TryStateBusy, Goto, KnownInv, TypeOK
<1> QED
  BY <1>1, <1>2, <1>3, <1>4, <1>5, <1>6 DEF IInv


\* A goroutine joins the holders its process has: they are all readers.
LEMMA KeepJoin ==
  ASSUME IInv, NEW t \in Threads, pc[t] \in {"state", "tryState"},
         stateMutex[ProcOf[t]] = NoThread, counter[ProcOf[t]] # 0,
         counter' = [counter EXCEPT ![ProcOf[t]] = @ + 1], Goto(t, "held"),
         UNCHANGED <<want, lockFiles, readers, writer, stateMutex, lockType,
                     locked, fcntl, crashes>>
  PROVE  IInv'
<1> DEFINE p == ProcOf[t]
<1>0. p \in Procs
  BY ThreadsAssumption
<1>1. TypeOK' /\ NeverPanics'
  BY <1>0 DEF IInv, Goto, TypeOK, NeverPanics, Steps
<1>2. RwMutexInv'
  BY RwKept DEF IInv, Goto, InRw, TypeOK
<1>3. StateMutexInv'
  <2>1. \A u \in Threads : pc[u] \in {"fcntl", "tryFcntl"} => ProcOf[u] # p
    BY DEF IInv, StateMutexInv
  <2>2. \A q \in Procs \ {p} : counter'[q] = counter[q]
    BY DEF IInv, TypeOK
  <2>3. \A u \in Threads : pc'[u] \in {"fcntl", "tryFcntl"} => counter'[ProcOf[u]] = 0
    BY <2>1, <2>2, ThreadsAssumption DEF IInv, Goto, StateMutexInv, TypeOK
  <2> QED
    BY <2>3, ThreadsAssumption DEF IInv, Goto, StateMutexInv, TypeOK
<1>4. CounterInv'
  BY CountTaken DEF IInv
<1>5. KernelInv'
  <2>1. PICK u \in Threads : ProcOf[u] = p /\ pc[u] = "held"
    BY <1>0, SomeHolder DEF IInv
  <2>2. lockType[p] = want[t]
    BY <2>1, SameMode DEF IInv, KernelInv, InRw, TypeOK
  <2>3. locked[p] /\ counter'[p] > 0
    BY <1>0 DEF IInv, KernelInv, TypeOK
  <2>4. \A q \in Procs \ {p} : counter'[q] = counter[q]
    BY DEF IInv, TypeOK
  <2> QED
    BY <2>2, <2>3, <2>4 DEF IInv, Goto, KernelInv, TypeOK
<1>6. KnownInv'
  BY DEF IInv, Goto, KnownInv, TypeOK
<1> QED
  BY <1>1, <1>2, <1>3, <1>4, <1>5, <1>6 DEF IInv

\* The first holder of a process keeps stateMutex to ask the kernel.
LEMMA KeepAsk ==
  ASSUME IInv, NEW t \in Threads, pc[t] \in {"state", "tryState"},
         stateMutex[ProcOf[t]] = NoThread, counter[ProcOf[t]] = 0,
         stateMutex' = [stateMutex EXCEPT ![ProcOf[t]] = t],
         NEW step \in {"fcntl", "tryFcntl"}, Goto(t, step),
         UNCHANGED <<want, lockFiles, readers, writer, counter, lockType,
                     locked, fcntl, crashes>>
  PROVE  IInv'
<1>1. TypeOK' /\ NeverPanics'
  BY ThreadsAssumption DEF IInv, Goto, TypeOK, NeverPanics, Steps
<1>2. RwMutexInv'
  BY RwKept DEF IInv, Goto, InRw, TypeOK
<1>3. StateMutexInv'
  <2>1. \A q \in Procs : stateMutex'[q] = IF q = ProcOf[t] THEN t ELSE stateMutex[q]
    BY DEF IInv, TypeOK
  <2>2. pc'[t] = step /\ \A u \in Threads \ {t} : pc'[u] = pc[u]
    BY DEF IInv, Goto, TypeOK
  <2> QED
    BY <2>1, <2>2, ThreadsAssumption DEF IInv, StateMutexInv
<1>4. CounterInv'
  BY CountKept DEF IInv, Goto, TypeOK
<1>5. KernelInv'
  BY DEF IInv, Goto, KernelInv, TypeOK
<1>6. KnownInv'
  BY DEF IInv, Goto, KnownInv, TypeOK
<1> QED
  BY <1>1, <1>2, <1>3, <1>4, <1>5, <1>6 DEF IInv

\* lock, once it has stateMutex.
LEMMA KeepStateLock ==
  ASSUME IInv, NEW t \in Threads, StateLock(t)
  PROVE  IInv'
<1>1. CASE counter[ProcOf[t]] = 0
  BY <1>1, KeepAsk DEF StateLock
<1>2. CASE counter[ProcOf[t]] # 0
  BY <1>2, KeepJoin DEF StateLock
<1> QED
  BY <1>1, <1>2

\* tryLock, once it has stateMutex.
LEMMA KeepTryState ==
  ASSUME IInv, NEW t \in Threads, TryState(t)
  PROVE  IInv'
<1>1. CASE counter[ProcOf[t]] = 0
  BY <1>1, KeepAsk DEF TryState
<1>2. CASE counter[ProcOf[t]] # 0
  BY <1>2, KeepJoin DEF TryState
<1> QED
  BY <1>1, <1>2

\* The kernel grants the lock to the first holder.
LEMMA KeepTakeFcntl ==
  ASSUME IInv, NEW t \in Threads, pc[t] \in {"fcntl", "tryFcntl"}, TakeFcntl(t)
  PROVE  IInv'
<1> DEFINE p == ProcOf[t]
<1>0. p \in Procs /\ want[t] \in LockTypes
  BY ThreadsAssumption DEF IInv, TypeOK
<1>1. TypeOK' /\ NeverPanics'
  BY <1>0 DEF IInv, TakeFcntl, Goto, TypeOK, NeverPanics, Steps
<1>2. RwMutexInv'
  BY RwKept DEF IInv, TakeFcntl, Goto, InRw, TypeOK
<1>3. counter[p] = 0 /\ stateMutex[p] = t
  BY DEF IInv, StateMutexInv
<1>4. \A u \in Threads : u # t /\ ProcOf[u] = p => pc[u] \notin {"held", "fcntl", "tryFcntl", "unlock"}
  BY <1>3, NoHolder DEF IInv, StateMutexInv
<1>5. \A q \in Procs \ {p} : counter'[q] = counter[q] /\ stateMutex'[q] = stateMutex[q]
                             /\ lockType'[q] = lockType[q] /\ locked'[q] = locked[q]
                             /\ fcntl'[q] = fcntl[q]
  BY DEF IInv, TakeFcntl, TypeOK
<1>6. counter'[p] = 1 /\ stateMutex'[p] = NoThread /\ lockType'[p] = want[t]
      /\ locked'[p] /\ fcntl'[p] = want[t]
  BY <1>0, <1>3 DEF IInv, TakeFcntl, TypeOK
<1>7. pc'[t] = "held" /\ \A u \in Threads \ {t} : pc'[u] = pc[u]
  BY DEF IInv, TakeFcntl, Goto, TypeOK
<1>8. StateMutexInv'
  <2>1. ASSUME NEW u \in Threads
        PROVE  /\ stateMutex'[ProcOf[u]] = u <=> pc'[u] \in {"fcntl", "tryFcntl", "unlock"}
               /\ pc'[u] \in {"fcntl", "tryFcntl"} => counter'[ProcOf[u]] = 0
    <3>1. CASE u = t
      BY <1>6, <1>7, <3>1, ThreadsAssumption
    <3>2. CASE u # t /\ ProcOf[u] = p
      BY <1>4, <1>6, <1>7, <3>2, ThreadsAssumption
    <3>3. CASE ProcOf[u] # p
      <4>1. /\ stateMutex'[ProcOf[u]] = stateMutex[ProcOf[u]]
            /\ counter'[ProcOf[u]] = counter[ProcOf[u]] /\ pc'[u] = pc[u]
        BY <1>5, <1>7, <3>3, ThreadsAssumption
      <4> QED
        BY <4>1 DEF IInv, StateMutexInv
    <3> QED
      BY <3>1, <3>2, <3>3
  <2>2. ASSUME NEW q \in Procs, stateMutex'[q] # NoThread PROVE ProcOf[stateMutex'[q]] = q
    BY <1>5, <1>6, <2>2 DEF IInv, StateMutexInv
  <2> QED
    BY <2>1, <2>2 DEF StateMutexInv
<1>9. CounterInv'
  BY CountTaken DEF IInv, TakeFcntl
<1>10. KernelInv'
  <2>1. \A q \in Procs \ {p} : fcntl[q] = "none" \/ (want[t] = "read" /\ fcntl[q] = "read")
    BY DEF TakeFcntl, Grantable
  <2>2. ASSUME NEW q \in Procs, NEW r \in Procs, q # r, fcntl'[q] = "write"
        PROVE  fcntl'[r] = "none"
    <3>1. CASE q = p
      BY <1>5, <1>6, <2>1, <2>2, <3>1
    <3>2. CASE q # p
      <4>1. fcntl[q] = "write"
        BY <1>5, <2>2, <3>2
      <4>2. r # p
        BY <2>1, <3>2, <4>1
      <4> QED
        BY <1>5, <2>2, <4>1, <4>2 DEF IInv, KernelInv
    <3> QED
      BY <3>1, <3>2
  <2>3. ASSUME NEW u \in Threads, pc'[u] \in {"held", "unlock"}
        PROVE  lockType'[ProcOf[u]] = want'[u]
    <3>1. want' = want
      BY DEF TakeFcntl
    <3>2. CASE u = t
      BY <1>6, <3>1, <3>2
    <3>3. CASE u # t
      <4>1. pc'[u] = pc[u] /\ ProcOf[u] \in Procs \ {p}
        BY <1>4, <1>7, <2>3, <3>3, ThreadsAssumption
      <4> QED
        BY <1>5, <2>3, <3>1, <4>1 DEF IInv, KernelInv
    <3> QED
      BY <3>2, <3>3
  <2>4. ASSUME NEW q \in Procs PROVE locked'[q] <=> counter'[q] > 0
    <3>1. CASE q = p
      BY <1>6, <3>1
    <3>2. CASE q # p
      <4>1. locked'[q] = locked[q] /\ counter'[q] = counter[q]
        BY <1>5, <3>2
      <4>2. locked[q] <=> counter[q] > 0
        BY DEF IInv, KernelInv
      <4> QED
        BY <4>1, <4>2
    <3> QED
      BY <3>1, <3>2
  <2>5. \A q \in Procs : fcntl'[q] = IF locked'[q] THEN lockType'[q] ELSE "none"
    BY <1>5, <1>6 DEF IInv, KernelInv
  <2> QED
    BY <2>2, <2>3, <2>4, <2>5 DEF KernelInv
<1>11. KnownInv'
  BY DEF IInv, TakeFcntl, Goto, KnownInv, TypeOK
<1> QED
  BY <1>1, <1>2, <1>8, <1>9, <1>10, <1>11 DEF IInv


\* A goroutine that has stateMutex gives it and the rwMutex back, without
\* changing the count or the kernel's lock.
LEMMA KeepLeave ==
  ASSUME IInv, NEW t \in Threads, pc[t] \in {"tryFcntl", "unlock"},
         RwRelease(t, want[t]), Goto(t, "idle"),
         stateMutex' = [stateMutex EXCEPT ![ProcOf[t]] = NoThread],
         UNCHANGED <<want, lockFiles, counter, lockType, locked, fcntl, crashes>>
  PROVE  IInv'
<1>1. TypeOK' /\ NeverPanics'
  <2>1. readers' \in [Procs -> SUBSET Threads] /\ writer' \in [Procs -> Threads \cup {NoThread}]
    BY DEF IInv, RwRelease, TypeOK
  <2>2. stateMutex' \in [Procs -> Threads \cup {NoThread}]
    BY DEF IInv, TypeOK
  <2> QED
    BY <2>1, <2>2 DEF IInv, Goto, TypeOK, NeverPanics, Steps
<1>2. RwMutexInv'
  BY RwReleased DEF IInv, InRw
<1>3. StateMutexInv'
  <2>1. \A q \in Procs : stateMutex'[q] = IF q = ProcOf[t] THEN NoThread ELSE stateMutex[q]
    BY DEF IInv, TypeOK
  <2>2. pc'[t] = "idle" /\ \A u \in Threads \ {t} : pc'[u] = pc[u]
    BY DEF IInv, Goto, TypeOK
  <2> QED
    BY <2>1, <2>2, ThreadsAssumption DEF IInv, StateMutexInv
<1>4. CounterInv'
  BY CountKept DEF IInv, Goto, TypeOK
<1>5. KernelInv'
  BY DEF IInv, Goto, KernelInv, TypeOK
<1>6. KnownInv'
  BY DEF IInv, Goto, KnownInv, TypeOK
<1> QED
  BY <1>1, <1>2, <1>3, <1>4, <1>5, <1>6 DEF IInv

\* tryLock gives up: its process had no lock that closing could drop.
LEMMA KeepTryFails ==
  ASSUME IInv, NEW t \in Threads, TryFails(t)
  PROVE  IInv'
<1>1. ProcOf[t] \in Procs /\ counter[ProcOf[t]] = 0
  BY ThreadsAssumption DEF IInv, TryFails, StateMutexInv
<1>2. fcntl[ProcOf[t]] = "none"
  BY <1>1 DEF IInv, KernelInv
<1>3. fcntl' = fcntl
  BY <1>1, <1>2 DEF IInv, TryFails, CloseHandle, TypeOK
<1> QED
  BY <1>3, KeepLeave DEF TryFails

\* Unlock releases the rwMutex in the mode it was taken in, although it reads
\* it from the LockFile.
LEMMA KeepUnlockRw ==
  ASSUME IInv, NEW t \in Threads, UnlockRw(t)
  PROVE  IInv'
<1>1. lockType[ProcOf[t]] = want[t]
  BY DEF IInv, UnlockRw, KernelInv
<1> QED
  BY <1>1, KeepLeave DEF UnlockRw

\* Unlock lowers the count; the last holder closes the descriptor.
LEMMA KeepUnlock ==
  ASSUME IInv, NEW t \in Threads, Unlock(t)
  PROVE  IInv'
<1> DEFINE p == ProcOf[t]
<1>0. p \in Procs /\ pc[t] = "held" /\ stateMutex[p] = NoThread
  BY ThreadsAssumption DEF Unlock
<1>1. counter[p] \in Nat /\ counter[p] # 0
  BY <1>0, NoHolder DEF IInv, TypeOK
<1>2. locked[p] /\ ~(counter[p] - 1 < 0)
  BY <1>0, <1>1 DEF IInv, KernelInv
<1>3. counter' = [counter EXCEPT ![p] = @ - 1] /\ Goto(t, "unlock")
      /\ stateMutex' = [stateMutex EXCEPT ![p] = t]
      /\ UNCHANGED <<want, lockFiles, readers, writer, lockType, crashes>>
  BY <1>2 DEF Unlock
<1>4. \/ counter[p] = 1 /\ locked' = [locked EXCEPT ![p] = FALSE]
         /\ fcntl' = [fcntl EXCEPT ![p] = "none"]
      \/ counter[p] > 1 /\ locked' = locked /\ fcntl' = fcntl
  BY <1>1, <1>2 DEF Unlock, CloseHandle
<1>5. pc'[t] = "unlock" /\ \A u \in Threads \ {t} : pc'[u] = pc[u]
  BY <1>3 DEF IInv, Goto, TypeOK
<1>6. \A q \in Procs : /\ counter'[q] = IF q = p THEN counter[q] - 1 ELSE counter[q]
                       /\ stateMutex'[q] = IF q = p THEN t ELSE stateMutex[q]
  BY <1>3 DEF IInv, TypeOK
<1>7. TypeOK'
  <2>1. counter[p] - 1 \in Nat
    BY <1>1
  <2>2. counter' \in [Procs -> Nat]
    BY <1>3, <2>1 DEF IInv, TypeOK
  <2>3. pc' \in [Threads -> Steps] /\ stateMutex' \in [Procs -> Threads \cup {NoThread}]
    BY <1>3 DEF IInv, TypeOK, Goto, Steps
  <2>4. locked' \in [Procs -> BOOLEAN] /\ fcntl' \in [Procs -> LockTypes \cup {"none"}]
    BY <1>4 DEF IInv, TypeOK
  <2> QED
    BY <1>3, <2>2, <2>3, <2>4 DEF IInv, TypeOK
<1>8. NeverPanics'
  BY <1>5 DEF IInv, NeverPanics
<1>9. RwMutexInv'
  BY <1>0, <1>3, <1>5, RwKept DEF IInv, InRw
<1>10. StateMutexInv'
  <2>1. \A u \in Threads : pc[u] \in {"fcntl", "tryFcntl", "unlock"} => ProcOf[u] # p
    BY <1>0, ThreadsAssumption DEF IInv, StateMutexInv
  <2> QED
    BY <1>5, <1>6, <2>1, ThreadsAssumption DEF IInv, StateMutexInv
<1>11. CounterInv'
  BY <1>0, <1>3, CountGivenBack DEF IInv
<1>12. KernelInv'
  <2>1. \A q \in Procs : locked'[q] <=> counter'[q] > 0
    BY <1>1, <1>2, <1>4, <1>6 DEF IInv, KernelInv, TypeOK
  <2>2. \A q \in Procs : fcntl'[q] = IF locked'[q] THEN lockType[q] ELSE "none"
    BY <1>4 DEF IInv, KernelInv, TypeOK
  <2>3. \A u \in Threads : pc'[u] \in {"held", "unlock"} => lockType[ProcOf[u]] = want[u]
    BY <1>0, <1>5 DEF IInv, KernelInv
  <2>4. \A q, r \in Procs : q # r /\ fcntl'[q] = "write" => fcntl'[r] = "none"
    BY <1>4 DEF IInv, KernelInv, TypeOK
  <2> QED
    BY <1>3, <2>1, <2>2, <2>3, <2>4 DEF KernelInv
<1>13. KnownInv'
  BY <1>0, <1>3, <1>5 DEF IInv, KnownInv
<1> QED
  BY <1>7, <1>8, <1>9, <1>10, <1>11, <1>12, <1>13 DEF IInv

\* A process ends and leaves nothing of its own.
LEMMA KeepCrash ==
  ASSUME IInv, NEW p \in Procs, Crash(p)
  PROVE  IInv'
<1>1. \A u \in Threads : pc'[u] = IF ProcOf[u] = p THEN "new" ELSE pc[u]
  BY DEF Crash
<1>2. /\ readers'[p] = {} /\ writer'[p] = NoThread /\ stateMutex'[p] = NoThread
      /\ counter'[p] = 0 /\ ~locked'[p] /\ fcntl'[p] = "none"
  BY DEF IInv, Crash, CloseHandle, TypeOK
<1>3. \A q \in Procs \ {p} :
        /\ readers'[q] = readers[q] /\ writer'[q] = writer[q] /\ stateMutex'[q] = stateMutex[q]
        /\ counter'[q] = counter[q] /\ (locked'[q] <=> locked[q]) /\ fcntl'[q] = fcntl[q]
        /\ (lockFiles'[q] <=> lockFiles[q])
  BY DEF IInv, Crash, CloseHandle, TypeOK
<1>4. TypeOK'
  BY ThreadsAssumption DEF IInv, Crash, CloseHandle, TypeOK, Steps
<1>5. NeverPanics'
  BY <1>1 DEF IInv, NeverPanics
<1>6. RwMutexInv'
  <2>1. \A u \in Threads : InRw(u)' <=> InRw(u) /\ ProcOf[u] # p
    BY <1>1 DEF InRw
  <2>2. want' = want
    BY DEF Crash
  <2>3. \A u \in Threads : u \in readers'[ProcOf[u]] <=> InRw(u)' /\ want'[u] = "read"
    BY <1>2, <1>3, <2>1, <2>2, ThreadsAssumption DEF IInv, RwMutexInv
  <2>4. \A q \in Procs : \A u \in readers'[q] : ProcOf[u] = q
    BY <1>2, <1>3 DEF IInv, RwMutexInv
  <2>5. \A u \in Threads :
          writer'[ProcOf[u]] = u <=> (InRw(u)' /\ want'[u] = "write") \/ pc'[u] = "rwDrain"
    <3> SUFFICES ASSUME NEW u \in Threads
                 PROVE  writer'[ProcOf[u]] = u
                          <=> (InRw(u)' /\ want'[u] = "write") \/ pc'[u] = "rwDrain"
      OBVIOUS
    <3>1. CASE ProcOf[u] = p
      BY <1>1, <1>2, <2>1, <3>1, ThreadsAssumption
    <3>2. CASE ProcOf[u] # p
      <4>1. /\ writer'[ProcOf[u]] = writer[ProcOf[u]] /\ pc'[u] = pc[u]
            /\ (InRw(u)' <=> InRw(u)) /\ want'[u] = want[u]
        BY <1>1, <1>3, <2>1, <2>2, <3>2, ThreadsAssumption
      <4> QED
        BY <4>1 DEF IInv, RwMutexInv
    <3> QED
      BY <3>1, <3>2
  <2>6. \A q \in Procs : writer'[q] # NoThread => ProcOf[writer'[q]] = q
    BY <1>2, <1>3 DEF IInv, RwMutexInv
  <2>7. \A u \in Threads : pc'[u] = "rwDrain" => want'[u] = "write"
    BY <1>1, <2>2 DEF IInv, RwMutexInv
  <2>8. \A u \in Threads : InRw(u)' /\ want'[u] = "write" => readers'[ProcOf[u]] = {}
    BY <1>2, <1>3, <2>1, <2>2, ThreadsAssumption DEF IInv, RwMutexInv
  <2> QED
    BY <2>3, <2>4, <2>5, <2>6, <2>7, <2>8 DEF RwMutexInv
<1>7. StateMutexInv'
  <2>1. \A u \in Threads :
          stateMutex'[ProcOf[u]] = u <=> pc'[u] \in {"fcntl", "tryFcntl", "unlock"}
    BY <1>1, <1>2, <1>3, ThreadsAssumption DEF IInv, StateMutexInv
  <2>2. ASSUME NEW q \in Procs, stateMutex'[q] # NoThread PROVE ProcOf[stateMutex'[q]] = q
    <3>1. q # p /\ stateMutex'[q] = stateMutex[q]
      BY <1>2, <1>3, <2>2
    <3> QED
      BY <2>2, <3>1 DEF IInv, StateMutexInv
  <2>3. \A u \in Threads : pc'[u] \in {"fcntl", "tryFcntl"} => counter'[ProcOf[u]] = 0
    BY <1>1, <1>2, <1>3, ThreadsAssumption DEF IInv, StateMutexInv
  <2> QED
    BY <2>1, <2>2, <2>3 DEF StateMutexInv
<1>8. CounterInv'
  <2> SUFFICES ASSUME NEW q \in Procs
               PROVE  counter'[q] = Cardinality(HeldIn(q)')
    BY DEF CounterInv
  <2>1. CASE q = p
    <3>1. HeldIn(q)' = {}
      BY <1>1, <2>1 DEF HeldIn
    <3> QED
      BY <1>2, <1>3, <2>1, <3>1, FS_EmptySet
  <2>2. CASE q # p
    <3>1. HeldIn(q)' = HeldIn(q)
      BY <1>1, <2>2 DEF HeldIn
    <3> QED
      BY <1>2, <1>3, <2>2, <3>1 DEF IInv, CounterInv
  <2> QED
    BY <2>1, <2>2
<1>9. KernelInv'
  <2>1. lockType' = lockType /\ want' = want
    BY DEF Crash
  <2>2. \A q \in Procs : /\ locked'[q] <=> counter'[q] > 0
                         /\ fcntl'[q] = IF locked'[q] THEN lockType[q] ELSE "none"
    BY <1>2, <1>3 DEF IInv, KernelInv
  <2>3. \A u \in Threads : pc'[u] \in {"held", "unlock"} => lockType[ProcOf[u]] = want[u]
    BY <1>1 DEF IInv, KernelInv
  <2>4. \A q, r \in Procs : q # r /\ fcntl'[q] = "write" => fcntl'[r] = "none"
    BY <1>2, <1>3 DEF IInv, KernelInv
  <2> QED
    BY <2>1, <2>2, <2>3, <2>4 DEF KernelInv
<1>10. KnownInv'
  BY <1>1, <1>2, <1>3, ThreadsAssumption DEF IInv, KnownInv
<1> QED
  BY <1>4, <1>5, <1>6, <1>7, <1>8, <1>9, <1>10 DEF IInv

\* Every step of LockFile keeps IInv.
LEMMA NextIInv == IInv /\ [Next]_vars => IInv'
<1> SUFFICES ASSUME IInv, [Next]_vars PROVE IInv'
  OBVIOUS
<1>1. CASE UNCHANGED vars
  <2>1. TypeOK' /\ NeverPanics' /\ KnownInv'
    BY <1>1 DEF vars, IInv, TypeOK, NeverPanics, KnownInv
  <2>2. RwMutexInv'
    BY <1>1, RwKept DEF vars, IInv, InRw
  <2>3. StateMutexInv' /\ KernelInv'
    BY <1>1 DEF vars, IInv, StateMutexInv, KernelInv
  <2>4. CounterInv'
    BY <1>1 DEF vars, IInv, CounterInv, HeldIn
  <2> QED
    BY <2>1, <2>2, <2>3, <2>4 DEF IInv
<1>2. ASSUME NEW t \in Threads, Step(t) PROVE IInv'
  <2>1. CASE GetLockFile(t) \/ RwRLock(t) \/ RwAnnounce(t) \/ RwDrained(t)
    BY <2>1, KeepGetLockFile, KeepRwRLock, KeepRwAnnounce, KeepRwDrained
  <2>2. ASSUME NEW m \in LockTypes, CallLock(t, m) \/ TryLock(t, m) PROVE IInv'
    BY <2>2, KeepCallLock, KeepTryLock
  <2>3. CASE StateLock(t) \/ TryStateBusy(t) \/ TryState(t)
    BY <2>3, KeepStateLock, KeepTryStateBusy, KeepTryState
  <2>4. CASE Fcntl(t) \/ TryFcntl(t)
    BY <2>4, KeepTakeFcntl DEF Fcntl, TryFcntl
  <2>5. CASE TryFails(t) \/ Unlock(t) \/ UnlockRw(t)
    BY <2>5, KeepTryFails, KeepUnlock, KeepUnlockRw
  <2> QED
    BY <1>2, <2>1, <2>2, <2>3, <2>4, <2>5 DEF Step
<1>3. ASSUME NEW p \in Procs, Crash(p) PROVE IInv'
  BY <1>3, KeepCrash
<1> QED
  BY <1>1, <1>2, <1>3 DEF Next

-----------------------------------------------------------------------------
(* The properties. *)

\* IInv holds in every reachable state.
LEMMA Inductive == Spec => []IInv
BY InitIInv, NextIInv, PTL DEF Spec

\* The fields of LockFile, the mutexes and the kernel's locks keep their types;
\* in particular counter never becomes negative.
THEOREM TypeCorrect == Spec => []TypeOK
<1>1. IInv => TypeOK
  BY DEF IInv
<1> QED
  BY <1>1, Inductive, PTL

\* Unlock never panics: whoever holds the lock finds it locked and counted.
THEOREM UnlockNeverPanics == Spec => []NeverPanics
<1>1. IInv => NeverPanics
  BY DEF IInv
<1> QED
  BY <1>1, Inductive, PTL

\* What IInv says of a goroutine that holds the lock.
LEMMA HolderFacts ==
  ASSUME IInv, NEW t \in Threads, pc[t] = "held"
  PROVE  /\ ProcOf[t] \in Procs
         /\ counter[ProcOf[t]] > 0 /\ locked[ProcOf[t]]
         /\ lockType[ProcOf[t]] = want[t] /\ fcntl[ProcOf[t]] = want[t]
<1>1. ProcOf[t] \in Procs
  BY ThreadsAssumption
<1>2. counter[ProcOf[t]] # 0
  BY NoHolder DEF IInv
<1>3. counter[ProcOf[t]] > 0
  BY <1>1, <1>2 DEF IInv, TypeOK
<1> QED
  BY <1>1, <1>3 DEF IInv, KernelInv

\* As long as a goroutine holds the lock, its process owns the kernel's lock,
\* in the mode that was asked for: no close in lock, tryLock, Unlock or
\* GetLockFile drops it.
THEOREM KernelLockKept == Spec => []HolderOwnsKernelLock
<1>1. IInv => HolderOwnsKernelLock
  BY HolderFacts DEF HolderOwnsKernelLock
<1> QED
  BY <1>1, Inductive, PTL

\* A writer excludes every other holder: within its process by the rwMutex,
\* in the others by the kernel.
LEMMA IInvExclusion == IInv => MutualExclusion
<1> SUFFICES ASSUME IInv, NEW t \in Threads, NEW u \in Threads, t # u,
                    Holds(t, "write"), pc[u] = "held"
             PROVE  FALSE
  BY DEF MutualExclusion
<1>1. pc[t] = "held" /\ want[t] = "write"
  BY DEF Holds
<1>2. CASE ProcOf[t] = ProcOf[u]
  BY <1>1, <1>2, SameMode DEF IInv, InRw, TypeOK
<1>3. CASE ProcOf[t] # ProcOf[u]
  <2>1. ProcOf[t] \in Procs /\ fcntl[ProcOf[t]] = "write"
    BY <1>1, HolderFacts
  <2>2. ProcOf[u] \in Procs /\ fcntl[ProcOf[u]] = want[u] /\ want[u] # "none"
    BY HolderFacts DEF IInv, TypeOK, LockTypes
  <2> QED
    BY <1>3, <2>1, <2>2 DEF IInv, KernelInv
<1> QED
  BY <1>2, <1>3

\* Lock and TryLock give mutual exclusion between goroutines and processes.
THEOREM LockExcludes == Spec => []MutualExclusion
BY IInvExclusion, Inductive, PTL

\* Whoever waits in F_SETLKW with stateMutex is not waiting for a goroutine of
\* its own process, which would need stateMutex to unlock.
THEOREM NeverSelfDeadlocked == Spec => []NoSelfDeadlock
<1>1. IInv => NoSelfDeadlock
  BY NoHolder DEF IInv, NoSelfDeadlock, StateMutexInv
<1> QED
  BY <1>1, Inductive, PTL

\* The kernel's lock does not outlive its last holder.
THEOREM KernelLockNotLeaked == Spec => []NoLeakedKernelLock
<1>1. IInv => NoLeakedKernelLock
  <2> SUFFICES ASSUME IInv, NEW p \in Procs, fcntl[p] # "none"
               PROVE  \E t \in Threads : ProcOf[t] = p /\ pc[t] = "held"
    BY DEF NoLeakedKernelLock
  <2>1. counter[p] # 0
    BY DEF IInv, KernelInv
  <2> QED
    BY <2>1, SomeHolder DEF IInv
<1> QED
  BY <1>1, Inductive, PTL


-----------------------------------------------------------------------------
(* LockFile implements RWLock: a goroutine acquires the abstract lock when *)
(* it is granted or joins its process's lock, and releases it in Unlock.   *)

\* A step that neither makes nor unmakes a holder is a stuttering step.
LEMMA Stutters ==
  ASSUME \A u \in Threads : pc'[u] = "held" <=> pc[u] = "held",
         \A u \in Threads : pc[u] = "held" => want'[u] = want[u]
  PROVE  UNCHANGED holding
BY DEF holding

\* A goroutine that gets the lock acquires it.
LEMMA Acquires ==
  ASSUME IInv, IInv', NEW t \in Threads, pc[t] # "held", Goto(t, "held"), want' = want
  PROVE  Abstract!Next
<1>1. pc'[t] = "held" /\ \A u \in Threads \ {t} : pc'[u] = pc[u]
  BY DEF IInv, TypeOK, Goto
<1>2. want[t] \in {"read", "write"}
  BY DEF IInv, TypeOK, LockTypes
<1>3. MutualExclusion'
  BY IInvExclusion, PTL
<1>4. holding[t] = "none" /\ holding' = [holding EXCEPT ![t] = want[t]]
  BY <1>1 DEF holding
<1>5. \A u \in Threads \ {t} :
        holding[u] = "none" \/ (want[t] = "read" /\ holding[u] = "read")
  <2> SUFFICES ASSUME NEW u \in Threads \ {t}, pc[u] = "held"
               PROVE  want[t] = "read" /\ want[u] = "read"
    BY DEF holding
  <2>1. want[t] # "write" /\ want[u] # "write"
    BY <1>1, <1>3 DEF MutualExclusion, Holds
  <2> QED
    BY <1>2, <2>1 DEF IInv, TypeOK, LockTypes
<1>6. Abstract!Acquire(t, want[t])
  BY <1>4, <1>5 DEF Abstract!Acquire, Abstract!Available
<1> QED
  BY <1>2, <1>6 DEF Abstract!Next, Abstract!Modes

\* Unlock releases it.
LEMMA Releases ==
  ASSUME IInv, NEW t \in Threads, Unlock(t)
  PROVE  Abstract!Next
<1>1. pc[t] = "held" /\ pc'[t] # "held" /\ want' = want
      /\ \A u \in Threads \ {t} : pc'[u] = pc[u]
  BY DEF IInv, TypeOK, Unlock, Goto
<1>2. holding[t] # "none" /\ holding' = [holding EXCEPT ![t] = "none"]
  BY <1>1 DEF IInv, TypeOK, LockTypes, holding
<1> QED
  BY <1>2 DEF Abstract!Next, Abstract!Release

\* The holders in a process that ends die.
LEMMA Dies ==
  ASSUME NEW p \in Procs, Crash(p)
  PROVE  Abstract!Next
<1> DEFINE S == {t \in Threads : ProcOf[t] = p}
<1>1. holding' = [t \in Threads |-> IF t \in S THEN "none" ELSE holding[t]]
  BY DEF holding, Crash
<1>2. S \in SUBSET Threads
  OBVIOUS
<1> QED
  BY <1>1, <1>2 DEF Abstract!Next, Abstract!Die

\* The readers/writer lock that the stores are modelled on is what LockFile
\* provides, for any number of processes and goroutines.
THEOREM LockFileImplementsRWLock == Spec => ImplementsRWLock
<1>1. Init => Abstract!Init
  BY DEF Init, Abstract!Init, holding
<1>2. IInv /\ IInv' /\ [Next]_vars => [Abstract!Next]_holding
  <2> SUFFICES ASSUME IInv, IInv', [Next]_vars
               PROVE  Abstract!Next \/ UNCHANGED holding
    OBVIOUS
  <2>1. CASE UNCHANGED vars
    BY <2>1 DEF vars, holding
  <2>2. ASSUME NEW t \in Threads, Step(t)
        PROVE  Abstract!Next \/ UNCHANGED holding
    <3>1. CASE GetLockFile(t)
      BY <3>1, Stutters DEF IInv, TypeOK, GetLockFile, Goto
    <3>2. ASSUME NEW m \in LockTypes, CallLock(t, m) \/ TryLock(t, m)
          PROVE  UNCHANGED holding
      BY <3>2, Stutters DEF IInv, TypeOK, CallLock, TryLock, Goto
    <3>3. CASE RwRLock(t) \/ RwAnnounce(t) \/ RwDrained(t)
      BY <3>3, Stutters DEF IInv, TypeOK, RwRLock, RwAnnounce, RwDrained, Goto
    <3>4. CASE TryStateBusy(t) \/ TryFails(t) \/ UnlockRw(t)
      BY <3>4, Stutters DEF IInv, TypeOK, TryStateBusy, TryFails, UnlockRw, Goto
    <3>5. CASE StateLock(t) \/ TryState(t)
      <4>1. CASE counter[ProcOf[t]] = 0
        BY <3>5, <4>1, Stutters DEF IInv, TypeOK, StateLock, TryState, Goto
      <4>2. CASE counter[ProcOf[t]] # 0
        BY <3>5, <4>2, Acquires DEF StateLock, TryState
      <4> QED
        BY <4>1, <4>2
    <3>6. CASE Fcntl(t) \/ TryFcntl(t)
      BY <3>6, Acquires DEF Fcntl, TryFcntl, TakeFcntl
    <3>7. CASE Unlock(t)
      BY <3>7, Releases
    <3> QED
      BY <2>2, <3>1, <3>2, <3>3, <3>4, <3>5, <3>6, <3>7 DEF Step
  <2>3. ASSUME NEW p \in Procs, Crash(p) PROVE Abstract!Next
    BY <2>3, Dies
  <2> QED
    BY <2>1, <2>2, <2>3 DEF Next
<1> QED
  BY <1>1, <1>2, Inductive, PTL DEF Spec, ImplementsRWLock, Abstract!Spec
=============================================================================
