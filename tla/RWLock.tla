------------------------------- MODULE RWLock -------------------------------
(***************************************************************************)
(* What pkg/lockfile promises its users: one readers/writer lock shared by *)
(* every thread of every process.  LockFile is shown to implement it, and  *)
(* the stores that use a *LockFile are modelled on top of it.              *)
(***************************************************************************)

CONSTANT Threads

VARIABLE holds  \* holds[t]: the mode in which thread t holds the lock

Modes == {"read", "write"}

TypeOK == holds \in [Threads -> Modes \cup {"none"}]

\* Thread t may take the lock in mode m without waiting.
Available(t, m) ==
  \A u \in Threads \ {t} :
    \/ holds[u] = "none"
    \/ m = "read" /\ holds[u] = "read"

Init == holds = [t \in Threads |-> "none"]

Acquire(t, m) ==
  /\ holds[t] = "none"
  /\ Available(t, m)
  /\ holds' = [holds EXCEPT ![t] = m]

Release(t) ==
  /\ holds[t] # "none"
  /\ holds' = [holds EXCEPT ![t] = "none"]

\* The process running the threads S ends; the kernel drops its locks.
Die(S) == holds' = [t \in Threads |-> IF t \in S THEN "none" ELSE holds[t]]

Next ==
  \/ \E t \in Threads, m \in Modes : Acquire(t, m)
  \/ \E t \in Threads : Release(t)
  \/ \E S \in SUBSET Threads : Die(S)

Spec == Init /\ [][Next]_holds

-----------------------------------------------------------------------------
\* A writer excludes every other holder.
Exclusive ==
  \A t, u \in Threads :
    t # u /\ holds[t] = "write" => holds[u] = "none"
=============================================================================
