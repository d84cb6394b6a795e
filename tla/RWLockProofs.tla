---------------------------- MODULE RWLockProofs ----------------------------
(* The readers/writer lock excludes, for any set of threads. *)
EXTENDS RWLock, TLAPS

\* What the stores rely on when they lock: a writer is alone, whatever
\* threads acquire, release and die.
THEOREM LockIsExclusive == Spec => [](TypeOK /\ Exclusive)
<1>1. Init => TypeOK /\ Exclusive
  BY DEF Init, TypeOK, Exclusive, Modes
<1>2. TypeOK /\ Exclusive /\ [Next]_holds => (TypeOK /\ Exclusive)'
  <2> SUFFICES ASSUME TypeOK, Exclusive, [Next]_holds
               PROVE  (TypeOK /\ Exclusive)'
    OBVIOUS
  <2>1. CASE UNCHANGED holds
    BY <2>1 DEF TypeOK, Exclusive
  <2>2. ASSUME NEW t \in Threads, NEW m \in Modes, Acquire(t, m)
        PROVE  (TypeOK /\ Exclusive)'
    BY <2>2 DEF Acquire, Available, TypeOK, Exclusive, Modes
  <2>3. ASSUME NEW t \in Threads, Release(t)
        PROVE  (TypeOK /\ Exclusive)'
    BY <2>3 DEF Release, TypeOK, Exclusive, Modes
  <2>4. ASSUME NEW S \in SUBSET Threads, Die(S)
        PROVE  (TypeOK /\ Exclusive)'
    BY <2>4 DEF Die, TypeOK, Exclusive, Modes
  <2> QED
    BY <2>1, <2>2, <2>3, <2>4 DEF Next
<1> QED
  BY <1>1, <1>2, PTL DEF Spec
=============================================================================
