----------------------------- MODULE MCLockFile -----------------------------
(* A process with two goroutines and another with one.                     *)
EXTENDS LockFile, TLC

CONSTANTS p1, p2, t1, t2, t3

ThreeThreads == t1 :> p1 @@ t2 :> p1 @@ t3 :> p2
=============================================================================
