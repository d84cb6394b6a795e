----------------------------- MODULE MCTempDir ------------------------------
(* One process with three goroutines, or two processes with two and one.   *)
EXTENDS TempDir, TLC

CONSTANTS p1, p2, t1, t2, t3

OneProcess == [t \in Threads |-> p1]

TwoProcesses == t1 :> p1 @@ t2 :> p1 @@ t3 :> p2

Symmetry == Permutations(Ids) \cup Permutations({t1, t2})
=============================================================================
