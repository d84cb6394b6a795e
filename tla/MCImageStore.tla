---------------------------- MODULE MCImageStore ----------------------------
(* A process with two goroutines and another with one; in a second         *)
(* instance each has one.                                                  *)
EXTENDS ImageStore, TLC

CONSTANTS p1, p2, t1, t2, t3, i1, i2

TwoAndOne == t1 :> p1 @@ t2 :> p1 @@ t3 :> p2

OneEach == t1 :> p1 @@ t3 :> p2

\* The goroutines of p1, and the ids, are interchangeable.
Symmetry == Permutations({t1, t2}) \cup Permutations(Ids)

SymmetryOneEach == Permutations(Ids)
=============================================================================
