-------------------------- MODULE MCContainerStore --------------------------
(* Two processes and two containers, each created stable or volatile.      *)
EXTENDS ContainerStore, TLC

CONSTANTS p1, p2, c1, c2

Symmetry == Permutations(Procs) \cup Permutations(Ids)

\* What a process outside its operations has in memory under an old token is
\* replaced before anything reads it; states that differ in it are one state.
InMemory ==
  [p \in Procs |->
    IF fresh[p] \/ pc[p] \in {"reading", "writing", "save", "write", "bigdata", "rmdir"}
    THEN mem[p] ELSE <<>>]

View == <<holds, pc, ret, todo, InMemory, fresh, disk, datadirs, kept, leftover,
          crashes, errors>>
=============================================================================
