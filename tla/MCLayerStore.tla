---------------------------- MODULE MCLayerStore ----------------------------
(* Two processes and two layers, each created in any location.             *)
EXTENDS LayerStore, TLC

CONSTANTS p1, p2, l1, l2

Range(list) == {list[i] : i \in DOMAIN list}

Symmetry == Permutations(Procs)

\* What a process outside its operations has in memory under an old token is
\* replaced before anything reads it; states that differ in it are one state.
Outside(p) == pc[p] \in {"down", "load", "idle", "reload", "upgrade", "cleanup",
                         "downgrade", "relock", "wreload"}

Dead(p) == ~fresh[p] /\ Outside(p)

\* Likewise the mount counts.  Without names, the order of layers is no matter.
InMemory ==
  [p \in Procs |->
    IF Dead(p) THEN <<>>
    ELSE <<Range(mem[p]), dirty[p], mfresh[p],
           IF ~mfresh[p] /\ Outside(p) THEN <<>> ELSE <<mcount[p], mpoint[p]>> >>]

\* No step reads these, MountCountsAreExact reads them before any fault, and
\* ContentsAreRecorded before any error.
Mounted == IF crashes + errors = 0 THEN <<mounted, users, forced>> ELSE <<>>
Orphaned == IF errors = 0 THEN orphaned ELSE {}

View == <<control, InMemory, fresh, [l \in Locations |-> Range(disk[l])], contents,
          mdisk, Mounted, kept, leftover, Orphaned, crashes, errors>>
=============================================================================
