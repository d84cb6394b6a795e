--------------------------- MODULE ContainerStore ---------------------------
(***************************************************************************)
(* storage/containers.go: the container records.  They are kept in two     *)
(* files, containers.json and volatile-containers.json, under one lock and *)
(* one last-writer token; a save rewrites only the files of the locations  *)
(* it is told to.  See ImageStore for fresh; here every process has one    *)
(* goroutine.                                                              *)
(***************************************************************************)
EXTENDS Integers, Sequences, FiniteSets

CONSTANTS
  Procs, Ids, Names,
  Transient,        \* the volatile file is on a file system lost at reboot
  MaxFaults         \* bound on crashes and I/O errors together

VARIABLES
  holds,     \* containers.lock (module RWLock)
  pc, ret,   \* each process's step, and what the save it is in is for
  todo,      \* locations that save has still to write
  mem, fresh,
  disk,      \* the container list in the file of each location
  datadirs,
  kept,      \* history: <<id, location>> that were created and not deleted since
  leftover,  \* history: ids a failed save left in a file, until none has them
  crashes, errors

vars == <<holds, pc, ret, todo, mem, fresh, disk, datadirs, kept, leftover,
          crashes, errors>>

Lock == INSTANCE RWLock WITH Threads <- Procs

Locations == {"stable", "volatile"}

Container == [id : Ids, names : SUBSET Names, data : BOOLEAN, volatileStore : BOOLEAN]

Lists == UNION {[1..n -> Container] : n \in 0..Cardinality(Ids)}

NoReason == [op |-> "none"]

Reasons == [op : {"none", "downgrade", "reload", "new", "op"}]
             \cup [op : {"create", "createData", "delete"}, id : Ids]

Steps == {"down", "load", "idle", "reload", "upgrade", "cleanup", "downgrade",
          "relock", "last", "reading", "wreload", "writing", "save", "write",
          "bigdata", "rmdir"}

TypeOK ==
  /\ Lock!TypeOK
  /\ pc \in [Procs -> Steps]
  /\ ret \in [Procs -> Reasons]
  /\ todo \in [Procs -> SUBSET Locations]
  /\ mem \in [Procs -> Lists] /\ disk \in [Locations -> Lists]
  /\ fresh \in [Procs -> BOOLEAN]
  /\ datadirs \subseteq Ids
  /\ kept \subseteq Ids \X Locations /\ leftover \subseteq Ids

Init ==
  /\ Lock!Init
  /\ pc = [p \in Procs |-> "down"]
  /\ ret = [p \in Procs |-> NoReason]
  /\ todo = [p \in Procs |-> {}]
  /\ mem = [p \in Procs |-> <<>>]
  /\ fresh = [p \in Procs |-> FALSE]
  /\ disk = [l \in Locations |-> <<>>]
  /\ datadirs = {} /\ kept = {} /\ leftover = {}
  /\ crashes = 0 /\ errors = 0

-----------------------------------------------------------------------------
IdsOf(list) == {list[i].id : i \in DOMAIN list}
NamesOf(list) == UNION {list[i].names : i \in DOMAIN list}

containerLocation(c) == IF c.volatileStore THEN "volatile" ELSE "stable"

\* The record of id in list.
Get(list, id) == list[CHOOSE i \in DOMAIN list : list[i].id = id]

\* load reads the stable file, then the volatile one, and skips ids it has.
OnDisk ==
  LET stable == disk["stable"] IN
  stable \o SelectSeq(disk["volatile"], LAMBDA c : c.id \notin IdsOf(stable))

\* The ids that are in one of the files, and in both.
Recorded(lists) == IdsOf(lists["stable"]) \cup IdsOf(lists["volatile"])
Duplicated(lists) == IdsOf(lists["stable"]) \cap IdsOf(lists["volatile"])

\* load: the last container with a name keeps it ...
Deduplicated(list) ==
  [i \in DOMAIN list |->
    [list[i] EXCEPT !.names =
      {n \in @ : \A j \in DOMAIN list : j > i => n \notin list[j].names}]]

\* ... and the locations to save are those of the containers that keep one.
ModifiedLocations(list) ==
  {containerLocation(list[j]) : j \in
    {k \in DOMAIN list : \E i \in 1..(k - 1) : list[i].names \cap list[k].names # {}}}

Consistent(list) == Deduplicated(list) = list

Goto(p, step) == pc' = [pc EXCEPT ![p] = step]

NoFault == UNCHANGED <<crashes, errors>>
Fault == crashes + errors < MaxFaults /\ errors' = errors + 1 /\ UNCHANGED crashes

\* Calls save(locations) for the given reason.
Save(p, reason, locations) ==
  /\ ret' = [ret EXCEPT ![p] = reason]
  /\ todo' = [todo EXCEPT ![p] = locations]
  /\ Goto(p, "save")

Loaded(p) == mem' = [mem EXCEPT ![p] = Deduplicated(OnDisk)]

\* Takes the lock and changes nothing else.
Take(p, from, mode, to) ==
  /\ pc[p] = from
  /\ Lock!Acquire(p, mode)
  /\ Goto(p, to)
  /\ NoFault
  /\ UNCHANGED <<ret, todo, mem, fresh, disk, datadirs, kept, leftover>>

-----------------------------------------------------------------------------
(* newContainerStore *)
NewStore(p) == Take(p, "down", "write", "load")

LoadNew(p) ==
  /\ pc[p] = "load"
  /\ Loaded(p)
  /\ fresh' = [fresh EXCEPT ![p] = TRUE]
  /\ IF Consistent(OnDisk)
     THEN Lock!Release(p) /\ Goto(p, "idle") /\ UNCHANGED <<ret, todo>>
     ELSE Save(p, [op |-> "new"], ModifiedLocations(OnDisk)) /\ UNCHANGED holds
  /\ NoFault
  /\ UNCHANGED <<disk, datadirs, kept, leftover>>

(* startReading *)
StartReading(p) == Take(p, "idle", "read", "reload")

\* reloadIfChanged(false): load assigns the list before it finds that it may
\* not save; the lock is released and the process goes on to giveUp.
ReloadForReading(p, from, giveUp) ==
  /\ pc[p] = from
  /\ IF fresh[p]
     THEN UNCHANGED <<holds, mem, fresh>> /\ Goto(p, "reading")
     ELSE /\ Loaded(p)
          /\ IF Consistent(OnDisk)
             THEN /\ fresh' = [fresh EXCEPT ![p] = TRUE]
                  /\ Goto(p, "reading")
                  /\ UNCHANGED holds
             ELSE Lock!Release(p) /\ Goto(p, giveUp) /\ UNCHANGED fresh
  /\ NoFault
  /\ UNCHANGED <<ret, todo, disk, datadirs, kept, leftover>>

Reload(p) == ReloadForReading(p, "reload", "upgrade")
Upgrade(p) == Take(p, "upgrade", "write", "cleanup")
RelockRead(p) == Take(p, "relock", "read", "last")
ReloadAgain(p) == ReloadForReading(p, "last", "idle")

\* Fault: a writer goes on with what it has in memory.
ReloadForWriting_Skipped(p, from, reason, to) ==
  /\ pc[p] = from
  /\ Goto(p, to)
  /\ NoFault
  /\ UNCHANGED <<holds, ret, todo, mem, fresh, disk, datadirs, kept, leftover>>

\* reloadIfChanged(true)
ReloadForWriting(p, from, reason, to) ==
  /\ pc[p] = from
  /\ IF fresh[p]
     THEN UNCHANGED <<mem, fresh, ret, todo>> /\ Goto(p, to)
     ELSE /\ Loaded(p)
          /\ IF Consistent(OnDisk)
             THEN /\ fresh' = [fresh EXCEPT ![p] = TRUE]
                  /\ Goto(p, to)
                  /\ UNCHANGED <<ret, todo>>
             ELSE /\ Save(p, [op |-> reason], ModifiedLocations(OnDisk))
                  /\ UNCHANGED fresh
  /\ NoFault
  /\ UNCHANGED <<holds, disk, datadirs, kept, leftover>>

Cleanup(p) == ReloadForWriting(p, "cleanup", "downgrade", "downgrade")

Downgrade(p) ==
  /\ pc[p] = "downgrade"
  /\ Lock!Release(p)
  /\ Goto(p, "relock")
  /\ NoFault
  /\ UNCHANGED <<ret, todo, mem, fresh, disk, datadirs, kept, leftover>>

(* startWriting *)
StartWriting(p) == Take(p, "idle", "write", "wreload")
ReloadWriting(p) == ReloadForWriting(p, "wreload", "reload", "writing")

\* newContainerStore returns before it has deferred stopWriting.
GetLastWriteFails(p) ==
  /\ pc[p] = "load"
  /\ Fault
  /\ Goto(p, "down")
  /\ UNCHANGED <<holds, ret, todo, mem, fresh, disk, datadirs, kept, leftover>>

\* The lock file or a container file cannot be read.
LoadFails(p) ==
  /\ pc[p] \in {"load", "reload", "cleanup", "last", "wreload"}
  /\ Fault
  /\ Lock!Release(p)
  /\ Goto(p, IF pc[p] = "load" THEN "down" ELSE "idle")
  /\ UNCHANGED <<ret, todo, mem, fresh, disk, datadirs, kept, leftover>>

\* stopReading, stopWriting
Stop(p) ==
  /\ pc[p] \in {"reading", "writing"}
  /\ Lock!Release(p)
  /\ Goto(p, "idle")
  /\ NoFault
  /\ UNCHANGED <<ret, todo, mem, fresh, disk, datadirs, kept, leftover>>

-----------------------------------------------------------------------------
\* Fault: save does not record the write.
RecordWrite_Forgotten(p) ==
  /\ pc[p] = "save"
  /\ Goto(p, "write")
  /\ NoFault
  /\ UNCHANGED <<holds, ret, todo, mem, fresh, disk, datadirs, kept, leftover>>

(* save: RecordWrite, then each file atomically, the stable one first.     *)
RecordWrite(p) ==
  /\ pc[p] = "save"
  /\ fresh' = [q \in Procs |-> q = p]
  /\ Goto(p, "write")
  /\ NoFault
  /\ UNCHANGED <<holds, ret, todo, mem, disk, datadirs, kept, leftover>>

NextLocation(p) == IF "stable" \in todo[p] THEN "stable" ELSE "volatile"

\* save: the containers that belong to loc.
SubsetContainers(list, loc) ==
  SelectSeq(list, LAMBDA c : containerLocation(c) = loc)

\* One file of save; after the last one it returns to its caller.
WriteFile(p) ==
  LET op == ret[p].op
      loc == NextLocation(p)
      last == todo[p] = {loc} IN
  /\ pc[p] = "write"
  /\ disk' = [disk EXCEPT ![loc] = SubsetContainers(mem[p], loc)]
  /\ leftover' = leftover \cap Recorded(disk')
  /\ todo' = [todo EXCEPT ![p] = @ \ {loc}]
  /\ IF ~last
     THEN UNCHANGED <<holds, pc, ret, fresh, kept>>
     ELSE /\ fresh' = [fresh EXCEPT ![p] = @ /\ op \notin {"downgrade", "reload"}]
          /\ IF op = "new" THEN Lock!Release(p) ELSE UNCHANGED holds
          /\ Goto(p, CASE op = "new" -> "idle"
                       [] op = "downgrade" -> "downgrade"
                       [] op = "createData" -> "bigdata"
                       [] op = "delete" -> "rmdir"
                       [] OTHER -> "writing")
          /\ kept' = IF op = "create" THEN kept \cup {<<ret[p].id, loc>>} ELSE kept
          /\ ret' = [ret EXCEPT ![p] =
                       IF op \in {"createData", "delete"} THEN @ ELSE NoReason]
  /\ NoFault
  /\ UNCHANGED <<mem, datadirs>>

\* Fault: the stable file is saved, whichever has the container.
DeleteFromMemory_Stable(p, id) ==
  /\ mem' = [mem EXCEPT ![p] = SelectSeq(@, LAMBDA c : c.id # id)]
  /\ Save(p, [op |-> "delete", id |-> id], {"stable"})

\* Delete: out of memory, then saveFor.
DeleteFromMemory(p, id) ==
  /\ mem' = [mem EXCEPT ![p] = SelectSeq(@, LAMBDA c : c.id # id)]
  /\ Save(p, [op |-> "delete", id |-> id], {containerLocation(Get(mem[p], id))})

\* What memory no longer has and the save of p has yet to take out of a file.
Unsaved(p) == UNION {IdsOf(disk[l]) : l \in todo[p]} \ IdsOf(mem[p])

\* save fails at RecordWrite, MkdirAll, Marshal or AtomicWriteFileWithOpts.
\* create then deletes its record; other operations return the error.
SaveFails(p) ==
  LET op == ret[p].op IN
  /\ pc[p] \in {"save", "write"}
  /\ Fault
  /\ fresh' \in {fresh} \cup (IF pc[p] = "save" THEN {[q \in Procs |-> FALSE]} ELSE {})
  /\ IF op \in {"create", "createData"}
     THEN DeleteFromMemory(p, ret[p].id) /\ UNCHANGED holds
     ELSE /\ ret' = [ret EXCEPT ![p] = NoReason]
          /\ todo' = [todo EXCEPT ![p] = {}]
          /\ UNCHANGED mem
          /\ IF op \in {"new", "downgrade", "reload"}
             THEN Lock!Release(p) /\ Goto(p, IF op = "new" THEN "down" ELSE "idle")
             ELSE UNCHANGED holds /\ Goto(p, "writing")
  /\ leftover' = leftover \cup Unsaved(p)
  /\ UNCHANGED <<disk, datadirs, kept>>

-----------------------------------------------------------------------------
(* Operations between startWriting and stopWriting.                        *)

\* Fault: an id that is in use is accepted.
Create_AnyId(p, id, names, volatile, reason) ==
  LET c == [id |-> id, names |-> names, data |-> FALSE,
            volatileStore |-> volatile] IN
  /\ pc[p] = "writing"
  /\ names \cap NamesOf(mem[p]) = {}
  /\ mem' = [mem EXCEPT ![p] = Append(@, c)]
  /\ Save(p, [op |-> reason, id |-> id], {containerLocation(c)})
  /\ NoFault
  /\ UNCHANGED <<holds, fresh, disk, datadirs, kept, leftover>>

\* create
Create(p, id, names, volatile, reason) ==
  LET c == [id |-> id, names |-> names, data |-> FALSE,
            volatileStore |-> volatile] IN
  /\ pc[p] = "writing"
  /\ id \notin IdsOf(mem[p])
  /\ names \cap NamesOf(mem[p]) = {}
  /\ mem' = [mem EXCEPT ![p] = Append(@, c)]
  /\ Save(p, [op |-> reason, id |-> id], {containerLocation(c)})
  /\ NoFault
  /\ UNCHANGED <<holds, fresh, disk, datadirs, kept, leftover>>

\* updateNames: names are taken from the containers that have them, and the
\* location of the renamed container is saved.
UpdateNames(p, id, names) ==
  /\ pc[p] = "writing"
  /\ id \in IdsOf(mem[p])
  /\ mem' = [mem EXCEPT ![p] =
       [i \in DOMAIN @ |->
         [@[i] EXCEPT !.names = IF mem[p][i].id = id THEN names ELSE @ \ names]]]
  /\ Save(p, [op |-> "op"], {containerLocation(Get(mem[p], id))})
  /\ NoFault
  /\ UNCHANGED <<holds, fresh, disk, datadirs, kept, leftover>>

\* SetFlag, ClearFlag and SetMetadata change what is not modelled, and saveFor.
SetField(p, id) ==
  /\ pc[p] = "writing"
  /\ id \in IdsOf(mem[p])
  /\ Save(p, [op |-> "op"], {containerLocation(Get(mem[p], id))})
  /\ NoFault
  /\ UNCHANGED <<holds, mem, fresh, disk, datadirs, kept, leftover>>

\* SetBigData, also from create: the file first, then the record.
WriteBigData(p, id, reason) ==
  /\ datadirs' = datadirs \cup {id}
  /\ mem' = [mem EXCEPT ![p] =
       [i \in DOMAIN @ |-> [@[i] EXCEPT !.data = @ \/ mem[p][i].id = id]]]
  /\ Save(p, reason, {containerLocation(Get(mem[p], id))})
  /\ NoFault

SetBigData(p, id) ==
  /\ pc[p] = "writing"
  /\ id \in IdsOf(mem[p])
  /\ \/ WriteBigData(p, id, [op |-> "op"])
     \/ /\ Get(mem[p], id).data   \* the same content: nothing to save
        /\ datadirs' = datadirs \cup {id}
        /\ NoFault
        /\ UNCHANGED <<pc, ret, todo, mem>>
  /\ UNCHANGED <<holds, fresh, disk, kept, leftover>>

CreateBigData(p) ==
  /\ pc[p] = "bigdata"
  /\ \/ WriteBigData(p, ret[p].id, [op |-> "create", id |-> ret[p].id])
     \/ Fault /\ DeleteFromMemory(p, ret[p].id) /\ UNCHANGED datadirs
  /\ UNCHANGED <<holds, fresh, disk, kept, leftover>>

\* Fault: the data is removed before the record.
Delete_DataFirst(p, id) ==
  /\ pc[p] = "writing"
  /\ id \in IdsOf(mem[p])
  /\ DeleteFromMemory(p, id)
  /\ datadirs' = datadirs \ {id}
  /\ kept' = kept \ ({id} \X Locations)
  /\ NoFault
  /\ UNCHANGED <<holds, fresh, disk, leftover>>

\* Delete, and each round of Wipe
Delete(p, id) ==
  /\ pc[p] = "writing"
  /\ id \in IdsOf(mem[p])
  /\ DeleteFromMemory(p, id)
  /\ kept' = kept \ ({id} \X Locations)
  /\ NoFault
  /\ UNCHANGED <<holds, fresh, disk, datadirs, leftover>>

RemoveDatadir(p) ==
  /\ pc[p] = "rmdir"
  /\ \/ datadirs' = datadirs \ {ret[p].id} /\ NoFault
     \/ UNCHANGED datadirs /\ Fault
  /\ ret' = [ret EXCEPT ![p] = NoReason]
  /\ Goto(p, "writing")
  /\ UNCHANGED <<holds, todo, mem, fresh, disk, kept, leftover>>

GarbageCollect(p) ==
  /\ pc[p] = "writing"
  /\ LET known == datadirs \cap IdsOf(mem[p]) IN
     \/ datadirs' = known /\ NoFault
     \/ Fault /\ \E left \in SUBSET (datadirs \ known) : datadirs' = known \cup left
  /\ UNCHANGED <<holds, pc, ret, todo, mem, fresh, disk, kept, leftover>>

-----------------------------------------------------------------------------
\* The processes S end; their memory and locks are gone.
Die(S) ==
  /\ crashes + errors < MaxFaults /\ crashes' = crashes + 1
  /\ Lock!Die(S)
  /\ pc' = [p \in Procs |-> IF p \in S THEN "down" ELSE pc[p]]
  /\ ret' = [p \in Procs |-> IF p \in S THEN NoReason ELSE ret[p]]
  /\ todo' = [p \in Procs |-> IF p \in S THEN {} ELSE todo[p]]
  /\ mem' = [p \in Procs |-> IF p \in S THEN <<>> ELSE mem[p]]
  /\ fresh' = [p \in Procs |-> fresh[p] /\ p \notin S]
  /\ UNCHANGED <<datadirs, errors>>

Crash(p) == Die({p}) /\ UNCHANGED <<disk, kept, leftover>>

\* A reboot ends every process; in a transient store the volatile file, and
\* with it the volatile containers, is gone.
Reboot ==
  /\ Die(Procs)
  /\ IF Transient
     THEN /\ disk' = [disk EXCEPT !["volatile"] = <<>>]
          /\ kept' = kept \cap (Ids \X {"stable"})
     ELSE UNCHANGED <<disk, kept>>
  /\ leftover' = leftover \cap Recorded(disk')

Step(p) ==
  \/ NewStore(p) \/ LoadNew(p) \/ GetLastWriteFails(p) \/ LoadFails(p)
  \/ StartReading(p) \/ Reload(p) \/ Upgrade(p) \/ Cleanup(p) \/ Downgrade(p)
  \/ RelockRead(p) \/ ReloadAgain(p)
  \/ StartWriting(p) \/ ReloadWriting(p) \/ Stop(p)
  \/ RecordWrite(p) \/ WriteFile(p) \/ SaveFails(p)
  \/ \E id \in Ids, names \in SUBSET Names :
       \/ \E volatile \in BOOLEAN, reason \in {"create", "createData"} :
            Create(p, id, names, volatile, reason)
       \/ UpdateNames(p, id, names)
  \/ \E id \in Ids : SetField(p, id) \/ SetBigData(p, id) \/ Delete(p, id)
  \/ CreateBigData(p) \/ RemoveDatadir(p) \/ GarbageCollect(p)
  \/ Crash(p)

Next == (\E p \in Procs : Step(p)) \/ Reboot

Spec == Init /\ [][Next]_vars

-----------------------------------------------------------------------------
\* "There should be no duplicated ids between json files" (load): an id may
\* be deleted and created again in the other location, by another process
\* and around crashes, and still is in both files only after a Delete of it
\* whose save failed: the record is then out of memory, where create looks
\* for the id, and still in its file (create, Delete, save).
IdInOneFile == Duplicated(disk) \subseteq leftover

\* A container that create reported stays in the file of the location it was
\* created in until it is deleted, whatever is saved for other containers,
\* whichever process crashes and whichever save fails (saveFor, save, load),
\* save for an id left over by a Delete that failed.
CreatedIsKept ==
  \A <<id, loc>> \in kept : id \in IdsOf(disk[loc]) \/ id \in leftover

\* A process that startReading or startWriting let in, and that is not in
\* the middle of a change, knows the containers on disk, until a save fails
\* (startReading, startWriting, reloadIfChanged, save).
KnowsContainers ==
  errors = 0 =>
    \A p \in Procs :
      pc[p] \in {"reading", "writing"} => IdsOf(mem[p]) = IdsOf(OnDisk)

\* A container on disk that names big data items has them, unless a save
\* failed earlier (SetBigData, Delete, GarbageCollect).
DataComplete ==
  errors = 0 => \A i \in DOMAIN OnDisk : OnDisk[i].data => OnDisk[i].id \in datadirs

\* "inconsistent state (duplicate container names) shouldn't be saved (by
\* correct implementations) in the first place" (containers.go:330).
NeverSavesDuplicateNames == Consistent(OnDisk)

\* "(even after successfully cleaning up once:)" (containers.go:335): once
\* startReading has reloaded with the write lock, what it left on disk is
\* consistent.
CleanupCleans == \A p \in Procs : pc[p] = "downgrade" => Consistent(OnDisk)
=============================================================================
