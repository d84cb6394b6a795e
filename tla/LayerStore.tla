----------------------------- MODULE LayerStore -----------------------------
(***************************************************************************)
(* storage/layers.go: the layer records, the contents the graph driver     *)
(* keeps for them, and their mount counts.                                 *)
(*                                                                         *)
(* A record and its contents cannot change together.  create first saves a *)
(* record with the incomplete flag, internalDelete first saves the flag,   *)
(* and whoever loads the store with the write lock removes what has it.    *)
(*                                                                         *)
(* fresh and dirty are those of ImageStore, and every process has one      *)
(* goroutine.  mountpoints.lock is not a variable: every operation that    *)
(* takes it for writing here has layers.lock for writing.  (store.Diff on  *)
(* btrfs or zfs is left out: it mounts and unmounts with layers.lock held  *)
(* for reading only, what layers.go calls a "LOCKING BUG".)  Staging a     *)
(* deletion in a temporary directory (module TempDir) is removal here.     *)
(***************************************************************************)
EXTENDS Integers, Sequences, FiniteSets

CONSTANTS
  Procs, Ids, Names,
  HasImageStore,    \* an image store is configured for read-only layers
  MaxCleanups,      \* maxLayerStoreCleanupIterations
  DataIds,          \* ids that callers set big data items of
  MountedIds,       \* ids that callers mount, at most MaxMounts times each
  MaxMounts,
  MaxFaults         \* bound on crashes and I/O errors together

VARIABLES
  holds,      \* layers.lock (module RWLock)
  pc, ret,    \* each process's step, and the operation it is in
  todo,       \* locations the save it is in has still to write
  purge,      \* incomplete layers that load has still to delete
  cleanups,   \* cleanupsDone of startReading
  mem, fresh,
  disk,       \* the layer list in the file of each location
  driver,     \* the contents the graph driver has for each id
  files,      \* ids with a data directory or a tar-split file
  mcount, mpoint,         \* in memory: mount counts, ids with a mount point
  mfresh, mdisk,          \* those are current; mountpoints.json
  mounted,    \* ids the driver has mounted
  dirty,      \* history: an operation that changed mem[p] failed
  kept,       \* history: <<id, location>> created and not deleted since, while
              \* no file had a leftover of the id
  leftover,   \* history: ids a failed save left in a file, until none has them
  orphaned,   \* history: ids whose record a reboot took
  users,      \* history: Mount calls less unmount calls
  forced,     \* history: ids that driver.Put failed for in a forced unmount
  crashes, errors

control == <<holds, pc, ret, todo, purge, cleanups>>
records == <<mem, fresh, disk, dirty>>
contents == <<driver, files>>
mounts == <<mcount, mpoint, mfresh, mdisk, mounted, users, forced>>
past == <<kept, leftover, orphaned>>
vars == <<control, records, contents, mounts, past, crashes, errors>>

Lock == INSTANCE RWLock WITH Threads <- Procs

Locations == {"stable", "image", "volatile"}

Layer == [id : Ids, names : SUBSET Names, data : BOOLEAN, incomplete : BOOLEAN,
          location : Locations]

Lists == UNION {[1..n -> Layer] : n \in 0..Cardinality(Ids)}

NoReason == [op |-> "none"]

Loads == {"new", "downgrade", "reload"}

Reasons == [op : Loads \cup {"none", "op"}]
             \cup [op : Loads \cup {"create", "contents", "finish", "unmount",
                                    "mark", "deleted"}, id : Ids]

Steps == {"down", "load", "idle", "reload", "upgrade", "cleanup", "downgrade",
          "relock", "reading", "wreload", "writing", "purge", "save", "write",
          "mounts", "build", "fill", "finish", "unmount", "remove", "stage"}

Counts == -(1 + MaxFaults)..MaxMounts

TypeOK ==
  /\ Lock!TypeOK
  /\ pc \in [Procs -> Steps] /\ ret \in [Procs -> Reasons]
  /\ todo \in [Procs -> SUBSET Locations] /\ purge \in [Procs -> SUBSET Ids]
  /\ cleanups \in [Procs -> 0..MaxCleanups]
  /\ mem \in [Procs -> Lists] /\ disk \in [Locations -> Lists]
  /\ fresh \in [Procs -> BOOLEAN] /\ dirty \in [Procs -> BOOLEAN]
  /\ driver \in [Ids -> {"none", "partial", "complete"}]
  /\ files \subseteq Ids /\ mounted \subseteq Ids /\ mpoint \in [Procs -> SUBSET Ids]
  /\ kept \subseteq Ids \X Locations /\ leftover \subseteq Ids
  /\ orphaned \subseteq Ids /\ forced \subseteq Ids
  /\ mcount \in [Procs -> [Ids -> Counts]] /\ mfresh \in [Procs -> BOOLEAN]
  /\ mdisk \in [Ids -> 0..MaxMounts] /\ users \in [Ids -> 0..MaxMounts]

Init ==
  /\ Lock!Init
  /\ pc = [p \in Procs |-> "down"] /\ ret = [p \in Procs |-> NoReason]
  /\ todo = [p \in Procs |-> {}] /\ purge = [p \in Procs |-> {}]
  /\ cleanups = [p \in Procs |-> 0]
  /\ mem = [p \in Procs |-> <<>>] /\ disk = [l \in Locations |-> <<>>]
  /\ fresh = [p \in Procs |-> FALSE] /\ dirty = [p \in Procs |-> FALSE]
  /\ driver = [id \in Ids |-> "none"]
  /\ files = {} /\ mounted = {} /\ mpoint = [p \in Procs |-> {}]
  /\ kept = {} /\ leftover = {} /\ orphaned = {} /\ forced = {}
  /\ mcount = [p \in Procs |-> [id \in Ids |-> 0]]
  /\ mfresh = [p \in Procs |-> FALSE]
  /\ mdisk = [id \in Ids |-> 0] /\ users = [id \in Ids |-> 0]
  /\ crashes = 0 /\ errors = 0

-----------------------------------------------------------------------------
IdsOf(list) == {list[i].id : i \in DOMAIN list}
NamesOf(list) == UNION {list[i].names : i \in DOMAIN list}

\* lookup
Get(list, id) == list[CHOOSE i \in DOMAIN list : list[i].id = id]

Incomplete(list) == {list[i].id : i \in {j \in DOMAIN list : list[j].incomplete}}

pickStoreLocation(volatile, writeable) ==
  IF volatile THEN "volatile"
  ELSE IF ~writeable /\ HasImageStore THEN "image" ELSE "stable"

\* The list with the layers of more that it does not have (load).
Extended(list, more) == list \o SelectSeq(more, LAMBDA l : l.id \notin IdsOf(list))

\* load reads the files in the order of the locations and skips ids it has.
OnDisk == Extended(Extended(disk["stable"], disk["image"]), disk["volatile"])

\* The ids that are in the file of some location, and of two.
Recorded(lists) == UNION {IdsOf(lists[l]) : l \in Locations}

Duplicated(lists) ==
  {id \in Ids : \E k, l \in Locations :
     k # l /\ id \in IdsOf(lists[k]) \cap IdsOf(lists[l])}

\* load: the last layer with a name keeps it.
Deduplicated(list) ==
  [i \in DOMAIN list |->
    [list[i] EXCEPT !.names =
      {n \in @ : \A j \in DOMAIN list : j > i => n \notin list[j].names}]]

\* load: the locations of layers that lose a name and of incomplete layers.
ModifiedLocations(list) ==
  {list[i].location : i \in
    {j \in DOMAIN list : list[j].incomplete \/ list[j] # Deduplicated(list)[j]}}

Consistent(list) == ModifiedLocations(list) = {}

Goto(p, step) == pc' = [pc EXCEPT ![p] = step]

NoFault == UNCHANGED <<crashes, errors>>
Fault == crashes + errors < MaxFaults /\ errors' = errors + 1 /\ UNCHANGED crashes

\* loadMounts: counts of layers that are not in the list are dropped.
LoadedMounts(counts, list) ==
  [id \in Ids |-> IF id \in IdsOf(list) /\ counts[id] > 0 THEN counts[id] ELSE 0]

\* Calls save(locations) for the given reason.
Save(p, reason, locations) ==
  /\ ret' = [ret EXCEPT ![p] = reason]
  /\ todo' = [todo EXCEPT ![p] = locations]
  /\ Goto(p, "save")
  /\ UNCHANGED <<holds, purge, cleanups>>

\* Goes to a step that does not save.
Continue(p, step, reason) ==
  /\ Goto(p, step)
  /\ ret' = [ret EXCEPT ![p] = reason]
  /\ UNCHANGED <<holds, todo, purge, cleanups>>

\* p knows the counts, and the mount points of the ids in points, and the
\* token of mountpoints.lock is the one it remembers.
KnowMounts(p, counts, points) ==
  /\ mcount' = [mcount EXCEPT ![p] = counts]
  /\ mpoint' = [mpoint EXCEPT ![p] = points]
  /\ mfresh' = [mfresh EXCEPT ![p] = TRUE]

Counted(counts) == {id \in Ids : counts[id] > 0}

\* load replaces the layers and, with them, the mount counts.
Loaded(p) ==
  LET counts == LoadedMounts(mdisk, OnDisk) IN
  /\ mem' = [mem EXCEPT ![p] = Deduplicated(OnDisk)]
  /\ dirty' = [dirty EXCEPT ![p] = FALSE]
  /\ KnowMounts(p, counts, Counted(counts))

\* The counts and mount points after reloadMountsIfChanged.
CurrentCounts(p) == IF mfresh[p] THEN mcount[p] ELSE LoadedMounts(mdisk, mem[p])
CurrentPoints(p) == IF mfresh[p] THEN mpoint[p] ELSE Counted(CurrentCounts(p))

\* Fault: the mount counts are not loaded again.
ReloadMounts_Skipped(p) == UNCHANGED <<mcount, mpoint, mfresh>>

\* reloadMountsIfChanged
ReloadMounts(p) == KnowMounts(p, CurrentCounts(p), CurrentPoints(p))

\* Takes the lock and changes nothing else.
Take(p, from, mode, to) ==
  /\ pc[p] = from
  /\ Lock!Acquire(p, mode)
  /\ Goto(p, to)
  /\ NoFault
  /\ UNCHANGED <<ret, todo, purge, cleanups, records, contents, mounts, past>>

-----------------------------------------------------------------------------
(* newLayerStore, startReading, startWriting and the loads they make       *)

\* load(true) for the operation op: when the store is consistent, goes to the
\* next step, and else on to delete the incomplete layers.
LoadForWriting(p, op, to) ==
  /\ Loaded(p)
  /\ IF Consistent(OnDisk)
     THEN /\ fresh' = [fresh EXCEPT ![p] = TRUE]
          /\ Goto(p, to)
          /\ UNCHANGED <<ret, todo, purge>>
          /\ IF op = "new" THEN Lock!Release(p) ELSE UNCHANGED holds
     ELSE /\ fresh' = [fresh EXCEPT ![p] = op = "new"]
          /\ Goto(p, "purge")
          /\ ret' = [ret EXCEPT ![p] = [op |-> op]]
          /\ todo' = [todo EXCEPT ![p] = ModifiedLocations(OnDisk)]
          /\ purge' = [purge EXCEPT ![p] = Incomplete(OnDisk)]
          /\ UNCHANGED holds

NewStore(p) == Take(p, "down", "write", "load")

LoadNew(p) ==
  /\ pc[p] = "load"
  /\ LoadForWriting(p, "new", "idle")
  /\ NoFault
  /\ UNCHANGED <<cleanups, disk, contents, mdisk, mounted, users, forced, past>>

StartReading(p) ==
  /\ pc[p] = "idle"
  /\ Lock!Acquire(p, "read")
  /\ Goto(p, "reload")
  /\ cleanups' = [cleanups EXCEPT ![p] = 0]
  /\ NoFault
  /\ UNCHANGED <<ret, todo, purge, records, contents, mounts, past>>

\* modified, and reloadIfChanged(false): load returns before it assigns the
\* layers when it would have to save; startReading then cleans up with the
\* write lock, or gives up after MaxCleanups rounds.
Reload(p) ==
  /\ pc[p] = "reload"
  /\ IF fresh[p]
     THEN /\ ReloadMounts(p)
          /\ Goto(p, "reading")
          /\ UNCHANGED <<holds, mem, fresh, dirty>>
     ELSE IF Consistent(OnDisk)
     THEN /\ Loaded(p)
          /\ fresh' = [fresh EXCEPT ![p] = TRUE]
          /\ Goto(p, "reading")
          /\ UNCHANGED holds
     ELSE /\ Lock!Release(p)
          /\ Goto(p, IF cleanups[p] >= MaxCleanups THEN "idle" ELSE "upgrade")
          /\ UNCHANGED <<mem, fresh, dirty, mcount, mpoint, mfresh>>
  /\ cleanups' = [cleanups EXCEPT ![p] = IF pc'[p] = "upgrade" THEN @ ELSE 0]
  /\ NoFault
  /\ UNCHANGED <<ret, todo, purge, disk, contents, mdisk, mounted,
                 users, forced, past>>

Upgrade(p) == Take(p, "upgrade", "write", "cleanup")
RelockRead(p) == Take(p, "relock", "read", "reload")

\* reloadIfChanged(true)
ReloadForWriting(p, from, op, to) ==
  /\ pc[p] = from
  /\ IF fresh[p]
     THEN /\ ReloadMounts(p)
          /\ Goto(p, to)
          /\ UNCHANGED <<holds, ret, todo, purge, mem, fresh, dirty>>
     ELSE LoadForWriting(p, op, to)
  /\ NoFault
  /\ UNCHANGED <<cleanups, disk, contents, mdisk, mounted, users, forced, past>>

Cleanup(p) == ReloadForWriting(p, "cleanup", "downgrade", "downgrade")

Downgrade(p) ==
  /\ pc[p] = "downgrade"
  /\ Lock!Release(p)
  /\ Goto(p, "relock")
  /\ cleanups' = [cleanups EXCEPT ![p] = @ + 1]
  /\ NoFault
  /\ UNCHANGED <<ret, todo, purge, records, contents, mounts, past>>

StartWriting(p) == Take(p, "idle", "write", "wreload")
ReloadWriting(p) == ReloadForWriting(p, "wreload", "reload", "writing")

\* The lock file, a layer file or mountpoints.json cannot be read.
LoadFails(p) ==
  /\ pc[p] \in {"load", "reload", "cleanup", "wreload"}
  /\ Fault
  /\ Lock!Release(p)
  /\ Goto(p, IF pc[p] = "load" THEN "down" ELSE "idle")
  /\ UNCHANGED <<ret, todo, purge, cleanups, records, contents, mounts, past>>

\* stopReading, stopWriting
Stop(p) ==
  /\ pc[p] \in {"reading", "writing"}
  /\ Lock!Release(p)
  /\ Goto(p, "idle")
  /\ NoFault
  /\ UNCHANGED <<ret, todo, purge, cleanups, records, contents, mounts, past>>

-----------------------------------------------------------------------------
\* Fault: saveLayers does not record the write.
RecordWrite_Forgotten(p) ==
  /\ pc[p] = "save"
  /\ Goto(p, "write")
  /\ NoFault
  /\ UNCHANGED <<holds, ret, todo, purge, cleanups, records, contents, mounts, past>>

(* saveLayers: RecordWrite, then each file atomically                      *)
RecordWrite(p) ==
  /\ pc[p] = "save"
  /\ fresh' = [q \in Procs |-> q = p]
  /\ Goto(p, "write")
  /\ NoFault
  /\ UNCHANGED <<holds, ret, todo, purge, cleanups, mem, disk, dirty, contents,
                 mounts, past>>

\* load returns; r.lastWrite becomes the token from before the save, unless a
\* deletion failed.
EndLoad(p, op) ==
  /\ ret' = [ret EXCEPT ![p] = NoReason]
  /\ fresh' = [fresh EXCEPT ![p] = dirty[p] \/ op = "new"]
  /\ Goto(p, CASE op = "new" /\ dirty[p] -> "down"
               [] op = "new" \/ dirty[p] -> "idle"
               [] op = "downgrade" -> "downgrade"
               [] op = "reload" -> "writing")
  /\ IF op = "new" \/ dirty[p] THEN Lock!Release(p) ELSE UNCHANGED holds

NextLocation(p) ==
  CASE "stable" \in todo[p] -> "stable"
    [] "stable" \notin todo[p] /\ "image" \in todo[p] -> "image"
    [] OTHER -> "volatile"

\* One file of saveLayers; after the last one save goes on to saveMounts and
\* load returns.
WriteFile(p) ==
  LET loc == NextLocation(p) IN
  /\ pc[p] = "write"
  /\ disk' = [disk EXCEPT ![loc] = SelectSeq(mem[p], LAMBDA l : l.location = loc)]
  /\ leftover' = leftover \cap Recorded(disk')
  /\ todo' = [todo EXCEPT ![p] = @ \ {loc}]
  /\ IF todo[p] # {loc} THEN UNCHANGED <<holds, pc, ret, fresh>>
     ELSE IF ret[p].op \in Loads THEN EndLoad(p, ret[p].op)
     ELSE Goto(p, "mounts") /\ UNCHANGED <<holds, ret, fresh>>
  /\ NoFault
  /\ UNCHANGED <<purge, cleanups, mem, dirty, contents, mounts, kept, orphaned>>

\* What saveMounts writes: the counts of layers that have a mount point.
SavedMounts(p) ==
  [id \in Ids |-> IF id \in mpoint[p] THEN LoadedMounts(mcount[p], mem[p])[id] ELSE 0]

\* saveMounts, which loads what it wrote, and the return of save.
SaveMounts(p) ==
  LET saved == SavedMounts(p)
      op == ret[p].op IN
  /\ pc[p] = "mounts"
  /\ mdisk' = saved
  /\ mcount' = [mcount EXCEPT ![p] = saved]
  /\ mpoint' = [mpoint EXCEPT ![p] = Counted(saved)]
  /\ mfresh' = [q \in Procs |-> q = p]
  /\ kept' = IF op = "finish" /\ ret[p].id \notin leftover
             THEN kept \cup {<<ret[p].id, Get(mem[p], ret[p].id).location>>} ELSE kept
  /\ CASE op = "create" -> Continue(p, "build", ret[p])
       [] op = "contents" -> Continue(p, "finish", ret[p])
       [] op = "unmount" -> Continue(p, "unmount", ret[p])
       [] op = "mark" -> Continue(p, "remove", ret[p])
       [] op \in {"op", "finish", "deleted"} -> Continue(p, "writing", NoReason)
  /\ NoFault
  /\ UNCHANGED <<records, contents, mounted, users, forced, leftover, orphaned>>

\* An operation returns an error: create deletes its layer, load releases the
\* lock, the others leave memory as it is.
Abort(p) ==
  LET op == ret[p].op IN
  /\ dirty' = [dirty EXCEPT ![p] = TRUE]
  /\ todo' = [todo EXCEPT ![p] = {}]
  /\ IF op \in {"create", "contents", "finish"}
     THEN /\ Goto(p, "unmount")
          /\ ret' = [ret EXCEPT ![p].op = "unmount"]
          /\ UNCHANGED holds
     ELSE /\ Goto(p, IF op = "new" THEN "down" ELSE IF op \in Loads THEN "idle" ELSE "writing")
          /\ ret' = [ret EXCEPT ![p] = NoReason]
          /\ IF op \in Loads THEN Lock!Release(p) ELSE UNCHANGED holds
  /\ UNCHANGED <<purge, cleanups>>

\* What memory no longer has and the save of p has yet to take out of a file.
Unsaved(p) == UNION {IdsOf(disk[l]) : l \in todo[p]} \ IdsOf(mem[p])

\* RecordWrite, MkdirAll, Syncfs or AtomicWriteFileWithOpts fails.
SaveLayersFails(p) ==
  /\ pc[p] \in {"save", "write"}
  /\ Fault
  /\ fresh' \in {fresh} \cup (IF pc[p] = "save" THEN {[q \in Procs |-> FALSE]} ELSE {})
  /\ Abort(p)
  /\ leftover' = leftover \cup Unsaved(p)
  /\ UNCHANGED <<mem, disk, contents, mounts, kept, orphaned>>

\* saveMounts fails before or after it has recorded or made the write.
SaveMountsFails(p) ==
  LET self == [q \in Procs |-> q = p] IN
  /\ pc[p] = "mounts"
  /\ Fault
  /\ \/ mfresh' \in {mfresh, self, [q \in Procs |-> FALSE]} /\ UNCHANGED mdisk
     \/ mfresh' = self /\ mdisk' = SavedMounts(p)
  /\ Abort(p)
  /\ UNCHANGED <<mem, fresh, disk, contents, mcount, mpoint, mounted, users, forced, past>>

-----------------------------------------------------------------------------
\* create: the new record, incomplete and not mounted, in memory.
AddLayer(p, id, names, location) ==
  /\ mem' = [mem EXCEPT ![p] = Append(@,
       [id |-> id, names |-> names, data |-> FALSE, incomplete |-> TRUE,
        location |-> location])]
  /\ mcount' = [mcount EXCEPT ![p][id] = 0]
  /\ mpoint' = [mpoint EXCEPT ![p] = @ \ {id}]
  /\ NoFault
  /\ UNCHANGED <<fresh, disk, dirty, contents, mfresh, mdisk, mounted, users, forced, past>>

\* Fault: an id that is in use is accepted.
Create_AnyId(p, id, names, location) ==
  /\ pc[p] = "writing"
  /\ names \cap NamesOf(mem[p]) = {}
  /\ AddLayer(p, id, names, location)
  /\ Save(p, [op |-> "create", id |-> id], {location})

\* Fault: the driver is called before the record is saved.
Create_DriverFirst(p, id, names, location) ==
  /\ pc[p] = "writing"
  /\ id \notin IdsOf(mem[p])
  /\ names \cap NamesOf(mem[p]) = {}
  /\ AddLayer(p, id, names, location)
  /\ Continue(p, "build", [op |-> "create", id |-> id])

(* create                                                                  *)
Create(p, id, names, location) ==
  /\ pc[p] = "writing"
  /\ id \notin IdsOf(mem[p])
  /\ names \cap NamesOf(mem[p]) = {}
  /\ AddLayer(p, id, names, location)
  /\ Save(p, [op |-> "create", id |-> id], {location})

\* The list with the record of id changed by a setBigData.
WithData(list, id) ==
  [i \in DOMAIN list |-> [list[i] EXCEPT !.data = @ \/ list[i].id = id]]

\* The list with the incomplete flag of id set or deleted.
WithFlag(list, id, value) ==
  [i \in DOMAIN list |->
    [list[i] EXCEPT !.incomplete = IF list[i].id = id THEN value ELSE @]]

\* setBigData: the file, then the record if it has not named the item.
setBigData(p, id, reason) ==
  /\ files' = files \cup {id}
  /\ mem' = [mem EXCEPT ![p] = WithData(@, id)]
  /\ IF Get(mem[p], id).data
     THEN UNCHANGED control
     ELSE Save(p, reason, {Get(mem[p], id).location})
  /\ NoFault
  /\ UNCHANGED <<fresh, disk, dirty, driver, mounts, past>>

CreateBigData(p) ==
  /\ pc[p] = "build"
  /\ ret[p].id \in DataIds
  /\ setBigData(p, ret[p].id, ret[p])

\* driver.Create, CreateReadWrite or CreateFromTemplate
CreateInDriver(p) ==
  /\ pc[p] = "build"
  /\ driver' = [driver EXCEPT ![ret[p].id] = "partial"]
  /\ Continue(p, "fill", ret[p])
  /\ NoFault
  /\ UNCHANGED <<records, files, mounts, past>>

\* The contents are complete: copied from a template or empty, or extracted,
\* in which case applyDiffWithOptions saves the record.
FillContents(p) ==
  LET id == ret[p].id IN
  /\ pc[p] = "fill"
  /\ driver' = [driver EXCEPT ![id] = "complete"]
  /\ files' \in {files, files \cup {id}}
  /\ \/ Continue(p, "finish", ret[p])
     \/ Save(p, [op |-> "contents", id |-> id], {Get(mem[p], id).location})
  /\ NoFault
  /\ UNCHANGED <<records, mounts, past>>

\* Any of these steps fails.
CreateFails(p) ==
  /\ pc[p] \in {"build", "fill"}
  /\ Fault
  /\ driver' \in {driver, [driver EXCEPT ![ret[p].id] = "partial"]}
  /\ Abort(p)
  /\ UNCHANGED <<mem, fresh, disk, files, mounts, past>>

FinishCreate(p) ==
  LET id == ret[p].id IN
  /\ pc[p] = "finish"
  /\ mem' = [mem EXCEPT ![p] = WithFlag(@, id, FALSE)]
  /\ Save(p, [op |-> "finish", id |-> id], {Get(mem[p], id).location})
  /\ NoFault
  /\ UNCHANGED <<fresh, disk, dirty, contents, mounts, past>>

-----------------------------------------------------------------------------
(* Mount, unmount                                                          *)

Mount(p, id) ==
  LET counts == CurrentCounts(p) IN
  /\ pc[p] = "writing"
  /\ id \in IdsOf(mem[p]) \cap MountedIds
  /\ counts[id] < MaxMounts
  /\ KnowMounts(p, [counts EXCEPT ![id] = @ + 1], CurrentPoints(p) \cup {id})
  /\ mounted' = mounted \cup {id}
  /\ users' = [users EXCEPT ![id] = IF @ < MaxMounts THEN @ + 1 ELSE @]
  /\ Continue(p, "mounts", [op |-> "op"])
  /\ NoFault
  /\ UNCHANGED <<records, contents, mdisk, forced, past>>

\* unmount is for the last user, so that driver.Put is called.
LastUser(p, id, force) == force \/ CurrentCounts(p)[id] <= 1

\* unmount with a driver.Put that fails: nothing is saved, and a forced one
\* leaves the count 1 it has set in memory.
putFails(p, id, force) ==
  LET counts == CurrentCounts(p) IN
  /\ LastUser(p, id, force)
  /\ KnowMounts(p, IF force THEN [counts EXCEPT ![id] = 1] ELSE counts, CurrentPoints(p))
  /\ forced' = IF force /\ counts[id] # 1 THEN forced \cup {id} ELSE forced
  /\ Continue(p, "writing", NoReason)
  /\ NoFault
  /\ UNCHANGED <<records, contents, mdisk, mounted, users, past>>

\* unmount up to saveMounts; driver.Put for the last user.
unmount(p, id, force, reason) ==
  LET counts == CurrentCounts(p)
      last == LastUser(p, id, force) IN
  /\ KnowMounts(p, [counts EXCEPT ![id] = IF force THEN 0 ELSE @ - 1],
                IF last THEN CurrentPoints(p) \ {id} ELSE CurrentPoints(p))
  /\ mounted' = IF last THEN mounted \ {id} ELSE mounted
  /\ users' = [users EXCEPT ![id] = IF last \/ @ = 0 THEN 0 ELSE @ - 1]
  /\ forced' = IF last THEN forced \ {id} ELSE forced
  /\ Continue(p, "mounts", reason)
  /\ NoFault
  /\ UNCHANGED <<records, contents, mdisk, past>>

Unmount(p, id, force) ==
  /\ pc[p] = "writing"
  /\ id \in IdsOf(mem[p]) \cap MountedIds
  /\ unmount(p, id, force, [op |-> "op"]) \/ putFails(p, id, force)

-----------------------------------------------------------------------------
(* Deletion                                                                *)

\* deferredDelete, and each round of Wipe.  kept is history: from here on the
\* layer may go.
Delete(p, id) ==
  /\ pc[p] = "writing"
  /\ id \in IdsOf(mem[p])
  /\ Continue(p, "unmount", [op |-> "unmount", id |-> id])
  /\ kept' = kept \ ({id} \X Locations)
  /\ NoFault
  /\ UNCHANGED <<records, contents, mounts, leftover, orphaned>>

\* One round of the loop in deferredDelete, which returns the error of unmount.
UnmountBeforeDelete(p) ==
  LET id == ret[p].id IN
  /\ pc[p] = "unmount"
  /\ CurrentCounts(p)[id] # 0
  /\ unmount(p, id, FALSE, ret[p]) \/ putFails(p, id, FALSE)

\* Fault: the flag is set in memory only.
MarkIncomplete_InMemory(p) ==
  LET id == ret[p].id IN
  /\ pc[p] = "unmount"
  /\ CurrentCounts(p)[id] = 0
  /\ mem' = [mem EXCEPT ![p] = WithFlag(@, id, TRUE)]
  /\ Continue(p, "remove", [op |-> "mark", id |-> id])
  /\ NoFault
  /\ UNCHANGED <<fresh, disk, dirty, contents, mounts, past>>

\* internalDelete: makes sure that the record has the incomplete flag.
MarkIncomplete(p) ==
  LET id == ret[p].id
      layer == Get(mem[p], id)
      mark == [op |-> "mark", id |-> id] IN
  /\ pc[p] = "unmount"
  /\ CurrentCounts(p)[id] = 0
  /\ mem' = [mem EXCEPT ![p] = WithFlag(@, id, TRUE)]
  /\ IF layer.incomplete
     THEN Continue(p, "remove", mark)
     ELSE Save(p, mark, {layer.location})
  /\ NoFault
  /\ UNCHANGED <<fresh, disk, dirty, contents, mounts, past>>

\* load: internalDelete for the next incomplete layer, or saveLayers.
PurgeNext(p) ==
  /\ pc[p] = "purge"
  /\ IF purge[p] = {}
     THEN Goto(p, "save") /\ UNCHANGED <<ret, purge>>
     ELSE \E id \in purge[p] :
            /\ purge' = [purge EXCEPT ![p] = @ \ {id}]
            /\ ret' = [ret EXCEPT ![p] = [op |-> ret[p].op, id |-> id]]
            /\ Goto(p, "remove")
  /\ NoFault
  /\ UNCHANGED <<holds, todo, cleanups, records, contents, mounts, past>>

\* internalDelete: driver.DeferredRemove.
RemoveFromDriver(p) ==
  /\ pc[p] = "remove"
  /\ driver' = [driver EXCEPT ![ret[p].id] = "none"]
  /\ Continue(p, "stage", ret[p])
  /\ NoFault
  /\ UNCHANGED <<records, files, mounts, past>>

\* Fault: the stable file is saved, whichever the layer is in.
StageDeletion_Stable(p) ==
  LET id == ret[p].id IN
  /\ pc[p] = "stage"
  /\ files' = files \ {id}
  /\ mem' = [mem EXCEPT ![p] = SelectSeq(@, LAMBDA l : l.id # id)]
  /\ IF ret[p].op \in Loads
     THEN Continue(p, "purge", [op |-> ret[p].op])
     ELSE Save(p, [op |-> "deleted", id |-> id], {"stable"})
  /\ NoFault
  /\ UNCHANGED <<fresh, disk, dirty, driver, mounts, past>>

\* internalDelete: the tar-split file and the data directory, then memory;
\* deferredDelete saves, load goes on with the next layer.
StageDeletion(p) ==
  LET id == ret[p].id IN
  /\ pc[p] = "stage"
  /\ files' = files \ {id}
  /\ mem' = [mem EXCEPT ![p] = SelectSeq(@, LAMBDA l : l.id # id)]
  /\ IF ret[p].op \in Loads
     THEN Continue(p, "purge", [op |-> ret[p].op])
     ELSE Save(p, [op |-> "deleted", id |-> id], {Get(mem[p], id).location})
  /\ NoFault
  /\ UNCHANGED <<fresh, disk, dirty, driver, mounts, past>>

\* NewTempDir, DeferredRemove or StageDeletion fails: internalDelete returns,
\* and load goes on with the next layer.
DeletionFails(p) ==
  /\ pc[p] \in {"remove", "stage"}
  /\ Fault
  /\ driver' \in {driver} \cup
       (IF pc[p] = "remove" /\ driver[ret[p].id] # "none"
        THEN {[driver EXCEPT ![ret[p].id] = "partial"]} ELSE {})
  /\ IF ret[p].op \in Loads
     THEN /\ Continue(p, "purge", [op |-> ret[p].op])
          /\ dirty' = [dirty EXCEPT ![p] = TRUE]
     ELSE Abort(p)
  /\ UNCHANGED <<mem, fresh, disk, files, mounts, past>>

-----------------------------------------------------------------------------
(* Other operations between startWriting and stopWriting                   *)

\* updateNames: names are taken from the layers that have them, and the
\* location of the renamed layer is saved.
UpdateNames(p, id, names) ==
  /\ pc[p] = "writing"
  /\ id \in IdsOf(mem[p])
  /\ mem' = [mem EXCEPT ![p] =
       [i \in DOMAIN @ |->
         [@[i] EXCEPT !.names = IF mem[p][i].id = id THEN names ELSE @ \ names]]]
  /\ Save(p, [op |-> "op"], {Get(mem[p], id).location})
  /\ NoFault
  /\ UNCHANGED <<fresh, disk, dirty, contents, mounts, past>>

\* SetFlag, ClearFlag and SetMetadata change what is not modelled, and saveFor.
SetField(p, id) ==
  /\ pc[p] = "writing"
  /\ id \in IdsOf(mem[p])
  /\ Save(p, [op |-> "op"], {Get(mem[p], id).location})
  /\ NoFault
  /\ UNCHANGED <<records, contents, mounts, past>>

SetBigData(p, id) ==
  /\ pc[p] = "writing"
  /\ id \in IdsOf(mem[p]) \cap DataIds
  /\ setBigData(p, id, [op |-> "op"])

\* Driver layers and files of ids that memory does not know.
GarbageCollect(p) ==
  LET known == IdsOf(mem[p]) IN
  /\ pc[p] = "writing"
  /\ \E left \in SUBSET (Ids \ known) :
       /\ driver' = [id \in Ids |-> IF id \in known \cup left THEN driver[id] ELSE "none"]
       /\ files' = files \cap (known \cup left)
       /\ orphaned' = orphaned \cap left
       /\ IF left = {} THEN NoFault ELSE Fault
  /\ UNCHANGED <<control, records, mounts, kept, leftover>>

-----------------------------------------------------------------------------
\* The processes S end; their memory and locks are gone.
Die(S) ==
  /\ crashes + errors < MaxFaults /\ crashes' = crashes + 1
  /\ Lock!Die(S)
  /\ pc' = [p \in Procs |-> IF p \in S THEN "down" ELSE pc[p]]
  /\ ret' = [p \in Procs |-> IF p \in S THEN NoReason ELSE ret[p]]
  /\ todo' = [p \in Procs |-> IF p \in S THEN {} ELSE todo[p]]
  /\ purge' = [p \in Procs |-> IF p \in S THEN {} ELSE purge[p]]
  /\ cleanups' = [p \in Procs |-> IF p \in S THEN 0 ELSE cleanups[p]]
  /\ mem' = [p \in Procs |-> IF p \in S THEN <<>> ELSE mem[p]]
  /\ mcount' = [p \in Procs |-> IF p \in S THEN [id \in Ids |-> 0] ELSE mcount[p]]
  /\ mpoint' = [p \in Procs |-> IF p \in S THEN {} ELSE mpoint[p]]
  /\ fresh' = [p \in Procs |-> fresh[p] /\ p \notin S]
  /\ mfresh' = [p \in Procs |-> mfresh[p] /\ p \notin S]
  /\ dirty' = [p \in Procs |-> dirty[p] /\ p \notin S]
  /\ UNCHANGED <<contents, errors>>

Crash(p) == Die({p}) /\ UNCHANGED <<disk, mdisk, mounted, users, forced, past>>

\* A reboot of a transient store: the files in the run directory and all
\* mounts are gone too.
Reboot ==
  /\ Die(Procs)
  /\ disk' = [disk EXCEPT !["volatile"] = <<>>]
  /\ mdisk' = [id \in Ids |-> 0] /\ users' = [id \in Ids |-> 0]
  /\ mounted' = {} /\ forced' = {}
  /\ kept' = {x \in kept : x[2] # "volatile"}
  /\ leftover' = leftover \cap Recorded(disk')
  /\ orphaned' = orphaned \cup IdsOf(disk["volatile"])

Step(p) ==
  \/ NewStore(p) \/ LoadNew(p) \/ LoadFails(p)
  \/ StartReading(p) \/ Reload(p) \/ Upgrade(p) \/ Cleanup(p) \/ Downgrade(p)
  \/ RelockRead(p) \/ StartWriting(p) \/ ReloadWriting(p) \/ Stop(p)
  \/ RecordWrite(p) \/ WriteFile(p) \/ SaveMounts(p)
  \/ SaveLayersFails(p) \/ SaveMountsFails(p)
  \/ \E id \in Ids, names \in SUBSET Names :
       \/ \E volatile, writeable \in BOOLEAN :
            Create(p, id, names, pickStoreLocation(volatile, writeable))
       \/ UpdateNames(p, id, names)
  \/ CreateBigData(p) \/ CreateInDriver(p) \/ FillContents(p) \/ CreateFails(p)
  \/ FinishCreate(p)
  \/ \E id \in Ids :
       \/ Mount(p, id) \/ Delete(p, id) \/ SetField(p, id) \/ SetBigData(p, id)
       \/ \E force \in BOOLEAN : Unmount(p, id, force)
  \/ UnmountBeforeDelete(p) \/ MarkIncomplete(p) \/ PurgeNext(p)
  \/ RemoveFromDriver(p) \/ StageDeletion(p) \/ DeletionFails(p)
  \/ GarbageCollect(p)
  \/ Crash(p)

Next == (\E p \in Procs : Step(p)) \/ Reboot

Spec == Init /\ [][Next]_vars

-----------------------------------------------------------------------------
Complete(layer) ==
  /\ driver[layer.id] = "complete"
  /\ layer.data => layer.id \in files

\* "There should be no duplicated ids between json files" (load): an id may
\* be deleted and created again in another location, and still is in two
\* files only after a deletion of it whose last save failed (create,
\* pickStoreLocation, deferredDelete, saveLayers).
IdInOneFile == Duplicated(disk) \subseteq leftover

\* Every layer that a process sees between startReading or startWriting and
\* the release of the lock has its contents (create, internalDelete, load),
\* save for an id that a failed deletion left in another file.
VisibleIsComplete ==
  \A p \in Procs :
    pc[p] \in {"reading", "writing"} /\ ~dirty[p] =>
      \A i \in DOMAIN mem[p] :
        \/ ~mem[p][i].incomplete /\ Complete(mem[p][i])
        \/ mem[p][i].id \in leftover

\* Contents always have a record by which a later load finds them; a reboot
\* leaves those of volatile layers to GarbageCollect (create, internalDelete).
ContentsAreRecorded ==
  errors = 0 =>
    \A id \in Ids \ orphaned :
      driver[id] # "none" \/ id \in files => id \in IdsOf(OnDisk)

\* A layer that create reported stays in the file of its location, without
\* the incomplete flag and with its contents, until it is deleted (create,
\* saveFor, load, internalDelete).  An id created again while a failed deletion
\* has left it in a file is the exception.
CreatedIsKept ==
  \A <<id, loc>> \in kept :
    /\ id \in IdsOf(disk[loc])
    /\ ~Get(disk[loc], id).incomplete
    /\ Complete(Get(disk[loc], id))

\* Between operations, the count in mountpoints.json is the number of users
\* and the driver has mounted exactly the layers that have one, whatever other
\* processes save meanwhile and whether or not driver.Put succeeds (Mount,
\* unmount, save, loadMounts).  A forced unmount that driver.Put refuses is
\* the exception: the count it leaves in memory is saved by the next save.
MountCountsAreExact ==
  crashes = 0 /\ errors = 0
    /\ (\A p \in Procs : holds[p] = "write" => pc[p] \in {"writing", "wreload"}) =>
      \A id \in Ids \ forced :
        mdisk[id] = users[id] /\ (id \in mounted <=> users[id] > 0)

\* "Ensure that if we are interrupted, the layer will be cleaned up."
\* (layers.go:2130): once no process holds the write lock, a layer whose
\* contents internalDelete has begun to remove has the incomplete flag.
InterruptedDeleteIsCleanedUp ==
  (\A p \in Procs : holds[p] # "write") =>
    \A i \in DOMAIN OnDisk : OnDisk[i].incomplete \/ Complete(OnDisk[i])
=============================================================================
