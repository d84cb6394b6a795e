----------------------------- MODULE ImageStore -----------------------------
(***************************************************************************)
(* storage/images.go: the image records, kept in images.json and cached in *)
(* the memory of every process, and the protocol that keeps the caches     *)
(* fresh.  images.lock (an RWLock, see LockFile) carries a last-writer     *)
(* token; a cache remembers the token it was loaded under.                 *)
(*                                                                         *)
(* Tokens are unique, so a cache's token either is the one in the lock     *)
(* file or never will be again: fresh[p] says which, and seen[t] says it   *)
(* of the token that t read and has not stored yet.  inProcessLock is held *)
(* for reading exactly at "reading", and for writing between the two steps *)
(* of a reload and while images.lock is held for writing.                  *)
(***************************************************************************)
EXTENDS Integers, Sequences, FiniteSets

CONSTANTS
  Threads, Procs, ProcOf,   \* goroutines, processes, the process of each
  RO,                       \* processes that open the store read-only
  Ids, Names,
  MaxCrashes, MaxErrors, MaxForeign   \* bounds on faults of each kind

VARIABLES
  holds,      \* images.lock (module RWLock)
  pc, ret,    \* each thread's step, and what the Save it is in was called for
  up, mem, fresh,  \* per process: store constructed, its images, token current
  seen,       \* per thread: the token its reload has read is current
  disk,       \* images.json
  datadirs,   \* ids that have a big data directory
  dirty,      \* history: mem[p] differs from disk because a Save of p failed
  torn,       \* history: p took its token for current during a foreign save
  saving,     \* a foreign writer has recorded its write, not made it
  crashes, errors, foreign

tokens == <<seen, torn, saving>>
vars == <<holds, pc, ret, up, mem, fresh, disk, datadirs, dirty, tokens, crashes,
          errors, foreign>>

Lock == INSTANCE RWLock

\* The fields of an Image that the store acts on; data: it has big data items.
Image == [id : Ids, names : SUBSET Names, data : BOOLEAN]

Images == {s \in UNION {[1..n -> Image] : n \in 0..Cardinality(Ids)} :
             \A i, j \in DOMAIN s : s[i].id = s[j].id => i = j}

Reasons == [op : {"none", "downgrade", "reload", "new", "op"}]
             \cup [op : {"create", "createData", "delete"}, id : Ids]

\* Where a thread reads the token, and where it goes on to read images.json.
FileStep == [reload |-> "reloadFile", last |-> "lastFile",
             cleanup |-> "cleanupFile", wreload |-> "wreloadFile"]
TokenSteps == DOMAIN FileStep
FileSteps == {FileStep[from] : from \in TokenSteps} \cup {"loadFile"}

Steps == {"idle", "check", "upgrade", "downgrade", "relock", "enter", "reading",
          "writing", "save", "write", "bigdata", "rmdir"} \cup TokenSteps \cup FileSteps

TypeOK ==
  /\ Lock!TypeOK
  /\ pc \in [Threads -> Steps]
  /\ ret \in [Threads -> Reasons]
  /\ up \in [Procs -> BOOLEAN] /\ fresh \in [Procs -> BOOLEAN]
  /\ dirty \in [Procs -> BOOLEAN] /\ torn \in [Procs -> BOOLEAN]
  /\ seen \in [Threads -> BOOLEAN] /\ saving \in BOOLEAN
  /\ mem \in [Procs -> Images]
  /\ disk \in Images
  /\ datadirs \subseteq Ids

NoReason == [op |-> "none"]

Init ==
  /\ Lock!Init
  /\ pc = [t \in Threads |-> "idle"]
  /\ ret = [t \in Threads |-> NoReason]
  /\ up = [p \in Procs |-> FALSE]
  /\ mem = [p \in Procs |-> <<>>]
  /\ fresh = [p \in Procs |-> FALSE]
  /\ disk = <<>>
  /\ datadirs = {}
  /\ dirty = [p \in Procs |-> FALSE] /\ torn = [p \in Procs |-> FALSE]
  /\ seen = [t \in Threads |-> FALSE] /\ saving = FALSE
  /\ crashes = 0 /\ errors = 0 /\ foreign = 0

-----------------------------------------------------------------------------
IdsOf(images) == {images[i].id : i \in DOMAIN images}
NamesOf(images) == UNION {images[i].names : i \in DOMAIN images}

\* load, removeName: of several images with a name, the last one keeps it.
Deduplicated(images) ==
  [i \in DOMAIN images |->
    [images[i] EXCEPT !.names =
      {n \in @ : \A j \in DOMAIN images : j > i => n \notin images[j].names}]]

Consistent(images) == Deduplicated(images) = images

Goto(t, step) == pc' = [pc EXCEPT ![t] = step]

\* Some other goroutine of t's process is at one of steps.
OthersAt(t, steps) ==
  \E u \in Threads \ {t} : ProcOf[u] = ProcOf[t] /\ pc[u] \in steps

\* Fault: reloads do not take inProcessLock.
InProcessBusy_Never(t) == FALSE

\* Another goroutine of t's process holds inProcessLock ...
InProcessBusy(t) == OthersAt(t, {"reading"} \cup FileSteps)

\* ... or holds it for writing.
InProcessWritten(t) == OthersAt(t, FileSteps)

\* load succeeds, and t stores the token that it read before the file.
Loaded(t, images) ==
  LET p == ProcOf[t] IN
  /\ mem' = [mem EXCEPT ![p] = images]
  /\ fresh' = [fresh EXCEPT ![p] = seen[t]]
  /\ torn' = [torn EXCEPT ![p] = seen[t] /\ saving]
  /\ dirty' = [dirty EXCEPT ![p] = FALSE]

\* t is done with the token it read.
Forget(t) == seen' = [seen EXCEPT ![t] = FALSE]

NoFault == UNCHANGED <<crashes, errors, foreign>>
Fault == errors < MaxErrors /\ errors' = errors + 1 /\ UNCHANGED <<crashes, foreign>>

-----------------------------------------------------------------------------
(* newImageStore, newROImageStore: take the lock, read the token, load.    *)
NewStore(t) ==
  LET p == ProcOf[t] IN
  /\ pc[t] = "idle" /\ ~up[p]
  /\ \A u \in Threads : ProcOf[u] = p => pc[u] = "idle"
  /\ Lock!Acquire(t, IF p \in RO THEN "read" ELSE "write")
  /\ seen' = [seen EXCEPT ![t] = TRUE]
  /\ Goto(t, "loadFile")
  /\ NoFault
  /\ UNCHANGED <<ret, up, mem, fresh, disk, datadirs, dirty, torn, saving>>

\* load(true), or load(false) in a read-only store, for the first time.
LoadNew(t) ==
  LET p == ProcOf[t] IN
  /\ pc[t] = "loadFile"
  /\ Forget(t)
  /\ IF p \in RO /\ ~Consistent(disk)
     THEN /\ Lock!Release(t) /\ Goto(t, "idle")
          /\ UNCHANGED <<ret, up, mem, fresh, dirty, torn>>
     ELSE /\ Loaded(t, Deduplicated(disk))
          /\ IF Consistent(disk)
             THEN /\ Lock!Release(t) /\ Goto(t, "idle")
                  /\ up' = [up EXCEPT ![p] = TRUE]
                  /\ UNCHANGED ret
             ELSE /\ Goto(t, "save")
                  /\ ret' = [ret EXCEPT ![t] = [op |-> "new"]]
                  /\ UNCHANGED <<holds, up>>
  /\ NoFault
  /\ UNCHANGED <<disk, datadirs, saving>>

(* startReading: lock for reading; if the token differs, reload; if that   *)
(* needs a save, upgrade to a write lock, reload and save, come back.      *)
StartReading(t) ==
  /\ pc[t] = "idle" /\ up[ProcOf[t]]
  /\ Lock!Acquire(t, "read")
  /\ Goto(t, "check")
  /\ NoFault
  /\ UNCHANGED <<ret, up, mem, fresh, disk, datadirs, dirty, tokens>>

\* modified, under inProcessLock.RLock, which is kept if it says no.
CheckModified(t) ==
  /\ pc[t] = "check"
  /\ ~InProcessWritten(t)
  /\ Goto(t, IF fresh[ProcOf[t]] THEN "reading" ELSE "reload")
  /\ NoFault
  /\ UNCHANGED <<holds, ret, up, mem, fresh, disk, datadirs, dirty, tokens>>

\* Fault: the token is remembered before the data is loaded.
ReadToken_Stored(t, from, same) ==
  LET p == ProcOf[t] IN
  /\ pc[t] = from
  /\ ~InProcessBusy(t)
  /\ IF fresh[p]
     THEN Goto(t, same) /\ UNCHANGED <<seen, fresh>>
     ELSE /\ Goto(t, FileStep[from])
          /\ seen' = [seen EXCEPT ![t] = TRUE]
          /\ fresh' = [fresh EXCEPT ![p] = TRUE]
  /\ NoFault
  /\ UNCHANGED <<holds, ret, up, mem, disk, datadirs, dirty, torn, saving>>

\* reloadIfChanged begins: inProcessLock.Lock and modified, which reads the
\* token; if it is the one in memory there is nothing to load.
ReadToken(t, from, same) ==
  LET p == ProcOf[t] IN
  /\ pc[t] = from
  /\ ~InProcessBusy(t)
  /\ IF fresh[p]
     THEN Goto(t, same) /\ UNCHANGED seen
     ELSE Goto(t, FileStep[from]) /\ seen' = [seen EXCEPT ![t] = TRUE]
  /\ NoFault
  /\ UNCHANGED <<holds, ret, up, mem, fresh, disk, datadirs, dirty, torn, saving>>

Modified(t) ==
  \/ \E from \in {"reload", "last"} : ReadToken(t, from, "enter")
  \/ ReadToken(t, "cleanup", "downgrade")
  \/ ReadToken(t, "wreload", "writing")

\* The load of reloadIfChanged(false); on inconsistent data the lock is
\* released and the thread goes on to step giveUp.
LoadForReading(t, from, giveUp) ==
  /\ pc[t] = FileStep[from]
  /\ Forget(t)
  /\ IF Consistent(disk)
     THEN UNCHANGED holds /\ Loaded(t, disk) /\ Goto(t, "enter")
     ELSE /\ Lock!Release(t) /\ Goto(t, giveUp)
          /\ UNCHANGED <<mem, fresh, dirty, torn>>
  /\ NoFault
  /\ UNCHANGED <<ret, up, disk, datadirs, saving>>

Reload(t) ==
  LoadForReading(t, "reload", IF ProcOf[t] \in RO THEN "idle" ELSE "upgrade")

\* "(even after successfully cleaning up once:)"
ReloadAgain(t) == LoadForReading(t, "last", "idle")

\* lockfile.Lock after the read lock was released; and back.
Relock(t, from, mode, to) ==
  /\ pc[t] = from
  /\ Lock!Acquire(t, mode)
  /\ Goto(t, to)
  /\ NoFault
  /\ UNCHANGED <<ret, up, mem, fresh, disk, datadirs, dirty, tokens>>

Upgrade(t) == Relock(t, "upgrade", "write", "cleanup")
RelockRead(t) == Relock(t, "relock", "read", "last")

\* The load of reloadIfChanged(true), for the caller reason: Deduplicated
\* data is assigned and saved.
LoadForWriting(t, from, reason, to) ==
  LET p == ProcOf[t] IN
  /\ pc[t] = FileStep[from]
  /\ Forget(t)
  /\ IF Consistent(disk)
     THEN Loaded(t, disk) /\ Goto(t, to) /\ UNCHANGED ret
     ELSE /\ mem' = [mem EXCEPT ![p] = Deduplicated(disk)]
          /\ ret' = [ret EXCEPT ![t] = [op |-> reason]]
          /\ Goto(t, "save")
          /\ UNCHANGED <<fresh, dirty, torn>>
  /\ NoFault
  /\ UNCHANGED <<holds, up, disk, datadirs, saving>>

Cleanup(t) == LoadForWriting(t, "cleanup", "downgrade", "downgrade")

Downgrade(t) ==
  /\ pc[t] = "downgrade"
  /\ Lock!Release(t)
  /\ Goto(t, "relock")
  /\ NoFault
  /\ UNCHANGED <<ret, up, mem, fresh, disk, datadirs, dirty, tokens>>

\* inProcessLock.RLock at the end of startReading.
Enter(t) ==
  /\ pc[t] = "enter"
  /\ ~InProcessWritten(t)
  /\ Goto(t, "reading")
  /\ NoFault
  /\ UNCHANGED <<holds, ret, up, mem, fresh, disk, datadirs, dirty, tokens>>

(* startWriting: lock for writing, reload if the token differs.            *)
StartWriting(t) ==
  /\ ProcOf[t] \notin RO /\ up[ProcOf[t]]
  /\ Relock(t, "idle", "write", "wreload")

ReloadWriting(t) == LoadForWriting(t, "wreload", "reload", "writing")

\* modified or load fails (the lock file or images.json cannot be read).
LoadFails(t) ==
  /\ pc[t] \in {"check"} \cup TokenSteps \cup FileSteps
  /\ Fault
  /\ Forget(t)
  /\ Lock!Release(t)
  /\ Goto(t, "idle")
  /\ UNCHANGED <<ret, up, mem, fresh, disk, datadirs, dirty, torn, saving>>

\* stopReading, stopWriting
Stop(t) ==
  /\ pc[t] \in {"reading", "writing"}
  /\ Lock!Release(t)
  /\ Goto(t, "idle")
  /\ NoFault
  /\ UNCHANGED <<ret, up, mem, fresh, disk, datadirs, dirty, tokens>>

-----------------------------------------------------------------------------
\* Fault: Save does not record the write.
RecordWrite_Forgotten(t) ==
  /\ pc[t] = "save"
  /\ Goto(t, "write")
  /\ NoFault
  /\ UNCHANGED <<holds, ret, up, mem, fresh, disk, datadirs, dirty, tokens>>

\* A new token is in the lock file; the processes in own know it.
NewToken(own) ==
  /\ fresh' = [p \in Procs |-> p \in own]
  /\ torn' = [p \in Procs |-> p \in own /\ saving]
  /\ seen' = [t \in Threads |-> FALSE]

(* Save: RecordWrite stores a new token in the lock file, then the file is *)
(* replaced atomically.                                                    *)
RecordWrite(t) ==
  /\ pc[t] = "save"
  /\ NewToken({ProcOf[t]})
  /\ Goto(t, "write")
  /\ NoFault
  /\ UNCHANGED <<holds, ret, up, mem, disk, datadirs, dirty, saving>>

\* AtomicWriteFile succeeds and Save returns to its caller.  reloadIfChanged
\* then remembers the token it read before, not the one of the Save in load.
WriteFile(t) ==
  LET p == ProcOf[t]  op == ret[t].op IN
  /\ pc[t] = "write"
  /\ disk' = mem[p]
  /\ dirty' = [dirty EXCEPT ![p] = FALSE]
  /\ fresh' = [fresh EXCEPT ![p] = @ /\ op \notin {"downgrade", "reload"}]
  /\ IF op = "new"
     THEN Lock!Release(t) /\ up' = [up EXCEPT ![p] = TRUE]
     ELSE UNCHANGED <<holds, up>>
  /\ Goto(t, CASE op = "new" -> "idle"
               [] op = "downgrade" -> "downgrade"
               [] op = "createData" -> "bigdata"
               [] op = "delete" -> "rmdir"
               [] OTHER -> "writing")
  /\ ret' = [ret EXCEPT ![t] = IF op \in {"createData", "delete"} THEN @ ELSE NoReason]
  /\ NoFault
  /\ UNCHANGED <<mem, datadirs, tokens>>

\* The record of id is taken out of memory, and the list saved (Delete).
DeleteFromMemory(t, id) ==
  LET p == ProcOf[t] IN
  /\ mem' = [mem EXCEPT ![p] = SelectSeq(@, LAMBDA image : image.id # id)]
  /\ ret' = [ret EXCEPT ![t] = [op |-> "delete", id |-> id]]
  /\ Goto(t, "save")

\* Save fails: at MkdirAll or Marshal, at RecordWrite (which may or may not
\* have changed the lock file) or at AtomicWriteFile.  create then deletes
\* the record it added; construction and startReading or startWriting give
\* up; any other operation returns the error, and memory keeps its change.
SaveFails(t) ==
  LET p == ProcOf[t]  op == ret[t].op IN
  /\ pc[t] \in {"save", "write"}
  /\ Fault
  /\ \/ UNCHANGED <<fresh, torn, seen>>
     \/ pc[t] = "save" /\ NewToken({})
  /\ IF op \in {"create", "createData"}
     THEN DeleteFromMemory(t, ret[t].id) /\ UNCHANGED holds
     ELSE /\ ret' = [ret EXCEPT ![t] = NoReason]
          /\ UNCHANGED mem
          /\ IF op \in {"new", "downgrade", "reload"}
             THEN Lock!Release(t) /\ Goto(t, "idle")
             ELSE UNCHANGED holds /\ Goto(t, "writing")
  /\ dirty' = [dirty EXCEPT ![p] = up[p] /\ mem'[p] # disk]
  /\ UNCHANGED <<up, disk, datadirs, saving>>

-----------------------------------------------------------------------------
(* Operations of a thread that is between startWriting and stopWriting.    *)

\* Memory becomes images, then Save for the given reason.
ChangeAndSave(t, images, reason) ==
  /\ pc[t] = "writing"
  /\ mem' = [mem EXCEPT ![ProcOf[t]] = images]
  /\ ret' = [ret EXCEPT ![t] = reason]
  /\ Goto(t, "save")
  /\ NoFault
  /\ UNCHANGED <<holds, up, fresh, disk, dirty, tokens>>

\* Fault: an id that is in use is accepted.
Create_AnyId(t, id, names, reason) ==
  LET images == mem[ProcOf[t]] IN
  /\ names \cap NamesOf(images) = {}
  /\ ChangeAndSave(t, Append(images, [id |-> id, names |-> names, data |-> FALSE]),
                   [op |-> reason, id |-> id])
  /\ UNCHANGED datadirs

\* create, without or with big data items in the options.
Create(t, id, names, reason) ==
  LET images == mem[ProcOf[t]] IN
  /\ id \notin IdsOf(images)
  /\ names \cap NamesOf(images) = {}
  /\ ChangeAndSave(t, Append(images, [id |-> id, names |-> names, data |-> FALSE]),
                   [op |-> reason, id |-> id])
  /\ UNCHANGED datadirs

\* Fault: the previous owner keeps the name.
UpdateNames_Shared(t, id, names) ==
  LET images == mem[ProcOf[t]] IN
  /\ id \in IdsOf(images)
  /\ ChangeAndSave(t,
       [i \in DOMAIN images |->
         [images[i] EXCEPT !.names = IF images[i].id = id THEN names ELSE @]],
       [op |-> "op"])
  /\ UNCHANGED datadirs

\* updateNames: names are the result of the set, add or remove operation;
\* another image that has one of them loses it.
UpdateNames(t, id, names) ==
  LET images == mem[ProcOf[t]] IN
  /\ id \in IdsOf(images)
  /\ ChangeAndSave(t,
       [i \in DOMAIN images |->
         [images[i] EXCEPT !.names = IF images[i].id = id THEN names ELSE @ \ names]],
       [op |-> "op"])
  /\ UNCHANGED datadirs

\* SetFlag, ClearFlag, SetMetadata and the MappedTopLayers of an image change
\* what is not modelled, and Save.
SetField(t, id) ==
  LET images == mem[ProcOf[t]] IN
  /\ id \in IdsOf(images)
  /\ ChangeAndSave(t, images, [op |-> "op"])
  /\ UNCHANGED datadirs

\* setBigData: the item's file is written before the record names it.
WithData(images, id) ==
  [i \in DOMAIN images |->
    [images[i] EXCEPT !.data = @ \/ images[i].id = id]]

\* Writing again what an item already has changes no record and saves nothing.
SetBigData(t, id) ==
  LET images == mem[ProcOf[t]] IN
  /\ id \in IdsOf(images)
  /\ datadirs' = datadirs \cup {id}
  /\ \/ ChangeAndSave(t, WithData(images, id), [op |-> "op"])
     \/ /\ pc[t] = "writing" /\ WithData(images, id) = images
        /\ NoFault
        /\ UNCHANGED <<holds, pc, ret, up, mem, fresh, disk, dirty, tokens>>

\* create goes on with setBigData, whose file write may fail.
CreateBigData(t) ==
  LET p == ProcOf[t]  id == ret[t].id IN
  /\ pc[t] = "bigdata"
  /\ \/ /\ datadirs' = datadirs \cup {id}
        /\ mem' = [mem EXCEPT ![p] = WithData(@, id)]
        /\ ret' = [ret EXCEPT ![t] = [op |-> "create", id |-> id]]
        /\ Goto(t, "save")
        /\ NoFault
     \/ Fault /\ DeleteFromMemory(t, id) /\ UNCHANGED datadirs
  /\ UNCHANGED <<holds, up, fresh, disk, dirty, tokens>>

\* Fault: the data is removed before the record.
Delete_DataFirst(t, id) ==
  /\ pc[t] = "writing"
  /\ id \in IdsOf(mem[ProcOf[t]])
  /\ DeleteFromMemory(t, id)
  /\ datadirs' = datadirs \ {id}
  /\ NoFault
  /\ UNCHANGED <<holds, up, fresh, disk, dirty, tokens>>

\* Delete (and each round of Wipe): the record first, the data afterwards.
Delete(t, id) ==
  /\ pc[t] = "writing"
  /\ id \in IdsOf(mem[ProcOf[t]])
  /\ DeleteFromMemory(t, id)
  /\ NoFault
  /\ UNCHANGED <<holds, up, fresh, disk, datadirs, dirty, tokens>>

RemoveDatadir(t) ==
  /\ pc[t] = "rmdir"
  /\ \/ datadirs' = datadirs \ {ret[t].id} /\ NoFault
     \/ UNCHANGED datadirs /\ Fault
  /\ ret' = [ret EXCEPT ![t] = NoReason]
  /\ Goto(t, "writing")
  /\ UNCHANGED <<holds, up, mem, fresh, disk, dirty, tokens>>

\* GarbageCollect removes the data of ids that memory does not know; if a
\* removal fails it goes on with the others.
GarbageCollect(t) ==
  /\ pc[t] = "writing"
  /\ LET known == datadirs \cap IdsOf(mem[ProcOf[t]]) IN
     \/ datadirs' = known /\ NoFault
     \/ Fault /\ \E left \in SUBSET (datadirs \ known) : datadirs' = known \cup left
  /\ UNCHANGED <<holds, pc, ret, up, mem, fresh, disk, dirty, tokens>>

-----------------------------------------------------------------------------
\* A process ends at any point; its memory and its locks are gone.
Crash(p) ==
  /\ crashes < MaxCrashes /\ crashes' = crashes + 1
  /\ Lock!Die({t \in Threads : ProcOf[t] = p})
  /\ pc' = [t \in Threads |-> IF ProcOf[t] = p THEN "idle" ELSE pc[t]]
  /\ ret' = [t \in Threads |-> IF ProcOf[t] = p THEN NoReason ELSE ret[t]]
  /\ up' = [up EXCEPT ![p] = FALSE]
  /\ mem' = [mem EXCEPT ![p] = <<>>]
  /\ fresh' = [fresh EXCEPT ![p] = FALSE]
  /\ dirty' = [dirty EXCEPT ![p] = FALSE]
  /\ torn' = [torn EXCEPT ![p] = FALSE]
  /\ seen' = [t \in Threads |-> seen[t] /\ ProcOf[t] # p]
  /\ UNCHANGED <<disk, datadirs, saving, errors, foreign>>

\* A writer that does not cooperate: it does not wait for the lock.  It saves
\* in the order of Save, the token first, and may leave duplicate names.
ForeignRecordWrite ==
  /\ foreign < MaxForeign /\ foreign' = foreign + 1
  /\ ~saving /\ saving' = TRUE
  /\ NewToken({})
  /\ UNCHANGED <<holds, pc, ret, up, mem, disk, datadirs, dirty, crashes, errors>>

ForeignWriteFile ==
  /\ saving /\ saving' = FALSE
  /\ \E n \in Names :
       disk' = [i \in DOMAIN disk |-> [disk[i] EXCEPT !.names = {n}]]
  /\ NoFault
  /\ UNCHANGED <<holds, pc, ret, up, mem, fresh, datadirs, dirty, seen, torn>>

Step(t) ==
  \/ NewStore(t) \/ LoadNew(t)
  \/ StartReading(t) \/ CheckModified(t) \/ Modified(t) \/ Reload(t)
  \/ Upgrade(t) \/ Cleanup(t)
  \/ Downgrade(t) \/ RelockRead(t) \/ ReloadAgain(t) \/ Enter(t)
  \/ StartWriting(t) \/ ReloadWriting(t) \/ LoadFails(t) \/ Stop(t)
  \/ RecordWrite(t) \/ WriteFile(t) \/ SaveFails(t)
  \/ \E id \in Ids, names \in SUBSET Names :
       \/ \E reason \in {"create", "createData"} : Create(t, id, names, reason)
       \/ UpdateNames(t, id, names)
  \/ \E id \in Ids : SetField(t, id) \/ SetBigData(t, id) \/ Delete(t, id)
  \/ CreateBigData(t) \/ RemoveDatadir(t) \/ GarbageCollect(t)

Next ==
  \/ \E t \in Threads : Step(t)
  \/ \E p \in Procs : Crash(p)
  \/ ForeignRecordWrite \/ ForeignWriteFile

Spec == Init /\ [][Next]_vars

-----------------------------------------------------------------------------
\* A goroutine that startReading or startWriting let in, and that is not in
\* the middle of a change, sees what is on disk, unless a Save of its own
\* process failed since it last loaded (startReading, startWriting,
\* reloadIfChanged, Save).  In particular no crash leaves another process with
\* an old cache it believes to be current.  Of "non-cooperating writers"
\* startReading says "we just ensure that ... the in-memory data is not
\* clearly out-of-date": a cache they have made old is noticed by the next
\* startReading or startWriting, except for one whose load or Save fell
\* between the two steps of their save.
FreshUnlessSaveFailed ==
  \A t \in Threads :
    LET p == ProcOf[t] IN
    pc[t] \in {"reading", "writing"} =>
      mem[p] = disk \/ dirty[p] \/ (foreign > 0 /\ (~fresh[p] \/ torn[p]))

\* Whatever other implementations wrote, names are unique in what a reader or
\* writer sees (load; create and updateNames keep it so).
NamesUnique ==
  \A t \in Threads :
    pc[t] \in {"reading", "writing"} => Consistent(mem[ProcOf[t]])

\* The images do not change under a goroutine that is reading them, also if
\* images.json is changed by somebody who does not take the lock
\* (inProcessLock around every reload).
ReaderUndisturbed ==
  [][\A t \in Threads :
       pc[t] = "reading" /\ pc'[t] = "reading" => mem'[ProcOf[t]] = mem[ProcOf[t]]]_vars

\* An image on disk that names big data items has them, unless a Save failed
\* earlier (setBigData writes the item first, Delete removes it last,
\* GarbageCollect only removes what no image uses).
DataComplete ==
  errors = 0 => \A i \in DOMAIN disk : disk[i].data => disk[i].id \in datadirs
=============================================================================
