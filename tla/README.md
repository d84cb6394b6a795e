# A formal model of containers-storage

This directory holds TLA+ modules that model the part of container-libs that
several processes and goroutines share: the lock files of `storage/pkg/lockfile`,
the image, container and layer stores that keep their records under such locks,
and the staging locks and temporary directories in which layers are created and
deleted. TLC checks them on small instances. TLAPS proves the properties of the
lock for any number of processes and goroutines. `PROJECT.json` maps every
definition to the lines of Go it stands for and lists the runs, the theorems,
the findings and the hazards.

Run a model with `tlc -config MCLockFile.cfg MCLockFile`, and the proofs with
`tlapm LockFileProofs.tla`.

## 1. The system

container-libs is three libraries.

| Part | What it is | Shared state |
|---|---|---|
| `storage/store.go` | the store: images, layers, containers and the graph driver behind one interface | four locks taken in a fixed order; references between the three kinds of records |
| `storage/images.go` | image records in `images.json`, big data items in directories | `images.lock`, a cache per process, `inProcessLock` between goroutines |
| `storage/containers.go` | container records in `containers.json` and `volatile-containers.json` | `containers.lock`, a cache per process |
| `storage/layers.go` | layer records in two or three files, mount counts in `mountpoints.json`, contents in the graph driver | `layers.lock`, `mountpoints.lock`, a cache per process, the driver |
| `storage/pkg/lockfile`, `internal/rawfilelock` | readers/writer locks between goroutines and processes, with a last-writer token | the lock file, the kernel's record locks |
| `storage/internal/staging_lockfile`, `internal/tempdir` | locks on files that come and go; directories for staged additions and deletions, and their recovery | the lock files' inodes, a map per process |
| `storage/drivers/*` | overlay, vfs, btrfs, zfs; a reference counter for mounts | the directory tree, the mount table |
| `storage/pkg/*` | archives, named locks, truncated ids, chunked pulls, system calls | mostly none; `locker`, `truncindex` and the chunked cache have some |
| `storage/userns.go`, `idset.go`, `check.go` | id ranges for user namespaces; check and repair of a store | none of their own |
| `image/copy`, `image/storage` | copying images; the transport that writes into a store | a semaphore; queues of layers that arrive in any order |
| `image/docker`, `oci`, `directory`, ..., `manifest`, `signature`, `pkg/*` | other transports, formats, signatures, configuration | files and networks; small caches under a mutex |
| `common/libimage`, `libnetwork`, `pkg/*` | image operations, networks and address allocation, secrets, artifacts, many helpers | lock files around small databases |

How the modelled parts interact: a process opens a store and gets one `LockFile`
per path. Every operation of a store locks it (`startReading`, `startWriting`),
compares the token in the lock file with the one its cache was loaded under,
reloads if they differ, works on the cache, and saves: it first writes a new
token (`RecordWrite`), then replaces the JSON file atomically. The layer store in
addition changes the driver's directories and mounts. Those changes cannot be
made together with the record, so a layer carries an incomplete flag meanwhile.
It deletes files by moving them into a `TempDir`, which has a staging lock, and
recovers the directories of dead processes whenever it loads.

## 2. The modules

    RWLock            abstract readers/writer lock  <--implements--  LockFile
      |  used by                                      RWLockProofs, LockFileProofs
      +-- ImageStore
      +-- ContainerStore
      +-- LayerStore
    StagingLockFile   state and steps of a staging lock
      +-- TempDir     (extends it)

Each `MC*` module gives a specification's constants values for TLC.
Definitions named `X_Y` and commented "Fault:" are wrong variants of `X`. No
specification uses them; each shows that some property notices such a mistake.

### RWLock and LockFile

`RWLock` is what users of a `*LockFile` rely on: `holds[t]` is the mode in which
thread `t` has the lock, and `Acquire`, `Release` and `Die` are its steps.

`LockFile` is `pkg/lockfile` itself. A thread is a goroutine, `ProcOf` its process.

| TLA+ | Go |
|---|---|
| `readers`, `writer` | `LockFile.rwMutex`; a writer announces itself and then waits for readers, as `sync.RWMutex` does |
| `stateMutex`, `counter`, `lockType`, `locked` | the fields of that name |
| `fcntl[p]` | the kernel's record lock of process `p`; it is lost when `p` closes any descriptor of the file |
| `lockFiles[p]` | the path is in the package's map |
| `GetLockFile` | `getLockfile`, with the open and close that check that the path can be opened |
| `CallLock`, `RwRLock`, `RwAnnounce`, `RwDrained`, `StateLock`, `Fcntl` | `Lock`, `RLock`, `lock`, one step per mutex and for F_SETLKW |
| `TryLock`, `TryStateBusy`, `TryState`, `TryFcntl`, `TryFails` | `tryLock` and its error paths |
| `Unlock`, `UnlockRw` | `Unlock`; the panics are the step "panic" |
| `Crash` | the process ends; the kernel drops its locks |

The token operations are modelled in the stores.

### ImageStore

State: `images.lock` as an `RWLock`; per process the cache `mem` and whether its
token is the one in the lock file (`fresh`; tokens never repeat, so nothing else
can be observed of them); per goroutine whether the token that its reload has read
is still that one (`seen`); `disk` is `images.json`, `datadirs` the big data
directories. `inProcessLock` is held for reading exactly at step "reading", and for
writing between the two steps of a reload. The history variable `dirty` says that
memory differs from disk because a `Save` of this process failed, `torn` that a
process took its token for current while a foreign writer was between recording and
making a write.

`reloadIfChanged` is two steps: `ReadToken` (`modified`), then a load that reads
`images.json` and stores the token read before. `startReading` is the chain
`StartReading`, `CheckModified`, `Modified`, `Reload`, `Upgrade`, `Modified`, `Cleanup`,
`Downgrade`, `RelockRead`, `Modified`, `ReloadAgain`, `Enter`; `startWriting` is
`StartWriting`, `Modified`, `ReloadWriting`; `Save` is `RecordWrite` followed by
`WriteFile`, and `SaveFails` at either. The operations (`Create`, `CreateBigData`,
`UpdateNames`, `SetField`, `SetBigData`, `Delete`, `RemoveDatadir`,
`GarbageCollect`) start with the write lock held and go through `Save`; an image
is its id, its names and whether it has big data. `ForeignRecordWrite` and
`ForeignWriteFile` are another implementation that saves without the lock, and may
leave duplicate names: what the comments in `startReading` call a non-cooperating
writer. It may take either step at any time, also between the two steps of a reload
or of a `Save`.

### ContainerStore

The same protocol with one goroutine per process and two files. A save writes the
files of the locations it was asked for one after the other (`todo`, `WriteFile`),
and the process may end in between. `GetLastWriteFails` is the early return of
`newContainerStore` that keeps the lock. `Reboot` ends every process and, in a
transient store, removes the volatile file. Every `create` chooses the location, so
an id that was deleted may come back in the other file. `kept` is a history variable:
the ids, with their locations, that `create` reported and that were not deleted
since. `leftover` is another: the ids that memory had given up when a save failed, and
that are still in a file.

### LayerStore

The protocol again, and around it what makes layers hard: `driver[id]` is what the
graph driver has for a layer ("none", "partial", "complete"), `files` the ids with
big data or a tar-split file, `mcount` and `mdisk` the mount counts in memory and in
`mountpoints.json`, `mpoint` the layers with a mount point in memory, `mounted` what the
driver has mounted. There are three locations, and `pickStoreLocation` chooses one for
every `create` from whether the layer is volatile and whether it is writeable.

* `create`: `Create` saves a record with the incomplete flag, then `CreateBigData`,
  `CreateInDriver`, `FillContents`, and `FinishCreate`, which clears the flag and
  saves; `CreateFails` is the deferred deletion on every error path.
* `deferredDelete`: `Delete`, `UnmountBeforeDelete`, `MarkIncomplete` (saves the
  flag), `RemoveFromDriver`, `StageDeletion`, and the last save; `DeletionFails` is an
  error of the driver or of the staging.
* `load`: `LoadNew`, `Reload`, `Cleanup`, `ReloadWriting`; with the write lock held
  it deletes the incomplete layers one by one (`PurgeNext`) and saves. Without it,
  `startReading` goes for the write lock (`Upgrade`, `Cleanup`, `Downgrade`,
  `RelockRead`), at most `MaxCleanups` times.
* `Mount`, `Unmount` with and without force; `SaveMounts`. `putFails` is an `unmount`
  whose `driver.Put` fails: it saves nothing, ends a deletion, and leaves the count 1 in
  memory if it was forced. It may happen at any time and is not counted as a fault.

The history variables `leftover` and `kept` are those of the container store; `orphaned`
are the volatile layers whose records a reboot took and whose contents are still there,
`forced` the layers that `driver.Put` refused to give up in a forced unmount.

`mountpoints.lock` is not a variable: every modelled operation that takes it for writing
holds `layers.lock` for writing. `store.Diff` with btrfs or zfs does not (layers.go calls
it a "LOCKING BUG" at 1797 and 1854) and is left out. Staged deletions are removals here; what the staging
directory promises is the subject of `TempDir`.

### StagingLockFile and TempDir

`path[i]` is the inode that `lock-<i>` names, `fd[t]` the inode that goroutine `t` has
open, `owner[n]` the process that has the kernel's lock on inode `n`. The file system
is modelled this closely because the locks are on inodes and the code finds them by
path. `CreateAndLock` is `CreateTemp`, `CloseTemp`, `TryAcquireOpen`,
`TryAcquireLock`; `UnlockAndDelete` is `UnlockRemove`, `UnlockClose`; `Lose` is the
error path of `NewTempDir` that forgets the lock. `TempDir` runs these as
`NewTempDir`, `CreateClose`, `CreateAcquire`, `MakeDir`, then any number of
`StageDeletion`, `StageAddition`, `Commit`, then `Cleanup`, `CleanupUnlock`; or, in
`RecoverStaleDirs`, `ListPotentialStaleDirs` and, for every name found, `PickStale`,
`TryLockPath`, `RemoveStale`, `DeleteStaleLock`.

## 3. What TLC checks

| Run | Instance | Properties | What it shows |
|---|---|---|---|
| `lockfile` | 3 goroutines in 2 processes, a crash | `TypeOK`, `MutualExclusion`, `HolderOwnsKernelLock`, `NeverPanics`, `NoSelfDeadlock`, `NoLeakedKernelLock`, `ImplementsRWLock`, `Progress` | every interleaving of two mutexes and a per-process kernel lock is the abstract lock; whoever waits does not wait in a cycle |
| `images_crash` | 2 processes, 2 images, a name, a crash and an I/O error | `TypeOK`, `FreshUnlessSaveFailed`, `DataComplete` | no crash leaves another process with an old cache it believes to be current; records have their data |
| `images_goroutines` | 2 goroutines and a read-only process, two saves of a foreign writer without the lock | `FreshUnlessSaveFailed`, `NamesUnique`, `ReaderUndisturbed` | a cache that is out of date has an old token; the shared cache is not changed under a reader, and has no duplicate names |
| `containers` | 2 processes, 2 containers in either location, 2 crashes, reboots or errors | `TypeOK`, `IdInOneFile`, `CreatedIsKept`, `KnowsContainers`, `DataComplete` | no container is lost, or in both files unless a `Delete` of it failed |
| `tempdir_process` | 3 goroutines of one process, a crash, an error | `DirProtected`, `StagedIsKept` | within a process recovery spares directories in use and what is staged there |
| `tempdir` | 2 processes, one id, a crash, an error | `TypeOK`, `OwnerHoldsLock`, `OneHolderInProcess`, `OrphansAreRemoved` | locks of directories in use are held; what is left behind is removed eventually |
| `layers` | 2 processes, 2 layers in any of 3 locations, mounts of one, failing `driver.Put`, a crash, reboot or error | `TypeOK`, `IdInOneFile`, `VisibleIsComplete`, `ContentsAreRecorded`, `CreatedIsKept`, `MountCountsAreExact` | records and contents stay together; mount counts are exact |

Five runs show that the code does not do what a comment says (`expect: violation`):

| Run | The comment | What happens |
|---|---|---|
| `containers_names` | containers.go:329, duplicate names "shouldn't be saved" | `updateNames` takes a name from a container of the other location and saves only one of the two files |
| `containers_cleanup` | containers.go:335, "even after successfully cleaning up once" | `load` marks the location of the container that keeps the name, so the cleanup rewrites the wrong file |
| `tempdir_unlinked` | tempdir.go:53, the directory "is protected by its instance lock" | a recovery in another process locks an inode whose path was deleted and created anew, and removes a directory in use |
| `tempdir_close_race` | staging_lockfile.go:19, a recorded lock is owned | `file.Close` in `CreateAndLock` drops the lock a recovery in the same process has just taken |
| `layers_interrupted` | layers.go:2130, "if we are interrupted, the layer will be cleaned up" | a flag whose save failed stays in memory and is taken for saved by the next deletion |

`DirProtected` therefore holds within one process and not across two. Some
properties are conditional, and the condition is what the code leaves open:

* `FreshUnlessSaveFailed` and `VisibleIsComplete` exempt a process one of whose saves
  failed (`dirty`). A failed save leaves memory changed under a current token, and
  nothing reloads it. Without the exemption TLC finds both violated after one error.
* `FreshUnlessSaveFailed` asks less in the presence of foreign writers: a cache they made
  old has an old token, so that the next `startReading` or `startWriting` sees it. A
  load or a `Save` between the two steps of a foreign save (`torn`) is the exception: it
  takes the new token and misses the file. Without that exception TLC finds the property
  violated.
* `IdInOneFile`, `CreatedIsKept` and the layers' `VisibleIsComplete` exempt an id that a
  deletion with a failing save left in a file (`leftover`). Such an id can be created again
  in another location, and then is in two files; of a layer, the next load takes the old
  record for an interrupted deletion and removes the contents of the new one. Without
  the exemption one error is enough to violate each of them.
* `ContentsAreRecorded` exempts `orphaned` layers, which wait for `GarbageCollect`.
* `MountCountsAreExact` exempts `forced` layers: the count that a refused forced unmount
  leaves in memory is written by the next save for any layer.
* `DataComplete`, `KnowsContainers` and `ContentsAreRecorded` are stated for histories
  without I/O errors (crashes and reboots included), for the same reason.
* `MountCountsAreExact` is stated for histories without crash and error: the users of
  a process that died are never subtracted.

### Bounds, and why they are enough

* **Processes and goroutines.** Two processes are what it takes for a stale cache, a
  lost update or a lock on an unlinked inode. Two goroutines of one process beside a
  second process is what it takes for the record lock of a process to be shared,
  joined or dropped by a third party.
* **Ids and names.** Two records with one name make every conflict of names. Each may be
  in any location, and a deleted id may come back in another, which makes every conflict
  of files. `layers` has no names: the name handling is that of the container store.
* **Faults.** `MaxCrashes`, `MaxErrors` and `MaxFaults` bound the number of crashes and
  errors. One of them at any point is the case the protocols are written for;
  `images_crash` and the two `tempdir` runs allow one of each, and `containers` any two,
  which gives a crash after an error. `layers_interrupted` has two faults because the violation needs two.
* **`MaxForeign` = 2** lets a foreign writer disturb both the first reload and the one
  after the cleanup. `images_crash` has none: there `FreshUnlessSaveFailed` is about
  the code's own writers alone.
* **`MaxCleanups` = 1** is `maxLayerStoreCleanupIterations` (3 in the code): one is
  enough to go round the loop and to fail at the limit.
* **`MountedIds`, `MaxMounts` = 2**: two users of a layer distinguish a count from a
  flag.
* **`DataIds`**: in `layers` callers set big data items of one layer and mount the other.
  No operation reads both.
* **`Inodes`**: four. An inode is reused once nothing refers to it; TLC would report an
  error in `Open` if none were free.

Symmetry is used over interchangeable ids and goroutines in runs with safety
properties only. `containers` and the layer runs also use a view: the memory of a
process that is outside its operations and has an old token is replaced before anything
reads it, and states that differ only in it count as one. For layers, whose names are not
in the instance, the view also forgets the order of a list, and forgets variables that no
step reads in states where no property reads them. Deadlock is checked except in `containers`, where a leaked lock
legitimately stops every process, and in the `tempdir` runs, where ids run out.

### Fairness

`lockfile`: strong fairness for the steps that take a Go mutex, because a
`sync.Mutex` that a goroutine failed to get for a while is handed to it, and an
`RWMutex` lets announced writers and earlier readers in; weak fairness for the
others, including F_SETLKW; a holder eventually unlocks. Nobody is obliged to ask for
the lock. `Progress` says that somebody gets the lock, not that everybody does: the
kernel promises no order.

`tempdir`: `layerStore.load` calls `RecoverStaleDirs` on every load of a writable store, so recoveries
start again and again (weak fairness), each proceeds to its end (strong fairness,
because other goroutines take `stagingLockFileLock` in between), and an owner of a
directory goes on.

## 4. What is proved

`LockFileProofs` proves, for every finite set of goroutines, every set of processes and
every assignment of one to the other (`ThreadsAssumption`):

| Theorem | Statement |
|---|---|
| `TypeCorrect` | `Spec => []TypeOK`; `counter` is never negative |
| `UnlockNeverPanics` | `Spec => []NeverPanics` |
| `KernelLockKept` | `Spec => []HolderOwnsKernelLock` |
| `LockExcludes` | `Spec => []MutualExclusion` |
| `NeverSelfDeadlocked` | `Spec => []NoSelfDeadlock` |
| `KernelLockNotLeaked` | `Spec => []NoLeakedKernelLock` |
| `LockFileImplementsRWLock` | `Spec => Abstract!Spec`, with `holds[t]` mapped to the mode of a thread at "held" |

and `RWLockProofs` proves `LockIsExclusive` of the abstract lock.

`MutualExclusion` is not inductive: whether a goroutine may enter depends on the mutexes,
on `counter` and on the kernel, of which it says nothing. The inductive invariant `IInv`
adds:

* `RwMutexInv`: exactly the goroutines between `rwMutex` and `UnlockRw` are in the mutex,
  in the mode they asked for, and a writer is alone;
* `StateMutexInv`: `stateMutex` belongs to the goroutine at the fcntl call or past the
  check of `Unlock`, and one at the fcntl call found `counter` zero, and it still is;
* `CounterInv`: `counter` is the number of holders in the process. Lemmas about
  cardinality (`CountTaken`, `CountGivenBack`, `NoHolder`, `SomeHolder`) connect it to
  the steps;
* `KernelInv`: the process has the kernel's lock exactly while `counter` is positive, in
  mode `lockType`, which is the mode of every holder, and the kernel's locks of
  different processes are compatible;
* `KnownInv`: a goroutine that uses the lock got it from the map, so the open and close
  of `GetLockFile` happens before there is a holder.

There is one lemma per action (`Keep...`), and `NextIInv` combines them. Exclusion then
follows by cases: within a process from `RwMutexInv`, between processes from `KernelInv`.
For the refinement, the steps that let a goroutine in are `Acquire` (`Acquires`),
`Unlock` is `Release`, a crash is `Die`, and all others stutter.

Because the stores use `RWLock`, what TLC shows of them rests on the implementation of
that lock only through this refinement.

Only model-checked: `Progress` and `OrphansAreRemoved` (liveness under fairness is outside
the proof system), and everything about the stores and the temporary directories.

## 5. Observations without a run

These came up while modelling and are recorded as hazards, with the reason why no property
covers them or which exemption of a property they are behind:

* images.go:388 and layers.go:784: a reload whose inner save fails has already made the
  token current, contrary to the comment that the reload will be tried again.
* images.go:423: after a deletion whose save failed, `GarbageCollect` trusts memory and
  removes the data of an image that `images.json` still lists.
* containers.go:609: `newContainerStore` returns with the lock held if the token cannot
  be read.
* tempdir.go:206: `NewTempDir` drops the staging lock without releasing it if `MkdirAll`
  fails.
* containers.go:806, layers.go:2235: an id that is deleted with a failing save and created
  again in another location is in two files; of a layer, the next load removes the
  contents of the new one. The properties exempt exactly this case.
* layers.go:1880: a forced `unmount` sets the count to 1 before `driver.Put`, and leaves it
  so when that fails; the count of a layer with several users is then lowered by the next
  save.
* layers.go:1504: `PutAdditionalLayer` leaves the location zero, so its record is not
  written.
* layers.go:460: `multipleLockFile` compares the token of its first file only.

## 6. What is not modelled

Of the modelled parts: `PutAdditionalLayer`, `ApplyDiff` on a finished layer,
`multipleLockFile` (the lock files of the graph root and of the image store are one lock
with one token), `Diff`, digest indexes and goroutines of one process in `LayerStore`; the deprecated `Touch`/`Modified` interface of a `LockFile`; the retry
limit of `CreateAndLock`; Windows. Replacing a file (`AtomicWriteFile`) is one step.
Tokens do not repeat, and clocks play no role.

Of the rest: formats, parsers, network and file I/O, which have no state of their own that
interleaves; and the parts in the plan below. `PROJECT.json` lists each with its reason.

## 7. Plan

1. **Store** over three `RWLock`s and `graph.lock`: the lock order of store.go:783 as
   absence of deadlock; `CreateContainer`, `DeleteContainer`, `DeleteImage`,
   `DeleteLayer` and `PutLayer` with the references between layers, images and containers
   under crashes; `Shutdown` against mounts, and the reload of the driver
   (`startUsingGraphDriver`). Abstract specification: one atomic map of records.
2. **LayerStore**, the rest: goroutines of one process (the "LOCKING BUG" at
   layers.go:1797), `PutAdditionalLayer`, `ApplyDiff`, an image store with its own lock.
3. **image/storage** `queueOrCommit` (storage_dest.go:891): layers that arrive in any order
   are committed in manifest order, each once; and the semaphore and cancellation of
   `image/copy`.
4. **Locker** and **RefCounter**: named locks that are deleted while someone is about to
   wait; mount counts that another process changes.
5. **idSet and userns**: interval operations against sets of integers, and allocation
   without overlap.
6. **Netavark IPAM** and **secrets**: allocation and release under a lock file; a database
   and a driver written one after the other.
7. **blobinfocache** prioritisation against its reference definition; **check and repair**
   against the invariants of Store.
8. **Proofs**, in this order: the safety of `TempDir` within one process (`DirProtected`,
   `OneHolderInProcess`) for any number of goroutines; freshness of the image store's
   cache from `RecordWrite` before `WriteFile`; the incomplete flag of `LayerStore`
   without errors; the lock order of `Store`.
