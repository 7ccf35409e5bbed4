# Verification of WinFsp

TLA+ models of the parts of WinFsp that carry its concurrency, the TLC runs that
check them, and TLAPS proofs about seven of them: the I/O queue, the process
buffers, the notifications, the dispatcher and its service, the launcher, the file nodes and the meta
caches.  Paths are relative to the root of the repository, which is shown here
as `src/`: the kernel driver is `src/src/sys`, the user mode library
`src/src/dll`, the launcher `src/src/launcher`, the public headers
`src/inc/winfsp`.

- [1. Inventory](#1-inventory)
- [2. Plan](#2-plan)
- [3. The modules and the code](#3-the-modules-and-the-code)
- [4. The runs](#4-the-runs)
- [5. Fairness](#5-fairness)
- [6. The proofs](#6-the-proofs)
- [7. Where the code and its documents differ](#7-where-the-code-and-its-documents-differ)
- [8. Not modelled](#8-not-modelled)

## 1. Inventory

WinFsp lets a user mode process be a file system.  An application's request
becomes an IRP in the driver; the driver puts it into the I/O queue of the
volume; a dispatcher thread of the file system process fetches it with
`FSP_FSCTL_TRANSACT`, carries out the operation, and hands the response in with
its next `FSP_FSCTL_TRANSACT`; the driver completes the IRP.

| component | state | operations | talks to | hard about it | modelled in |
|---|---|---|---|---|---|
| I/O queue: `sys/ioq.c`, `sys/iop.c`, `sys/wq.c` | Pending, Process and Retried queues, event, stopped flag; per IRP its time stamp, retry hint | post, next, start/end processing, retry complete, expire, stop | every dispatch routine posts; `volume.c` serves; the I/O manager cancels | two-phase cancellation, lock-free gaps between two queues, a synchronization event with several sleepers, stop against everything | `Ioq` |
| Transactions: `sys/volume.c` (`FspVolumeFastTransact`) | progress of each call, boundary IRP, loop counter | take responses, take retried IRPs, wait, prepare and start pending IRPs | I/O queue, file system process | termination under retry and repost, stale hints | `Ioq` |
| Oplock breaks in `sys/create.c`, `sys/file.c` | IRPs parked with the oplock package | park, complete, post to a work queue | I/O queue | the break ends on a stopped queue | `Ioq`, `FileNode` |
| Notifications: `sys/volume.c` (`FspVolumeNotify*`), `dll/fs.c` | `VolumeNotifyCount`, work items | begin, notify, end, work routine | rename lock, file nodes, deletion | three locks, a count, system worker threads in any order, crash within a session | `VolumeNotify` |
| Rename lock: `sys/driver.h`, `sys/fileinfo.c`, `sys/create.c` | an ERESOURCE whose owners are pointers | acquire shared, starving, exclusive; set owner; release owner | creates, renames, notifications | released by another thread than the one that took it | `VolumeNotify` |
| Volume: `sys/volume.c` (`FspVolumeCreate/Delete/Stop`) | `VolumeDeleted`, VPB, device references | create, mount, stop, delete | all | deletion against work in flight, crash of the process | `VolumeNotify` (deletion) |
| Meta caches: `sys/meta.c`, used by `sys/file.c`, `security.c`, `ea.c`, `dirctl.c`, `fileinfo.c` | list and hash of items with reference counts, index per file node, change numbers | reference, add, invalidate, expire | queries, sets, change notifications, device timer | answers overtaken by changes, items used outside of locks, stale indices | `MetaCache` |
| File information: `sys/fileinfo.c`, `sys/file.c` | sizes per stream, basic information per main file, their expiration, change numbers | try get, try set, set, invalidate | the same | a change number made of two | `FileInfo` |
| Device: `sys/device.c`, `sys/devtimer.c` | reference count, context tables, timer, expiration work item | create, delete, sweep | caches, queue, volume | re-entrance of the expiration, deletion while the timer runs | – |
| File nodes: `sys/file.c`, `sys/name.c` | open, handle and active counts, context by name table, delete pending, share access, locks, oplocks | open, close, cleanup, overwrite, rename | every request | open against delete and rename, named streams, failures that must give back what they took | `FileNode` |
| Requests: `sys/create.c`, `cleanup.c`, `close.c`, `read.c`, `write.c`, `fileinfo.c`, `dirctl.c`, `ea.c`, `security.c`, `flush.c`, `lockctl.c`, `volinfo.c`, `fsctl.c`, `devctl.c`, `shutdown.c` | the request and its context | prepare, complete, retry, fini | file nodes, I/O queue, Cc and Mm | locks handed from one thread to another, retries | create, cleanup, close, disposition, rename: `FileNode`; queries and sets: `MetaCache` |
| Process buffers: `sys/psbuffer.c` | per process a list of buffers and their number | acquire, release, collect | read, write, directory control; process notification | the process ends while a buffer is in use | `ProcessBuffer` |
| Driver, callbacks, utilities: `sys/driver.c`, `callbacks.c`, `util.c`, `silo.c`, `sxs.c`, `mup.c`, `mountdev.c`, `fsext.c`, `statistics.c`, `trace.c`, `debug.c` | tables of registrations | load, unload, acquire for Cc and Mm | operating system | order of registrations | – |
| Dispatcher: `dll/fs.c`, `dll/fsctl.c` | dispatcher handle, result, chain of threads | start, thread, stop, send response | transactions, operations | every thread creates and awaits the next, order of stop and wait | `FsDispatch` |
| Service: `dll/service.c` | service status, table, two critical sections, two SRW locks | loop, main, control, stop | control manager, dispatcher | stop during start, locks held over callbacks | `ServiceHost` |
| Operations: `dll/fsop.c` | guard lock | one per request kind | file system | guard strategies, several callbacks per request | `FuseIntf` |
| Directory buffers: `dll/dirbuf.c` | buffer with entries and index | fill, delete, sort, read | `fsop.c`, FUSE | bounds between entries and index, own quicksort, continuing from a marker | `DirBuffer` |
| FUSE: `dll/fuse/*`, `dll/fuse3/*` | file descriptors, open files, loop | one per callback | operations, service | partial failure between callbacks, handles, hidden names | `FuseIntf` |
| POSIX: `shared/ku/posix.c` | SIDs of the machine and its domains | convert ids, permissions, paths | FUSE, security | ranges that meet, order of tests, access check semantics | `PosixMap` |
| Launcher: `launcher/*` | list of instances with reference counts, client tokens | start, stop, recover, list | processes, pipe, thread pool | a process that ends during its start, recovery against stop, handles on error paths | `Launcher` |
| Clients and mounting: `dll/mount.c`, `dll/launch.c`, `dll/np.c`, `dll/security.c`, `shared/ku/mountmgr.c`; .NET: `dotnet/*`; tools: `fsptool/*` | – | – | operating system | – | – |

What makes the components correct:

* **I/O queue** – an IRP has one owner at any time and is completed once; a request
  that was started is neither expired nor cancelled; nobody sleeps while there is work;
  a stopped queue is empty and stays so; requests are served.
* **Transactions** – a call returns or sleeps, whatever comes in meanwhile; no response,
  however wrong, breaks the ownership of IRPs.
* **Notifications** – the rename lock belongs to the session while one is open and to
  nobody after; no file is renamed between the lookup of its name and its notification;
  renames get their turn; the volume can be deleted.
* **Meta caches and file information** – reference counts are exact; what a node finds is
  its own and is not older than the last set; everything expires.
* **File nodes** – counts match the users on every path of failure; one node per open name;
  deletion on the last cleanup; share access between files and their streams; every
  context that user mode opened is cleaned up and closed once, in this order.
* **Dispatcher and service** – no request is cancelled while a thread may use its buffers;
  `DispatcherStopped` is the last operation; stopping ends, and the end of the dispatcher ends the
  service.
* **User mode operations** – no handle of the file system is leaked, shared or used closed;
  what a create found stays true until it answers; conversions are exact.
* **Launcher** – one process per instance; what was stopped stays so; tokens and instances are freed.

The hazards, each with its line and the properties aimed at it, are in `PROJECT.json`.

## 2. Plan

Done, in this order:

1. **`Ioq`** with the abstract **`IrpService`**, and `IoqProofs`.
2. **`VolumeNotify`**: notification, rename lock, deletion of the volume.
3. **`MetaCache`**: the cache with its queries, sets, invalidations; **`FileInfo`** extends it by the
   file information of a node.
4. **`FsDispatch`**: the dispatcher threads; **`ServiceHost`** composes them with the service loop.
5. **`ProcessBuffer`**: the buffers of a process, and `ProcessBufferProofs`.
6. **`FileNode`** with the abstract **`FileContexts`**: what opens, failures, deletes and renames do to the nodes
   of a volume.
7. **`Launcher`**: instances, recovery and tokens.
8. **`FuseIntf`**, with **`PosixMap`** and **`DirBuffer`**: the user mode library from the operation guard
   to the callbacks of a FUSE file system.

Next, what is worth modelling:

9. `Device`: references, timer, expiration work item, delayed deletion of the volume's devices.
10. `FuseLoop`: `fuse_loop.c` and the event that ends it, composed with `ServiceHost`.
11. Reads, writes and byte-range locks of a file node: who owns its two resources across a request.
12. `NameOps`: the prefix, suffix and comparison functions of `name.c`.

Theorems, done in this order: the invariants of `Ioq` and of `ProcessBuffer`; `VolumeNotify`; `FsDispatch` and `ServiceHost`;
`Launcher`; the contexts of `FileNode`; `MetaCache` and `FileInfo`; that `Ioq` implements `IrpService`; the accounts of `FileNode`, and its share access.
Section 6 has the arguments.  Next: `HandlesBalanced` and `AnswersAgree` of `FuseIntf`.  `DirBuffer` declares recursive operators, so that nothing can be proved in the module that joins it
with `FuseIntf`; `FuseIntf` and `PosixMap` by themselves have none.

## 3. The modules and the code

Every action is one critical section, or one stretch of code between two points where
another thread can see or change the state; the map of `PROJECT.json` gives the lines of
each definition.

### `Ioq` – `sys/ioq.c`, `sys/iop.c`, `sys/volume.c`

`pending`, `process`, `retried` are the three IRP lists, `event` is `PendingIrpEvent`,
`stopped` is `Stopped`.  `stamp` abstracts the expiration time to whether it has passed,
`inCancel` is the set of IRPs whose cancel routine is running, `kicks` the work that
`FspIoqRetryCompleteIrp` owes the event, `parked` the IRPs that are with the oplock
package or in a work queue, `free` the IRPs that the I/O manager has.  Each dispatcher
thread has a program counter, the responses it handed in, the IRP it holds, and the boundary and
the counter of its retry loop.  `um` and `sent` say which requests user mode has.

Posting, cancelling (`Cancel` and `CancelRoutine` are its two phases), expiring, taking,
starting, ending and completing an IRP are actions of their own, and so is every turn of the loops in
`FspVolumeFastTransact`.  `Stop` sets the flag, and `DrainPending`, `DrainProcess` and
`DrainRetried` take one IRP at a time, since posts, answers and completions run in between.
An IRP in the Process queue cannot be cancelled (`FSP_IOQ_PROCESS_NO_CANCEL`).
With `TrustedUserMode = FALSE` a response may carry the hint of any IRP.  `Features`
switches on what the environment does, so that every instance shows one combination of hazards.

`IrpService` is what an application sees: a request is queued, sent, answered,
completed.  `Standing` in `Ioq` is the refinement mapping, and `IoqProofs` proves the refinement.

### `VolumeNotify` – `sys/volume.c`, rename lock in `sys/driver.h`

`shared`, `exclusive` are the owners of `FileRenameResource`, `node` that of the locks of a
file, `name` its name, `count` is `VolumeNotifyCount` (-1 after deletion).  Requests
(`Renames`, `Creates`, `Others`) take locks, are answered in user mode, and release the locks
when they complete.  Work items and clients have program counters; `volume` and `stopped` are the
progress of `FspVolumeStop` and `FspVolumeDelete`.  A plain shared acquisition waits
behind a queued exclusive one, the starving acquisition does not: that difference decides
whether a work item waits for the rename that waits for its session.

### `MetaCache` and `FileInfo` – `sys/meta.c` and its users, `sys/fileinfo.c`

`list` is the item list, oldest first, whose records stand for the items of the hash
table as well; `refs` are the reference counts, `last` the item index counter.
`stored` and `change` are the index and the change number of a file node, `version` what user mode has.
Queries, sets and invalidators are threads with program counters; the lock of the
node is `owner` and `sharers`.  A behaviour is about one of the four caches, `kind`, chosen at its start:
security descriptors and extended attributes are changed by requests that go through the node,
directory and stream information by changes of children that invalidate without the lock of the node.

`FileInfo` adds a fifth kind, what a node knows of itself: `size` and `fileValid` of each node, `times` and `basicValid`
of the main file, which its streams share.  The change number of a stream is the pair of that of its main file and its
own, each taken modulo its number of bits; `MainModulus` and `StreamModulus` are scaled down so that the
stream's part wraps around in the run.

### `FileNode` – `sys/file.c`, `create.c`, `cleanup.c`, `close.c`, `fileinfo.c`

`node` are the `FSP_FILE_NODE`s with their counts, share access and deny counts; an address is used again when its last
reference has gone.  `table` is the `ContextByNameTable`, `lock` the owner of the Main resource of a main file.
A `file` is a file object with its descriptor and the request that is under way for it: where it is, the node it opens
or has, the extra node of a sharing violation, the contexts opened, cleaned up and closed in user mode.
The operators `CountShare`, `CloseNode`, `Dereference`, `Count` and `Forget` stand for the helpers of `file.c`; an action
is a request between two waits: `Issue`, `CreateAnswered`, `CreateComplete`, the three ends of a sharing
violation, `TryOpen` and its failures, `Park` for an oplock, the overwrite, disposition, rename, cleanup, close,
and the Fini routines of cancelled requests.  A stream opens its main file by a Create of its own (`FspMainFileOpen`), which is
another file object of the model.  A volume is with streams and overwrites, with POSIX deletion, or with renames, see section 7.

`FileContexts` is what the headers promise to user mode: a context is opened, then cleaned up, then closed, each at most once.

### `FsDispatch` and `ServiceHost` – `dll/fs.c`, `dll/service.c`

`pc` is the progress of each thread of the chain, in the order of creation, `child` and `err`
its local variables; `result` is `DispatcherResult`, `handle` tells whether
`FileSystem->DispatcherThread` is stored, `stopping` is `DispatcherStopping`, `app` is the progress of
`FspFileSystemStartDispatcher` and then of `FspFileSystemStopDispatcher`, and `ioq` is the volume:
running, stopped by `FSP_FSCTL_STOP0` or drained by `FSP_FSCTL_STOP`.
Asynchronous responses come from a thread that is not in the chain.

`ServiceHost` composes it with the service as the file systems of the repository do: `OnStart` starts the dispatcher,
`OnStop` stops it, `DispatcherStopped` is `FspFileSystemStopServiceIfNecessary`.  `status` and `accept` are the service
status, `event` is the event of console mode, `table` and `guard` are `FspServiceTable` and
`ServiceStopGuard`, `main` is the progress of `FspServiceMain`, `at` that of the two threads that
may stop the service: the one in `FspServiceLoop` and the one `FspServiceStopLoop` creates.  The service control manager
and the console are external.

### `ProcessBuffer` – `sys/psbuffer.c`

`known` are the processes with an item in the table, `list` and `count` that item's `BufferList`
and `BufferCount`; `exist` are the allocated entries and `backed` those that have their `Buffer`.  A request
has a program counter, the process in whose context it runs and the entry it holds.  `ProcessBufferLock` makes
`AcquireListed`, `AcquireNew`, `Insert`, the return of an entry and `Exit` atomic; the allocations in
`Alloc` and `Back` happen outside of it and may fail.  A request that outlives its process keeps the process id from
being used again, which is the guard of `Start`.

### `Launcher` – `launcher/launcher.c`

`list` and `event` are `SvcInstanceList` and `SvcInstanceEvent`, `inst` the instances with their reference counts,
`process` and `waiting` their processes and the waits for these, `token` the token handles.  The thread of the pipe and the callbacks of
the pool each have a stack of what they are in the middle of, because the last release of an instance may run a whole start.
`Request`, `Create`, `CreateFails`, `Talk` are the start, `Drop`, `Remove`, `Recover`, `Free` the release.

### `FuseIntf`, `PosixMap`, `DirBuffer` – `dll/fsop.c`, `dll/fuse/fuse_intf.c`, `shared/ku/posix.c`, `dll/dirbuf.c`

`tree` is the FUSE file system (what each name is), `handles` what its open handles are open on, `guard` is `OpGuardLock`
with the strategy in `strategy`, `ops` which of the optional callbacks the file system has.  A `request` of a dispatcher thread proceeds callback by callback, and each callback may fail.  `desc` are the
`struct fsp_fuse_file_desc` with their path and handle, and what the driver does with the file: answered, to be overwritten, open, cleaned up.
`StartCreate`, `Check`, `Stat`, `OpenIt`, `Make`, `Collide`, `OpenMade`, `Setup`, `Undo`, `Opened` are the dispositions of
`FspFileSystemOpCreate` on top of `fsp_fuse_intf_Create` and `Open`; overwrite, use, disposition, cleanup, close, rename and
`SetReparsePoint` follow.  The driver is external here: it opens one node per name, refuses what is to be deleted and locks
a node against requests of the same file.

`PosixMap` and `DirBuffer` have no variables: their operators are the conversions and the buffer operations as the code
computes them, and facts about them (`ConversionsExact`, `PermissionsExact`, `ListingsExact`) compare these with a reference: what is
converted comes back; the access check of Windows on a converted DACL against the class rules of POSIX; the mode read from any
DACL, or none, against the access check, with generic rights, entries of other types, and an owner or group that is absent; the entries returned
by a sequence of reads against the sorted directory.  The facts are constant; `MCFuseIntf` states each at the step of a request that
rests on it, so that they are evaluated for the inputs of the instance.

## 4. The runs

| run | instance | shows |
|---|---|---|
| `ioq_safe` | 2 IRPs, 2 threads, capacity 1; cancel, expire, retry, park, aborted waits, stop | `OneOwner`, `StoppedStaysDrained`, `WakeupNotLost`, and that the queue implements `IrpService` |
| `ioq_progress` | 2 IRPs, 1 thread, 2 arbitrary hints per call; cancel, retry, park, stop without cancelling | `CallProgress`, `QueuedServed` |
| `ioq_lost` | 1 IRP; park, stop | violated: `StopCancelsAll` |
| `notify_safe` | 2 renames, create, request, 2 work items, 2 clients; crash, failed allocation, unbalanced ends, stop | `NameStable`, `SessionHoldsLock` |
| `notify_live` | rename, request, 2 work items; sessions that end, stop, close, crash at any moment | `RenamesProceed`, `VolumeGoes` |
| `metacache` | each cache and the file information; 2 nodes, 2 queries, 1 set, 1 invalidator, capacity 2 | `RefsExact`, `Coherent`, `OwnContent`, `InfoCoherent`, `ItemsLeave` |
| `host` | console and service, 2 dispatcher threads, a pending request, failures anywhere, stop and unload | `NoCancelInUse`, `LastOperation`, `LoopOutlivesStop`, `StopReturns`, `AllEnd`, `EndIsHeard`, `SignalEndsLoop` |
| `psbuffer` | 2 processes, 4 requests, 4 entries, limit 2 | `OneUser`, `CountExact`, `NothingLost` |
| `filenode` | 3 file objects, 3 nodes, 2 files, a stream, three kinds of volume, one disposition | `NodesAccounted`, `OneNode`, `DeleteIsLast`, `Sharing`, `ContextsReturned`, and that it implements `FileContexts` |
| `filenode_delete` | 2 file objects of one file | violated: `DeleteHappens` |
| `launcher` | 2 names, 3 instances, 2 tokens | `OneProcess`, `StopSticks`, `TokensClosed`, `DeadAreFreed` |
| `fuse` | 2 threads, 2 descriptors, 2 paths, a hidden name, with and without `create` and `opendir`; 6 machines, ids at the bounds of all ranges, all modes, DACLs of up to 2 entries, directories of up to 3 of 6 names | `HandlesBalanced`, `AnswersAgree`, `ConversionsReturn`, `PermissionsKept`, `DirectoryIsRead` |

Why these bounds are enough.  The hazards of the queue are races of two threads over one
IRP, and of one thread between two IRPs: two of each contain them.  A capacity of 1 makes the queue
full at once, and a wake-up can be consumed by one thread while the other sleeps and the queue is
refilled.  For notifications, two work items give every
order of a notification and the end of its session, two clients open two sessions, two
renames compete for the lock; `Budget` bounds the calls so that a session can be opened,
used, closed and opened again.  For the caches, two files are needed for a stale index to
find another's item, two queries for one to overtake the other, and `MaxIndex` exceeds the
capacity so that eviction happens.  `MaxVersion` and `MaxChange`, `MaxInfo` and `MaxInfoChange` bound how often a file
changes and is asked about.  Two dispatcher threads give the chain a first and a last one; one fails
while the other creates, operates or waits, and the stop comes from a third.  For process buffers, three requests of one process exceed its limit,
the fourth belongs to another process, and a process id comes back after its process has ended.
For file nodes, a stream and its main file need two file objects, and a third is the one that fails, deletes or is
deleted meanwhile; two names are the source and the target of a rename; a node address is used again when it is free.  `Modes` are
a writer that denies deletion, and callers that delete by request or on close: the conflicts of share access and of streams come from these.
Deletion on close is bounded to the volume with POSIX deletion (`MCOnClose`), the one that the theorems about `FileNode` leave to the run.
For the launcher, two requests for one name and a recovery make three instances.  For the FUSE layer, two threads and two
descriptors give every race of two requests over one path, and a third descriptor would only be refused.  `Settings` pairs the fine guard with a
file system that has all callbacks, and the coarse guard with one that has neither `create` nor `opendir`: the missing callbacks change what a
request does by itself, and the other two pairs, which were checked apart, double the states.  Two entries of a DACL are the least that can contradict each other.

Deadlock is checked except in four runs whose system can really come to a stop: in `notify_safe` after a crash with
a session open, in `filenode` and `filenode_delete` when all file objects are closed or the volume has stopped, and in
`launcher` when every instance is gone.
The symmetry of IRPs, threads, nodes, clients, processes, files and entries is used in runs that
check no liveness.

## 5. Fairness

* **`Ioq`, `KernelFairness`**: a thread in the kernel goes on; cancel routines, oplock
  completions and work items are called; draining goes on.  The event is a
  synchronization event on a kernel queue: if it is signaled, *some* waiter wakes, so the fairness is
  of the disjunction over threads.  **`DispatcherFairness`**: the thread of
  `FspFileSystemDispatcherThread` calls in a loop, and always with an output
  buffer (`SF` of the branch that goes on to wait).  No timeout of a wait is assumed, and aborted waits are left out of
  the liveness run: an alert or a dying thread is not a behaviour of a dispatcher at work.
* **`VolumeNotify`**: ERESOURCEs serve their waiters in turn, hence `SF` for acquisitions;
  worker threads run; a file system answers its requests and ends its sessions, which is what the
  headers ask of it.  `notify_live` leaves out failed allocations: a `FspFileSystemNotifyEnd` that can never allocate its
  work item keeps the rename lock, and nothing can be promised.  After a crash nobody answers, and a request in the Process
  queue waits for the stop of the Ioq; one that user mode has not fetched may be cancelled or expire (`Expire`), but need not.
* **`MetaCache`, `FileInfo`**: the device timer fires every second and queues the sweep, and time passes.
* **`ServiceHost`**: threads are scheduled, operations and `OnStart` return, a TRANSACT on a stopped volume
  returns (`Stop` of `Ioq` signals the event, and `WakeupNotLost` keeps it signaled).  Nobody need ever ask the service to
  stop, and no step of the environment need happen.
* **`Launcher`**: threads run and the pool runs the callback of a process that has ended; no process need end.

## 6. The proofs

Each component that is proved about has a module of its own, `<Component>Proofs`, which extends it; `MetaCacheProofs` is about
`MetaCache` and `FileInfo`, `ServiceHostProofs` about `FsDispatch` and `ServiceHost`.  The module begins with the inductive
invariant `IInv`, as a conjunction of named parts, goes on with one lemma for each group of actions, and ends with the theorems.  Every
invariant was checked by TLC on the instance of the component's run before it was proved (of `Fair`, see below).  The invariants of `FileNode` and the operators
that say what a step changes are definitions of `FileNodeInvariant`, which `FileNodeProofs` extends.  The theorems hold for all values of the constants that satisfy the
assumption named in the component's module; bounds of a run (`Budget`, `MaxVersion`, `Disposals`, ...) are arbitrary numbers in them.

| module | theorem | states |
|---|---|---|
| `IoqProofs` | `TypeCorrect` | `[]TypeOK` |
| | `SingleOwner` | `[]OneOwner` |
| | `NoLostWakeup` | `[]WakeupNotLost` |
| | `DrainedForGood` | `[]StoppedStaysDrained` |
| | `ServiceImplemented` | `ImplementsService`: the refinement of `IrpService` |
| `ProcessBufferProofs` | `TypeCorrect`, `BufferHasOneUser`, `NoEntryLost`, `CountIsExact` | `[]TypeOK`, `[]OneUser`, `[]NothingLost`, `[]CountExact` |
| `VolumeNotifyProofs` | `SessionLock` | `[]SessionHoldsLock` |
| | `StableNames` | `[]NameStable` |
| | `QuietDeletion` | `[]DeletedIsQuiet`: nothing is left of a volume that was deleted |
| `ServiceHostProofs` | `CancelAfterThreads` | `[]NoCancelInUse` |
| | `StoppedIsLast` | `[]LastOperation` |
| | `HostRunsDispatcher` | `HostSpec => Spec`: the service runs the dispatcher as `FsDispatch` allows |
| | `HostDispatches` | both invariants of the dispatcher in a service |
| | `LoopIsLast` | `[]LoopOutlivesStop` |
| `LauncherProofs` | `NamesUnique`, `StoppedStaysStopped`, `NoTokenLeft` | `[]OneProcess`, `[]StopSticks`, `[]TokensClosed` |
| | `ReferencesCounted` | the reference count is the number of references |
| `FileNodeProofs` | `ContextsUsedInOrder` | `ImplementsContexts`: the refinement of `FileContexts` |
| | `NoContextLeft` | `[]ContextsReturned` |
| | `NodesAreAccounted`, `NamesHaveOneNode`, `DeletesAreLast`, `HandlesShare` | `[]NodesAccounted`, `[]OneNode`, `[]DeleteIsLast`, `[]Sharing`, of a volume without POSIX deletes and renames |
| `MetaCacheProofs` | `ReferencesExact`, `IndexLeadsToOwnContent`, `CachedIsCurrent` | `[]RefsExact`, `[]OwnContent`, `[]Coherent` |
| | `FileInfoIsCurrent` | `[]InfoCoherent`, as long as few changes are made during a retry |

`ListLemmas` says what taking an entry anywhere, taking the head, appending, and inserting at the head do to a
list without duplicates; the I/O queue, the process buffers and the meta caches stand on it.

**`IoqProofs`**, from `IoqAssumption`: the capacity is a number, `None` is no IRP.  `IInv == TypeOK /\ HeldWhileHandled /\ OneOwner`.
`OneOwner` alone is not inductive: `Release` puts the IRP in the hands of a thread into a queue, and only `HeldWhileHandled`
(a thread holds an IRP exactly between taking it and passing it on) says that it has one, and `TypeOK`
that lists hold IRPs.  `WakeupNotLost` and `StoppedStaysDrained` are inductive relative to `IInv`.
The refinement rests on `OneOwner`: because one place has each IRP, how the IRP stands to an application can be told from that place (`Standings`).
`MoveStep` says that a step which moves one IRP, in a way an application may see, and leaves the others where they are (`Stays`), is a
step of `IrpService`; one step of the proof per action shows which IRP it moves.  That started IRPs are cancelled only after
the stop needs `StoppedStaysDrained` besides.

**`ProcessBufferProofs`**, from `ProcessBufferAssumption`: the limit is at least 1, and the requests are finitely many so that
those with an entry can be counted.  `IInv == TypeOK /\ Progress /\ OneUser /\ NothingLost`.
`OneUser` needs `NothingLost`: a new entry is new to every list because what is on a list is allocated.
`Progress` says what a request has at each point: an entry that is freed at the second look under the
lock has no buffer yet.  `CountExact` needs `Unlisted` besides: a process without an item has no list and, as long as it runs,
no request with an entry, so that counting begins at 1.

**`VolumeNotifyProofs`**, from `VolumeNotifyAssumption`: requests, work items and the session are different owners.
`SessionHoldsLock` is inductive with what the lock excludes (`Excludes`), who has it (`RenameHolds`, `WorkHolds`: a rename from its
acquisition to its completion, a notification while it processes its file), and `Quiet`: deletion waits for the work items.
`NameStable` follows from the first three.

**`ServiceHostProofs`**, from `FsDispatchAssumption`: there is at least one thread.  The chain of threads is what has to be strengthened:
`Creating` says that the one thread which has not decided yet knows from `DispatcherThreadCount` how many are left, `Chain` that a thread has a
handle of the next if and only if there is one and that there is none after the last, `Ending` that a thread ends after all that come after it.
It follows that the first thread ends last, which `NoCancelInUse` and `LastOperation` need.  `HostRunsDispatcher` needs no
invariant; `HostInv` says who is in `FspServiceStop` and holds the table lock, from which `LoopIsLast` follows.

**`LauncherProofs`**, from `LauncherAssumption`.  The last release of an instance may run a whole start, so that the invariant is about the stacks of the
threads: `StackOK` (only the end of a release lies under another frame), `FramesGood` and `Lives` (what is true of the
instance a frame is about, and of one that has left the list), `NamesDiffer` on the list, `RefCount` and `OneStarter`
(one reference for the thread that starts it and one for the wait), and `TokensKept`: a protected token has an instance that will give it up.

**`FileNodeProofs`**, from `FileNodeAssumption`.  `Tracked` tells from where a file object is whether its context is open, was cleaned up
or closed; it is about one file object at a time, so that a step of another file object cannot disturb it, whatever it does to nodes.

The accounts of the nodes are about all file objects at once.  The counts are right because each step gives and takes the same, so that the
lemmas are about what one file object changes (`Step`, `NodeGain`, `HandleGain`, ...) and about references that are owed in the middle of a step
(`Refs` with `owed`, `Pay`).  The inductive invariant `InOrder` says `Good(node, table, file)`, that is

* `Whole`: types, the counts (`Refs`, `Uses`), one node for a name (`One`), that the node of a Create is its own until its answer is processed
  (`Own`), and that files and nodes have the same names up to renames (`Named`);
* `Plain`: a handle keeps its node open (`Held`), the file object that deletes is the last one (`LastDeletes`), a rename excludes Creates and
  opens of its target (`Renaming`), a stream keeps its main file open (`StreamsOK`);
* `Mains`: an open node of a stream has a main file node, and so has the node of a Create of a stream.

Each helper of `file.c` has a lemma that says what becomes of `Whole` (`CloseKeeps`, `DropKeeps`, `RefuseKeeps`, `InsertKeeps`, `JoinKeeps`,
`UntableKeeps`, `ShiftKeeps`, ...), each action one that says that it preserves `Good`.  TLC checked `InOrder` on instances of the run before it was
proved.

`Sharing` is not inductive even with `InOrder`: an open checks the share access of its own node, and the counts `denyDelete` and `denyStream` of
the main file node; that these are the handles of the right main file needs `Fair`, which adds to `AllShare` (`Sharing`, as an operator)

* `Kin`: the main file node of an open stream has the main name of the stream, also after a rename has moved both;
* `KinFiles`: the node of a Create of a stream has as its main file node that of the main file object which the Create waited for, so that the
  main file node it finds open under that name is this one.

That the open was allowed is read off the counts: a `denyDelete` or `denyStream` of 0 says that there is no such handle (`VerdictAllows`), which is
where `Sharing` rests on `NodesAccounted`.  The lemma of each action also concludes `Fairly`, that the step preserves `Fair`; only
`CreateCompleteGood` has to look at modes (`OpenFair`), and `RenameDoneGood` at names (`RelocatedFair`), the others make no handle and
leave names and main files alone (`FairStays`).  TLC looked for a violation of `Fair` on an instance with a stream and a rename, which it did not
explore to the end.

The theorems assume `~volume.posix`: with POSIX semantics a node loses its name while it is open, `Held` and `LastDeletes` do not hold,
and the deletion of a node that has lost its name forgets another (`file.c:929`, one of the hazards).  They do not assume what separates the kinds of volumes of
the run: streams, overwrites and renames may be together.

**`MetaCacheProofs`**, from `MetaCacheAssumption` and `FileInfoAssumption`: a cache has room for an item, the moduli are positive, `None` is no request.
`CacheInv` says of the list and the counts that an index is on the list once (`IndexedOnce`), that an index which a node or a request has was given out
to this node (`IndicesKnown`), and that each count is one for the list and one for each reader (`Counted`).
Counting readers goes through the cardinality lemmas of `FiniteSetTheorems`.  For `Coherent`, `LocksKnown` says who holds the locks of a node, and
`AnswersCurrent` that an answer which still has the change number of the node is what user mode has.
The change numbers of the file information wrap around, so that `InfoCoherent` is not true without a bound: a request may sleep between
its completion and its retry while the information is set 2^20 times.  `FileInfoIsCurrent` has this as its hypothesis `[]FewChanges`; since
the specification does not keep what the change number was at the completion, `InfoHistory` adds a history variable `noted`, which
restricts no behaviour.  The hypothesis is about the main file's number only: the 12 bits of a stream's number may wrap around any number of times,
which is why the run has them wrap.

Only model-checked:

* of `FileNode`, `NodesAccounted`, `OneNode`, `DeleteIsLast` and `Sharing` of a volume with POSIX deletes and renames;
* of `FuseIntf`, `HandlesBalanced` and `AnswersAgree`, which are not proved yet;
* `ConversionsReturn`, `PermissionsKept` and `DirectoryIsRead` of `MCFuseIntf`: they say what recursive operators compute;
* the liveness properties, `CallProgress`, `QueuedServed`, `RenamesProceed`, `VolumeGoes`, `ItemsLeave`, `StopReturns`, `AllEnd`, `EndIsHeard`, `SignalEndsLoop` and
  `DeadAreFreed`: fairness and ENABLED are out of reach of the prover.

## 7. Where the code and its documents differ

Two are runs that expect a violation; `PROJECT.json` quotes the lines.

* `ioq_lost`: an oplock break that ends on a stopped queue leaves its IRP with nobody.
* `filenode_delete`: an open that is counted but fails later keeps the last user of a file marked for deletion from deleting it.

The others came up while the code was modelled; no run states them.  Where a model leaves a behaviour out because of one of them, this is said.

*Driver*

* The deletion of a volume waits for `VolumeDeleteResource` (volume.c:435), which a notification work item holds while it waits for the lock of a
  file, whose owner may be a request that the crashed file system will never answer and that only the stop after the wait would cancel.
  `WinFsp-Design.asciidoc:64` says that the devices get deleted even if the file system crashes.  `Stuck` describes these states,
  and `VolumeGoes` and `RenamesProceed` say that they are the only ones in which the volume stays, or a rename waits for ever; without `Stuck` the run finds both violated.
* The work item that ends a session can overtake those of its notifications, so that a rename gets in between
  (each file stays locked while it is notified, `NameStable`).
* The EA cache is not swept (device.c:570), so that extended attributes do not expire, against `fsctl.h:253`; `ItemsLeave` excludes it.
* `FspFileNodeInvalidateFileInfo` does not count the change number: an answer that was under way is taken after it.
* An open's file information may be older than a change through a handle that was closed meanwhile; create.c:1355–1390 describes the race and mitigates it
  for files that stay open.
* A delete-on-close file that was replaced by a POSIX rename no longer has its name in the table; when it is deleted it removes the entry of
  the file that has the name now, or finds none (the assertion at file.c:931 and below).  POSIX deletion of a main file with open streams, and a
  replacing rename of a file with streams, leave streams in the table whose main file is gone (the assertion at file.c:685).  Hence volumes
  with streams, with POSIX deletion and with renames are separate in `filenode`.
* An open that user mode answered before a delete, but that the driver completes after it, gets a new node for the deleted name.

*Dispatcher and service*

* `DispatcherStopped` is not called when the first thread fails before its handle is stored (fs.c:404).
* `FspServiceStop` during `OnStart` stops the service, and `FspServiceMain` sets it running after that (service.c:388, 478): such a
  service does not stop until it is asked again.  `EndIsHeard` counts the attempt.
* Two file systems in one process can wait for each other through the table lock: a thread that stops the service holds it shared
  while `OnStop` waits for a dispatcher whose last thread waits for the lock behind the loop.

*Launcher*

* `SvcInstanceRelease` gives the client token to the recovered instance and then closes the same handle (launcher.c:1166–1217);
  the pipe thread closes it as well (launcher.c:1802), so that the handle may be closed by one while another has it.  `TokensClosed` says that none is leaked.
* Between the removal of an instance from the list and its recovery, a stop of it, or of all, does not find it; the
  recovery may even follow a start and a stop that a client asked for meanwhile.  There is no back-off between recoveries.

*FUSE and POSIX*

* `fsp_fuse_intf_Rename` leaves `PosixPath` of the open descriptors as it was (fuse_intf.c:1816–1848): later requests by path use the old name.
* `SetReparsePoint` on a descriptor that is a reparse point releases a handle of -1, and `Control` passes it on (fuse_intf.c:2504–2513, 2536–2576).
* The scan of a DACL looks at no flags (posix.c:1200–1219): an inherit-only entry, which the access check of Windows skips, counts in the mode, so that
  the mode may say more, or less, than Windows grants.  `ModeIsAccess` states both: for a DACL without such entries the mode is the access check, with
  them it is the access check of the DACL as if they were entries for the file.  Entries that are neither plain allow nor plain deny are
  skipped (posix.c:1218), among them conditional and object entries, which Windows may count; the model has only other entries that decide nothing.
* A `SetReparsePoint` on a directory that fails after `rmdir` loses the directory; a create that fails after `mkdir`, `mknod` or `create` leaves the new file.
* `fsp_fuse_intf_SetSecurity` frees descriptors that have no value when an earlier step fails (fuse_intf.c:1877, 1936), and compares
  a mode without type bits to `st_mode`, so that it always calls `chmod`, which drops the bits above the permissions.
* `fsp_fuse_loop_start` returns a status without a value when its event cannot be created (fuse_loop.c:59–61).
* The ids that do not return: `0x1000*X+RID` for X = 5, which posix.c:508 lists, `0x20000+RID`, `0x10500+Y`, RIDs of local accounts from 0x10000 and of the domain from 0x200000 where there are trusts.  Names with one of U+F0XX
  in the place of a character that Windows does not allow map to the same POSIX name as that character.
* A directory buffer whose filling failed keeps its entries, and a reader that does not reset it lists them as complete; two entries of one
  name can make small reads repeat for ever, hence the names of a directory are distinct in the model.

## 8. Not modelled

Byte layouts of requests and responses, buffer mapping, access checks, tracing, event logs and wording are data that no property so far depends on.
Beyond that, by module:

* `VolumeNotify`: creation and mounting of a volume, the swapped VPB and its delayed release; more than one file.
* `MetaCache`: the fill of the security cache by an open; directory queries with a pattern or a marker, which never cache, and
  those that go back to user mode while they keep the node.
* `FileInfo`: `FspFileNodeTrySetFileInfoAndSecurityOnOpen`, and changes by user mode alone, which are seen when the information expires.
* `FileNode`: directories and their descendants, reads, writes, flushes and byte-range locks, the cache manager; the oplock package is the choice
  whether and when a wait ends.
* `ServiceHost`: a second start of a dispatcher, stopping the dispatcher from within an operation (it would wait for itself), pause and resume, exit codes.
* `Launcher`: access checks, command lines, the registry, the pipe protocol, handle values that are used again.
* `FuseIntf`: `OpenTargetDirectory`, named streams, EAs, security descriptors, symlink resolution, volume information, ioctl; the event
  loop, the options and the FUSE 3 wrappers, which only change signatures.
* `PosixMap`: merging permissions into an existing descriptor, ids from 2^31, the discovery of domains, the escapes for NFS paths.
* `DirBuffer`: the locks of the buffer (a query holds the file node), the race of its creation, the capacity hint; the index holds the names
  themselves instead of the places of the entries, so that the copying of both when the buffer grows is not seen.

Components without a module: the device life cycle (planned), names, volume information and control requests (they translate), driver
entry and callbacks, MUP, mount manager, silos and side by side (registrations with the operating system), the network provider, mount points and
clients of the launcher (calls of system services), the .NET layer and the tools (wrappers).  The
sample file systems and the test suites under `src/tst` are users of the interface: the models take from them how it is used.  They
are more than a third of the repository's lines, which is why the map covers a small share of it.
