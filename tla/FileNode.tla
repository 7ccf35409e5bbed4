------------------------------ MODULE FileNode ------------------------------
(***************************************************************************)
(* File objects, file nodes and the by-name table of a volume: file.c,     *)
(* create.c, cleanup.c and close.c in src/src/sys, with the disposition    *)
(* and rename requests of fileinfo.c.                                      *)
(*                                                                         *)
(* All file objects opened under one name share one FSP_FILE_NODE, found   *)
(* through the table.  An action is one critical section of the context    *)
(* table lock of the volume (FspFsvolDeviceLockContextTable) together with *)
(* what its thread does to its own file object; a request waits in user    *)
(* mode between two actions.  lock[n] is the owner of the Main resource,   *)
(* which streams share with their main file.                               *)
(*                                                                         *)
(* A name is a pair of a file and a stream of it (NoStream: the main       *)
(* stream).  Directories are not modelled: no name is inside another one.  *)
(***************************************************************************)
EXTENDS Integers, FiniteSets, FiniteSetsExt

CONSTANTS
  Files,       \* file objects: each one is opened, cleaned up and closed once
  Nodes,       \* addresses of FSP_FILE_NODEs, reused once free; naturals
  FileNames,   \* names of files
  Streams,     \* names of their streams
  NoStream,    \* the main stream
  Modes,       \* what an open may ask for: records of AllModes
  Volumes,     \* the volume parameters: records of AllVolumes
  Disposals,   \* bound: disposition requests in a behaviour
  None         \* no node, no file object

AllModes == [data : BOOLEAN, delete : BOOLEAN, shareData : BOOLEAN,
             shareDelete : BOOLEAN, deleteOnClose : BOOLEAN]

(* VolumeParams.NamedStreams, VolumeParams.SupportsPosixUnlinkRename,      *)
(* whether files are overwritten, and the files that the users of the      *)
(* volume open and rename to.                                              *)
AllVolumes == [streams : BOOLEAN, posix : BOOLEAN, overwrite : BOOLEAN,
               files : SUBSET FileNames]

ASSUME FileNodeAssumption ==
  /\ Nodes \subseteq Nat
  /\ IsFiniteSet(Files) /\ IsFiniteSet(Nodes)
  /\ IsFiniteSet(FileNames) /\ IsFiniteSet(Streams)
  /\ Modes \subseteq AllModes
  /\ \A m \in Modes : m.deleteOnClose => m.delete
  /\ Volumes \subseteq AllVolumes
  /\ Disposals \in Nat
  /\ NoStream \notin Streams
  /\ None \notin Files \cup Nodes

VARIABLES
  volume,   \* the parameters of the volume
  node,     \* the file nodes; refs = 0: the address is free
  table,    \* FSP_FSVOL_DEVICE_EXTENSION.ContextByNameTable
  lock,     \* the owner of the Main resource of a main file node
  file,     \* the file objects with their FSP_FILE_DESC and current IRP
  disposals,\* disposition requests made so far
  stopped   \* the I/O queue of the volume is stopped

vars == <<volume, node, table, lock, file, disposals, stopped>>

Names == FileNames \X (Streams \cup {NoStream})
IsStream(name) == name[2] # NoStream
MainName(name) == <<name[1], NoStream>>

(* The mode of the main file a stream keeps open (FspMainFileOpen).        *)
MainMode == [data |-> FALSE, delete |-> FALSE, shareData |-> TRUE,
             shareDelete |-> TRUE, deleteOnClose |-> FALSE]

FreeNode == [name |-> None, main |-> None, refs |-> 0, active |-> 0,
             open |-> 0, handles |-> 0, pending |-> FALSE, posix |-> FALSE,
             denyDelete |-> 0, denyStream |-> 0, share |-> {}]

NewFile == [pc |-> "new", name |-> None, mode |-> MainMode, node |-> None,
            extra |-> None, reason |-> None, main |-> None,
            posix |-> FALSE, delete |-> FALSE, overwrite |-> FALSE,
            to |-> None, opened |-> FALSE, cleanups |-> 0, closes |-> 0]

(* The states in which a Create holds the rename lock of the volume.       *)
Creating == {"main", "create", "answered", "violation", "waiting", "again", "refused",
             "tryopen", "parked", "overwrite", "overwriting"}

(* The states in which a file object counts as a handle of its node.       *)
HasHandle == {"tryopen", "parked", "overwrite", "overwriting", "open",
              "dispose", "rename", "cleanup"}

-----------------------------------------------------------------------------
(* Helpers.  They work on a pair s of the file nodes and the table.        *)

State == [node |-> node, table |-> table]

Becomes(s) == node' = s.node /\ table' = s.table

Reference(s, n) == [s EXCEPT !.node[n].refs = @ + 1]

(* FspFileNodeDereference of each node in D, with FspFileNodeDelete of the *)
(* last reference: it dereferences the main file node of a stream.         *)
Lost(s, D, k) ==
  Cardinality(D \cap {k})
    + Cardinality({d \in D : s.node[d].refs = 1 /\ s.node[d].main = k})
DereferenceAll(s, D) ==
  [s EXCEPT !.node = [k \in Nodes |->
     LET lost == Lost(s, D, k)
     IN CASE lost = 0 -> s.node[k]
          [] lost > 0 /\ lost = s.node[k].refs -> FreeNode
          [] OTHER -> [s.node[k] EXCEPT !.refs = @ - lost]]]

Dereference(s, n) == DereferenceAll(s, {n})

Forget(s, name) == [s EXCEPT !.table[name] = None]

(* The node whose Main resource guards node n. *)
Guard(n) == IF node[n].main = None THEN n ELSE node[n].main
Unlocked(n) == lock[Guard(n)] = None
Acquire(n, f) == lock' = [lock EXCEPT ![Guard(n)] = f]
Release(n) == lock' = [lock EXCEPT ![Guard(n)] = None]

HasAccess(mode) == mode.data \/ mode.delete
Conflict(a, b) ==
  /\ HasAccess(a) /\ HasAccess(b)
  /\ \/ a.data /\ ~b.shareData
     \/ b.data /\ ~a.shareData
     \/ a.delete /\ ~b.shareDelete
     \/ b.delete /\ ~a.shareDelete

(* IoSetShareAccess, IoUpdateShareAccess and the deny counts between a     *)
(* main file and its streams; by is 1 or -1.                               *)
CountShare(s, n, f, by) ==
  LET mode == file[f].mode
      main == s.node[n].main
      shared == IF by = 1 THEN s.node[n].share \cup {g \in {f} : HasAccess(mode)}
                          ELSE s.node[n].share \ {f}
      t == [s EXCEPT !.node[n].share = shared]
  IN CASE main = None /\ mode.delete ->
            [t EXCEPT !.node[n].denyDelete = @ + by]
       [] main # None /\ HasAccess(mode) /\ ~mode.shareDelete ->
            [t EXCEPT !.node[main].denyStream = @ + by]
       [] OTHER -> t

(* FspFileNodeClose: share says whether the share access of f is returned, *)
(* handles how many handles are.                                           *)
CloseNode(s, n, f, share, handles) ==
  LET s1 == IF share THEN CountShare(s, n, f, -1) ELSE s
      s2 == [s1 EXCEPT !.node[n].handles = @ - handles,
                       !.node[n].active = @ - 1]
      last == s2.node[n].open = 1
      s3 == IF s2.node[n].open > 0 THEN [s2 EXCEPT !.node[n].open = @ - 1] ELSE s2
      name == s3.node[n].name
      found == s3.table[name] # None
  IN CASE last /\ found -> Dereference(Forget(s3, name), n)
       [] OTHER -> s3

(* FspFileNodeOpen: what becomes of opening node n for f.  writable: the   *)
(* file is mapped for writing by somebody.                                 *)
Refused == [status |-> "refused", node |-> None, reason |-> None]
Violation(n, reason) == [status |-> "violation", node |-> n, reason |-> reason]
Success(n) == [status |-> "success", node |-> n, reason |-> None]

(* Mutant: a stream is opened without a look at its main file. *)
VerdictOfStream(f, writable) ==
  LET n == file[f].node
      old == table[node[n].name]
  IN IF old = None THEN Success(n)
     ELSE IF node[old].pending THEN Refused
     ELSE IF writable \/ \E g \in node[old].share : Conflict(file[f].mode, file[g].mode)
       THEN Violation(old, "general")
     ELSE Success(old)

Verdict(f, writable) ==
  LET mode == file[f].mode
      n == file[f].node
      main == node[n].main
      old == table[node[n].name]
      wanted == IF file[f].overwrite THEN [mode EXCEPT !.data = TRUE] ELSE mode
  IN IF main # None /\ node[main].pending THEN Refused
     ELSE IF main # None /\ node[main].denyDelete > 0 /\ ~mode.shareDelete /\ HasAccess(mode)
       THEN Violation(main, "main")
     ELSE IF old = None THEN Success(n)
     ELSE IF node[old].pending THEN Refused
     ELSE IF node[old].denyStream > 0 /\ mode.delete THEN Violation(old, "stream")
     ELSE IF \/ writable /\ ~mode.shareData /\ HasAccess(mode)
             \/ \E g \in node[old].share : Conflict(wanted, file[g].mode)
       THEN Violation(old, "general")
     ELSE Success(old)

(* The counts an open takes, a failed one that waits for oplocks included. *)
Count(s, n) ==
  [Reference(s, n) EXCEPT !.node[n].active = @ + 1, !.node[n].open = @ + 1,
                          !.node[n].handles = @ + 1]

(* The end of a file object, or of a Create that failed.                   *)
Finished(f) == [NewFile EXCEPT !.pc = "done", !.opened = file[f].opened,
                               !.closes = file[f].closes]
Finish(f, rec) == file' = [file EXCEPT ![f] = rec]
At(f, pc) == file' = [file EXCEPT ![f].pc = pc]

(* FspFsvolCreatePostClose, or a Close in user mode.                       *)
PostClose(rec) == [rec EXCEPT !.closes = @ + 1]

Give(f, n) == Dereference(CloseNode(State, n, f, TRUE, 1), n)

-----------------------------------------------------------------------------
Init ==
  /\ volume \in Volumes
  /\ node = [n \in Nodes |-> FreeNode]
  /\ table = [name \in Names |-> None]
  /\ lock = [n \in Nodes |-> None]
  /\ file = [f \in Files |-> NewFile]
  /\ disposals = 0
  /\ stopped = FALSE

Free == {n \in Nodes : node[n].refs = 0}
Created(name) == [FreeNode EXCEPT !.name = name, !.refs = 1]
Fresh(name, mode, n, overwrite) ==
  [NewFile EXCEPT !.pc = "create", !.name = name, !.mode = mode, !.node = n,
                  !.overwrite = overwrite]

(* IRP_MJ_CREATE reaches the volume: it takes the rename lock shared.      *)
IssueFile(f, name, mode, overwrite) ==
  /\ ~IsStream(name)
  /\ Free # {}
  /\ LET n == Min(Free)
     IN /\ node' = [node EXCEPT ![n] = Created(name)]
        /\ file' = [file EXCEPT ![f] = Fresh(name, mode, n, overwrite)]

(* The main file of a stream is opened by a Create of its own (g) first.   *)
IssueStream(f, g, name, mode, overwrite) ==
  /\ IsStream(name) /\ volume.streams
  /\ g # f /\ file[g].pc = "new"
  /\ Cardinality(Free) >= 2
  /\ LET n == Min(Free)
         k == Min(Free \ {n})
     IN /\ node' = [node EXCEPT ![n] = Created(name), ![k] = Created(MainName(name))]
        /\ file' = [file EXCEPT
                     ![f] = [Fresh(name, mode, n, overwrite) EXCEPT
                               !.pc = "main", !.main = g],
                     ![g] = Fresh(MainName(name), MainMode, k, FALSE)]

Issue(f) ==
  /\ file[f].pc = "new" /\ ~stopped
  /\ \A g \in Files : file[g].pc # "rename"
  /\ \E name \in Names, mode \in Modes, overwrite \in BOOLEAN :
       /\ name[1] \in volume.files
       /\ overwrite => volume.overwrite /\ mode.data
       /\ \/ IssueFile(f, name, mode, overwrite)
          \/ \E g \in Files : IssueStream(f, g, name, mode, overwrite)
  /\ UNCHANGED <<volume, table, lock, disposals, stopped>>

(* The Create of the main file is over: the stream goes on, or fails too.  *)
MainReady(f) ==
  /\ file[f].pc = "main"
  /\ LET g == file[f].main
         n == file[f].node
     IN \/ /\ file[g].pc = "open"
           /\ node' = [Reference(State, file[g].node).node EXCEPT
                         ![n].main = file[g].node]
           /\ At(f, "create")
           /\ UNCHANGED table
        \/ /\ file[g].pc = "done"
           /\ Becomes(Dereference(State, n))
           /\ Finish(f, Finished(f))
  /\ UNCHANGED <<volume, lock, disposals, stopped>>

(* The file system fails the Create: there is no context.                  *)
CreateFails(f) ==
  /\ file[f].pc = "create"
  /\ Becomes(Dereference(State, file[f].node))
  /\ Finish(f, Finished(f))
  /\ UNCHANGED <<volume, lock, disposals, stopped>>

(* The file system opens a context and answers.                            *)
CreateAnswered(f) ==
  /\ file[f].pc = "create" /\ ~stopped
  /\ Finish(f, [file[f] EXCEPT !.pc = "answered", !.opened = TRUE])
  /\ UNCHANGED <<volume, node, table, lock, disposals, stopped>>

(* FspFsvolCreateComplete after a successful answer, for the first time or *)
(* after the oplocks of a sharing violation were broken.                   *)
CreateComplete(f) ==
  /\ file[f].pc \in {"answered", "again"} /\ ~stopped
  /\ \E writable, badName \in BOOLEAN :
       LET v == IF badName THEN Refused ELSE Verdict(f, writable)
           n == file[f].node
           inserted == v.node = n
           s1 == Count(State, v.node)
           s2 == CountShare(s1, v.node, f, 1)
           s3 == IF inserted THEN [s2 EXCEPT !.table[node[n].name] = n]
                             ELSE Dereference(s2, n)
           next == IF file[f].overwrite THEN "overwrite" ELSE "tryopen"
       IN CASE v.status = "refused" ->
                 /\ Becomes(Dereference(State, n))
                 /\ Finish(f, PostClose(Finished(f)))
            [] v.status = "violation" ->
                 /\ Becomes(s1)
                 /\ Finish(f, [file[f] EXCEPT !.extra = v.node, !.reason = v.reason,
                       !.pc = IF @ = "answered" THEN "violation" ELSE "refused"])
            [] OTHER ->
                 /\ Becomes(s3)
                 /\ Finish(f, [file[f] EXCEPT !.node = v.node, !.pc = next])
  /\ UNCHANGED <<volume, lock, disposals, stopped>>

(* Mutant: share access is returned that the violation never took.         *)
GiveExtraShared(f) == Dereference(CloseNode(State, file[f].extra, f, TRUE, 1),
                                  file[f].extra)

(* The counts of a sharing violation are given back.                       *)
GiveExtra(f) == Dereference(CloseNode(State, file[f].extra, f, FALSE, 1),
                            file[f].extra)

(* No oplock, or the second violation: the Create fails.                   *)
ViolationFails(f) ==
  /\ \/ file[f].pc = "violation" /\ Unlocked(file[f].extra) /\ file[f].reason = "general"
     \/ file[f].pc = "waiting" /\ Unlocked(file[f].extra)
     \/ file[f].pc = "refused"
  /\ Becomes(Dereference(GiveExtra(f), file[f].node))
  /\ Finish(f, PostClose(Finished(f)))
  /\ UNCHANGED <<volume, lock, disposals, stopped>>

(* There may be oplocks, or the node is busy: a worker thread takes over.  *)
ViolationWaits(f) ==
  /\ file[f].pc = "violation"
  /\ At(f, "waiting")
  /\ UNCHANGED <<volume, node, table, lock, disposals, stopped>>

(* Mutant: the context is closed although the answer is processed again.   *)
ViolationBrokenClosing(f) ==
  /\ file[f].pc = "waiting" /\ Unlocked(file[f].extra)
  /\ Becomes(GiveExtra(f))
  /\ Finish(f, PostClose([file[f] EXCEPT !.pc = "again", !.extra = None,
                                        !.reason = None]))
  /\ UNCHANGED <<volume, lock, disposals, stopped>>

(* The worker has broken the oplocks: the answer is processed again.       *)
ViolationBroken(f) ==
  /\ file[f].pc = "waiting" /\ Unlocked(file[f].extra)
  /\ Becomes(GiveExtra(f))
  /\ Finish(f, [file[f] EXCEPT !.pc = "again", !.extra = None, !.reason = None])
  /\ UNCHANGED <<volume, lock, disposals, stopped>>

-----------------------------------------------------------------------------
(* FspFsvolCreateTryOpen, for the first time or retried.                   *)
MayTry(f) ==
  \/ file[f].pc = "tryopen"
  \/ file[f].pc = "parked" /\ ~stopped

TryOpen(f) ==
  /\ MayTry(f) /\ Unlocked(file[f].node)
  /\ At(f, "open")
  /\ UNCHANGED <<volume, node, table, lock, disposals, stopped>>

(* Mutant: user mode is not told.                                          *)
TryOpenFailsQuietly(f) ==
  /\ MayTry(f) /\ Unlocked(file[f].node)
  /\ Becomes(Give(f, file[f].node))
  /\ Finish(f, Finished(f))
  /\ UNCHANGED <<volume, lock, disposals, stopped>>

(* The key of the oplock does not fit, the oplock that is asked for        *)
(* (FILE_OPEN_REQUIRING_OPLOCK) is refused, the wait for a break is        *)
(* cancelled, or the file is mapped as an image.                           *)
TryOpenFails(f) ==
  /\ MayTry(f) /\ Unlocked(file[f].node)
  /\ Becomes(Give(f, file[f].node))
  /\ Finish(f, PostClose(Finished(f)))
  /\ UNCHANGED <<volume, lock, disposals, stopped>>

(* The node is busy, or an oplock of another handle must be broken first.  *)
Park(f) ==
  /\ file[f].pc = "tryopen"
  /\ ~Unlocked(file[f].node) \/ node[file[f].node].handles > 1
  /\ At(f, "parked")
  /\ UNCHANGED <<volume, node, table, lock, disposals, stopped>>

-----------------------------------------------------------------------------
(* An Overwrite request goes back to user mode: FspFsvolCreatePrepare.     *)
OverwriteStart(f) ==
  /\ file[f].pc = "overwrite" /\ ~stopped
  /\ Unlocked(file[f].node)
  /\ Acquire(file[f].node, f)
  /\ At(f, "overwriting")
  /\ UNCHANGED <<volume, node, table, disposals, stopped>>

(* The attributes do not fit, the file is mapped, or the request is        *)
(* cancelled before user mode has seen it.                                 *)
OverwriteFails(f) ==
  /\ file[f].pc = "overwrite"
  /\ Becomes(Give(f, file[f].node))
  /\ Finish(f, PostClose(Finished(f)))
  /\ UNCHANGED <<volume, lock, disposals, stopped>>

(* FspFileNodeOverwriteStreams: the open streams of n will be deleted.     *)
Descendants(s, name) ==
  {s.table[x] : x \in {y \in Names : y[1] = name[1] /\ s.table[y] # None}}

OverwriteStreams(n) ==
  LET streams == {d \in Descendants(State, node[n].name) \ {n} : node[d].handles > 0}
  IN IF node[n].main = None
       THEN [d \in Nodes |-> [node[d] EXCEPT !.pending = @ \/ d \in streams]]
       ELSE node

OverwriteDone(f) ==
  /\ file[f].pc = "overwriting" /\ ~stopped
  /\ node' = OverwriteStreams(file[f].node)
  /\ Release(file[f].node)
  /\ At(f, "open")
  /\ UNCHANGED <<volume, table, disposals, stopped>>

(* User mode fails the request and closes the file by itself.              *)
OverwriteRefused(f) ==
  /\ file[f].pc = "overwriting" /\ ~stopped
  /\ Release(file[f].node)
  /\ Becomes(Give(f, file[f].node))
  /\ Finish(f, PostClose(Finished(f)))
  /\ UNCHANGED <<volume, disposals, stopped>>

-----------------------------------------------------------------------------
(* FspFsvolSetDispositionInformation: delete or keep, POSIX or not.        *)
Dispose(f) ==
  /\ file[f].pc = "open" /\ file[f].mode.delete
  /\ disposals < Disposals /\ ~stopped
  /\ Unlocked(file[f].node) /\ ~node[file[f].node].posix
  /\ Acquire(file[f].node, f)
  /\ At(f, "dispose")
  /\ disposals' = disposals + 1
  /\ UNCHANGED <<volume, node, table, stopped>>

(* FspFsvolSetDispositionInformationSuccess; the choice of the caller is   *)
(* made here, nothing depends on it before.                                *)
DisposeDone(f) ==
  /\ file[f].pc = "dispose" /\ ~stopped
  /\ \E delete, posix \in BOOLEAN :
       /\ posix => volume.posix /\ delete
       /\ node' = [node EXCEPT ![file[f].node].pending = delete]
       /\ Finish(f, [file[f] EXCEPT !.pc = "open", !.posix = delete /\ (@ \/ posix)])
  /\ Release(file[f].node)
  /\ UNCHANGED <<volume, table, disposals, stopped>>

(* User mode refuses a disposition or a rename, or the volume stops.       *)
SetInformationFails(f) ==
  /\ file[f].pc \in {"dispose", "rename"}
  /\ Release(file[f].node)
  /\ Finish(f, [file[f] EXCEPT !.pc = "open", !.to = None])
  /\ UNCHANGED <<volume, node, table, disposals, stopped>>

(* FspFileNodeRenameCheck for the old or the new name of node n.           *)
Sharers(d) == {file[g].mode : g \in node[d].share}
Movable(d, posix) ==
  \/ node[d].handles = 0
  \/ posix /\ (\A mode \in Sharers(d) : mode.shareDelete) /\ node[d].denyStream = 0
RenameCheck(n, name, posix) ==
  \A d \in Descendants(State, name) \ {n} : Movable(d, posix)

(* FspFsvolSetRenameInformation: the rename lock, then the file node.      *)
Rename(f) ==
  /\ file[f].pc = "open" /\ file[f].mode.delete /\ ~stopped
  /\ \A g \in Files : file[g].pc \notin Creating \cup {"rename"}
  /\ LET n == file[f].node
     IN /\ ~IsStream(node[n].name) /\ Unlocked(n) /\ ~node[n].posix
        /\ \E to \in volume.files, posix \in BOOLEAN :
             /\ posix => volume.posix
             /\ to # node[n].name[1]
             /\ node[n].handles = 1 \/ RenameCheck(n, node[n].name, posix)
             /\ RenameCheck(n, <<to, NoStream>>, posix)
             /\ file' = [file EXCEPT ![f].pc = "rename", ![f].to = to]
        /\ Acquire(n, f)
  /\ UNCHANGED <<volume, node, table, disposals, stopped>>

(* Mutant: the replaced node keeps its open count.                         *)
ReplacedOpen(d) == node[d]

(* FspFileNodeRename: the nodes of the file and of its streams that are in *)
(* the table move, and take the place of the nodes that have the new names.*)
Replaced(d) == [node[d] EXCEPT !.open = 0]
Moved(d, to) == [node[d] EXCEPT !.name = <<to, @[2]>>]

Renamed(from, to) ==
  LET moving == {x \in Streams \cup {NoStream} : table[<<from, x>>] # None}
      moved == {table[<<from, x>>] : x \in moving}
      replaced == {table[<<to, x>>] : x \in moving} \ {None}
      s == [node |-> [d \in Nodes |-> CASE d \in replaced -> Replaced(d)
                                        [] d \in moved -> Moved(d, to)
                                        [] OTHER -> node[d]],
            table |-> [y \in Names |->
                         CASE y[1] = from /\ y[2] \in moving -> None
                           [] y[1] = to /\ y[2] \in moving -> table[<<from, y[2]>>]
                           [] OTHER -> table[y]]]
  IN DereferenceAll(s, replaced)

RenameDone(f) ==
  /\ file[f].pc = "rename" /\ ~stopped
  /\ Becomes(Renamed(node[file[f].node].name[1], file[f].to))
  /\ Release(file[f].node)
  /\ Finish(f, [file[f] EXCEPT !.pc = "open", !.to = None])
  /\ UNCHANGED <<volume, disposals, stopped>>

-----------------------------------------------------------------------------
(* The last handle of a main file goes when its stream is cleaned up, its  *)
(* last reference when the stream is closed (FspMainFileClose).            *)
MainOf(f) == {g \in Files : file[g].main = f}
MayCleanup(f) == \A g \in MainOf(f) : file[g].pc \in {"cleaned", "done"}
MayClose(f) == \A g \in MainOf(f) : file[g].pc = "done"

(* FspFileNodeCleanup: what the end of a handle does to its node, and      *)
(* whether the file is deleted.                                            *)
CleanupFlags(f, single) ==
  LET n == file[f].node
      pending == node[n].pending \/ file[f].mode.deleteOnClose
  IN [pending |-> pending,
      posix   |-> node[n].posix \/ file[f].posix,
      delete  |-> ~node[n].posix /\ (file[f].posix \/ (single /\ pending))]

(* Mutant: any handle deletes a file that is marked for deletion.          *)
FileNodeCleanupAny(f) == CleanupFlags(f, TRUE)

FileNodeCleanup(f) == CleanupFlags(f, node[file[f].node].handles = 1)

(* IRP_MJ_CLEANUP: FspFsvolCleanup.  posted: the request goes to user mode *)
(* (PostCleanupWhenModifiedOnly).                                          *)
Cleanup(f) ==
  /\ file[f].pc = "open" /\ MayCleanup(f)
  /\ LET n == file[f].node
         flags == FileNodeCleanup(f)
     IN /\ Unlocked(n) /\ Acquire(n, f)
        /\ node' = [node EXCEPT ![n].pending = flags.pending, ![n].posix = flags.posix]
        /\ \E posted \in BOOLEAN :
             /\ flags.delete => posted
             /\ Finish(f, [file[f] EXCEPT !.pc = "cleanup", !.delete = flags.delete,
                             !.cleanups = IF posted THEN 1 ELSE 0])
  /\ UNCHANGED <<volume, table, disposals, stopped>>

(* FspFileNodeCleanupComplete: a deleted file leaves the table, and so do  *)
(* the streams that are cleaned up but not closed.                         *)
Deleted(s, n) ==
  LET name == s.node[n].name
      found == s.table[name] # None
      streams == IF volume.streams /\ s.node[n].main = None
                   THEN Descendants(Forget(s, name), name) ELSE {}
      gone == {name} \cup {s.node[d].name : d \in streams}
      t == [node |-> [d \in Nodes |-> IF d \in streams \cup {n}
                                        THEN [s.node[d] EXCEPT !.open = 0]
                                        ELSE s.node[d]],
            table |-> [x \in Names |-> IF x \in gone THEN None ELSE s.table[x]]]
  IN DereferenceAll(t, streams \cup {d \in {n} : found})

CleanupDone(f) ==
  /\ file[f].pc = "cleanup"
  /\ LET n == file[f].node
         s1 == CountShare(State, n, f, -1)
         s2 == [s1 EXCEPT !.node[n].handles = @ - 1]
     IN Becomes(IF file[f].delete THEN Deleted(s2, n) ELSE s2)
  /\ Release(file[f].node)
  /\ Finish(f, [file[f] EXCEPT !.pc = "cleaned", !.delete = FALSE, !.posix = FALSE])
  /\ UNCHANGED <<volume, disposals, stopped>>

(* IRP_MJ_CLOSE: FspFsvolClose.                                            *)
Close(f) ==
  /\ file[f].pc = "cleaned" /\ MayClose(f)
  /\ LET n == file[f].node
     IN Becomes(Dereference(CloseNode(State, n, f, FALSE, 0), n))
  /\ Finish(f, PostClose(Finished(f)))
  /\ UNCHANGED <<volume, lock, disposals, stopped>>

-----------------------------------------------------------------------------
(* FspIoqStop: requests of the volume are cancelled from now on.           *)
Stop ==
  /\ ~stopped /\ stopped' = TRUE
  /\ UNCHANGED <<volume, node, table, lock, file, disposals>>

(* FspFsvolCreateRequestFini, FspFsvolCreateTryOpenRequestFini and         *)
(* FspFsvolCreateOverwriteRequestFini of a cancelled request.              *)
CancelCreate(f) ==
  /\ stopped /\ file[f].pc \in {"create", "answered", "again"}
  /\ Becomes(Dereference(State, file[f].node))
  /\ Finish(f, Finished(f))
  /\ UNCHANGED <<volume, lock, disposals, stopped>>

CancelTryOpen(f) ==
  /\ stopped /\ file[f].pc = "parked"
  /\ Becomes(Give(f, file[f].node))
  /\ Finish(f, PostClose(Finished(f)))
  /\ UNCHANGED <<volume, lock, disposals, stopped>>

CancelOverwrite(f) ==
  /\ stopped /\ file[f].pc = "overwriting"
  /\ Release(file[f].node)
  /\ Becomes(Give(f, file[f].node))
  /\ Finish(f, Finished(f))
  /\ UNCHANGED <<volume, disposals, stopped>>

Next ==
  \/ Stop
  \/ \E f \in Files :
       \/ Issue(f) \/ MainReady(f) \/ CreateFails(f)
       \/ CreateAnswered(f) \/ CreateComplete(f)
       \/ ViolationFails(f) \/ ViolationWaits(f) \/ ViolationBroken(f)
       \/ TryOpen(f) \/ TryOpenFails(f) \/ Park(f)
       \/ OverwriteStart(f) \/ OverwriteFails(f) \/ OverwriteDone(f)
       \/ OverwriteRefused(f)
       \/ Dispose(f) \/ DisposeDone(f) \/ SetInformationFails(f)
       \/ Rename(f) \/ RenameDone(f)
       \/ Cleanup(f) \/ CleanupDone(f) \/ Close(f)
       \/ CancelCreate(f) \/ CancelTryOpen(f) \/ CancelOverwrite(f)

Spec == Init /\ [][Next]_vars

-----------------------------------------------------------------------------
(* The counts of a file node are those of its users, whatever fails and    *)
(* whatever is cancelled: references, active and open uses, handles, share *)
(* access, and the two counts by which a main file and its streams deny    *)
(* each other.  A violation that waits for oplocks is a use and a handle.  *)
HandlesOf(n) == {f \in Files : file[f].node = n /\ file[f].pc \in HasHandle}
ExtrasOf(n) == {f \in Files : file[f].extra = n}
UsersOf(n) == HandlesOf(n) \cup ExtrasOf(n)
                \cup {f \in Files : file[f].node = n /\ file[f].pc = "cleaned"}
NodesAccounted ==
  \A n \in Nodes :
    /\ node[n].refs = Cardinality({f \in Files : file[f].node = n})
                      + Cardinality(ExtrasOf(n))
                      + Cardinality({x \in Names : table[x] = n})
                      + Cardinality({k \in Nodes : node[k].main = n})
    /\ node[n].active = Cardinality(UsersOf(n))
    /\ node[n].open \in {0, node[n].active}
    /\ node[n].handles = Cardinality(HandlesOf(n)) + Cardinality(ExtrasOf(n))
    /\ node[n].share = {f \in HandlesOf(n) : HasAccess(file[f].mode)}
    /\ node[n].denyDelete = Cardinality({f \in HandlesOf(n) :
                              node[n].main = None /\ file[f].mode.delete})
    /\ node[n].denyStream = Cardinality({f \in Files : \E k \in Nodes :
                              /\ node[k].main = n /\ f \in HandlesOf(k)
                              /\ HasAccess(file[f].mode) /\ ~file[f].mode.shareDelete})

(* The table leads to the node that has the name and is open, and to every *)
(* such node: a name has one node, and a node that was deleted or replaced *)
(* is not found again.  (The assertions of FspFileNodeOpen, Close, Rename  *)
(* and CleanupComplete.)                                                   *)
OneNode ==
  /\ \A n \in Nodes : node[n].open > 0 => table[node[n].name] = n
  /\ \A x \in Names : table[x] # None =>
       node[table[x]].name = x /\ node[table[x]].open > 0

(* While a file is deleted in Cleanup it is in the table under its name,   *)
(* and unless the delete has POSIX semantics this is its last handle       *)
(* (winfsp.h: the Delete flag of Cleanup).                                 *)
DeleteIsLast ==
  \A f \in Files : file[f].pc = "cleanup" /\ file[f].delete =>
    LET n == file[f].node
    IN /\ table[node[n].name] = n
       /\ node[n].posix \/ node[n].handles = 1

(* Open file objects respect each other's share access, also between a     *)
(* main file that may be deleted and the streams that do not share that.   *)
Sharing ==
  \A f, g \in Files :
    LET n == file[f].node
        k == file[g].node
    IN f # g /\ f \in HandlesOf(n) /\ g \in HandlesOf(k) =>
         /\ n = k => ~Conflict(file[f].mode, file[g].mode)
         /\ n = node[k].main => \/ ~file[f].mode.delete \/ file[g].mode.shareDelete
                                \/ ~HasAccess(file[g].mode)

(* What the driver promises to user mode about contexts.                   *)
ContextOf(f) ==
  CASE ~file[f].opened -> "none"
    [] file[f].closes > 1 \/ (file[f].closes = 1 /\ file[f].pc # "done") -> "error"
    [] file[f].closes = 1 -> "closed"
    [] file[f].cleanups > 0 -> "cleaned"
    [] OTHER -> "open"

Contexts == INSTANCE FileContexts WITH context <- [f \in Files |-> ContextOf(f)]

(* Opened once, cleaned up and closed at most once, in this order.         *)
ImplementsContexts == Contexts!Spec

(* Every context that was opened is closed in the end, whichever way its   *)
(* Create failed; unless the volume stops.                                 *)
ContextsReturned ==
  \A f \in Files : file[f].pc = "done" /\ file[f].opened /\ ~stopped =>
    file[f].closes = 1

(* A file that was marked for deletion is deleted when its last handle is  *)
(* cleaned up: its node does not stay in the table without a handle (the   *)
(* comments of FspFileNodeCleanup, and winfsp.h on the delete of a file).  *)
DeleteHappens ==
  \A n \in Nodes :
    node[n].pending /\ node[n].handles = 0 /\ node[n].refs > 0 =>
      table[node[n].name] # n
=============================================================================
