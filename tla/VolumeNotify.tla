---------------------------- MODULE VolumeNotify ----------------------------
(***************************************************************************)
(* Change notifications of a file system volume (FSP_FSCTL_NOTIFY in       *)
(* src/src/sys/volume.c) against renames and the deletion of the volume.   *)
(*                                                                         *)
(* A notification runs as a work item that needs the rename lock of the    *)
(* device and the lock of the file it is about.  The user mode file system *)
(* brackets its notifications by NotifyBegin, which holds the rename lock  *)
(* shared from then on, and NotifyEnd, a work item that gives it back.     *)
(* The work item keeps the volume from being deleted; it may have to wait  *)
(* for a lock that a request in user mode holds.                           *)
(*                                                                         *)
(* Locks are ERESOURCE's: they are handed to an IRP or a work item by      *)
(* owner pointer and are released by whoever completes it.                 *)
(***************************************************************************)
EXTENDS Integers, FiniteSets

CONSTANTS
  Renames,   \* requests that rename the file
  Creates,   \* requests that open a file
  Others,    \* requests that lock the file
  Works,     \* FSP_VOLUME_NOTIFY_WORK_ITEM allocations
  Clients,   \* threads of the file system that notify
  Names,     \* names the file may have
  Budget,    \* bound: NotifyBegin and Notify calls
  Features,  \* bound: what the environment of this instance does
  Session,   \* the owner pointer &VolumeNotifyCount
  None       \* no owner

AllFeatures == {"bare", "unbalanced", "nomem", "stop", "crash"}

Irps == Renames \union Creates \union Others

ASSUME VolumeNotifyAssumption ==
  /\ Renames \intersect Creates = {}
  /\ Others \intersect (Renames \union Creates) = {}
  /\ Budget \in Nat
  /\ Features \subseteq AllFeatures
  /\ Session \notin Irps \union Works
  /\ None \notin Irps \union Works \union {Session}
  /\ Irps \intersect Works = {}

VARIABLES
  shared,     \* owners of FileRenameResource, shared
  exclusive,  \* owner of FileRenameResource, exclusive
  node,       \* owner of the resources of the file node
  name,       \* FileNode->FileName
  count,      \* VolumeNotifyCount
  ipc,        \* progress of each request
  wpc, wname, \* progress of each work item, and what it is about
  call, in,   \* the call a client is in, and whether it is in a session
  budget,     \* calls left
  alive,      \* the file system has its volume handle open
  stopped,    \* the Ioq: running, stopped by STOP0, or stopped and drained
  volume      \* VolumeDeleteResource and VolumeDeleted

workVars == <<wpc, wname>>
clientVars == <<call, in, budget>>
lockVars == <<shared, exclusive, node>>
vars == <<shared, exclusive, node, name, count, ipc, wpc, wname,
          call, in, budget, alive, stopped, volume>>

Calls == {"none", "begin", "notify", "end"}

Init ==
  /\ shared = {} /\ exclusive = None /\ node = None
  /\ name \in Names
  /\ count = 0
  /\ ipc = [i \in Irps |-> "idle"]
  /\ wpc = [w \in Works |-> "free"]
  /\ wname = [w \in Works |-> name]
  /\ call = [c \in Clients |-> "none"]
  /\ in = [c \in Clients |-> FALSE]
  /\ budget = Budget
  /\ alive = TRUE
  /\ stopped = "no"
  /\ volume = "exists"

-----------------------------------------------------------------------------
(* The locks. *)

(* A plain shared acquisition honours a queued exclusive waiter; one that  *)
(* starves exclusive waiters does not.                                     *)
CanShareStarving == exclusive = None
CanShare == CanShareStarving /\ \A i \in Irps : ipc[i] # "exclusive"

(* The work items own VolumeDeleteResource shared for as long as they      *)
(* exist; a waiting FspVolumeDelete keeps new owners out.                  *)
Busy == {w \in Works : wpc[w] # "free"}

-----------------------------------------------------------------------------
(* Requests. *)

ToIrp(i, label) == ipc' = [ipc EXCEPT ![i] = label]
ToWork(w, label) == wpc' = [wpc EXCEPT ![w] = label]

(* An application sends a request: renames lock the rename resource        *)
(* exclusive, creates lock it shared, both ahead of anything else.         *)
Issue(i) ==
  /\ ipc[i] = "idle"
  /\ ToIrp(i, CASE i \in Renames -> "exclusive"
                [] i \in Creates -> "shared"
                [] i \in Others -> "node")
  /\ UNCHANGED <<lockVars, name, count, workVars, clientVars, alive, stopped,
                 volume>>

AcquireExclusive(i) ==
  /\ ipc[i] = "exclusive"
  /\ exclusive = None /\ shared = {}
  /\ exclusive' = i
  /\ ToIrp(i, "node")
  /\ UNCHANGED <<shared, node, name, count, workVars, clientVars, alive,
                 stopped, volume>>

AcquireShared(i) ==
  /\ ipc[i] = "shared"
  /\ CanShare
  /\ shared' = shared \union {i}
  /\ ToIrp(i, "locked")
  /\ UNCHANGED <<exclusive, node, name, count, workVars, clientVars,
                 alive, stopped, volume>>

AcquireNode(i) ==
  /\ ipc[i] = "node"
  /\ node = None
  /\ node' = i
  /\ ToIrp(i, "locked")
  /\ UNCHANGED <<shared, exclusive, name, count, workVars, clientVars,
                 alive, stopped, volume>>

ReleaseLocks(i) ==
  /\ shared' = shared \ {i}
  /\ exclusive' = IF exclusive = i THEN None ELSE exclusive
  /\ node' = IF node = i THEN None ELSE node

(* The IRP takes its locks to the Ioq.                                     *)
Post(i) ==
  /\ ipc[i] = "locked"
  /\ stopped = "no"
  /\ ToIrp(i, "posted")
  /\ UNCHANGED <<lockVars, name, count, workVars, clientVars, alive,
                 stopped, volume>>

(* The request fails early, or the stopped Ioq refuses it.                 *)
Refuse(i) ==
  /\ ipc[i] = "locked"
  /\ ReleaseLocks(i)
  /\ ToIrp(i, "idle")
  /\ UNCHANGED <<name, count, workVars, clientVars, alive, stopped,
                 volume>>

(* A rename that must wait for an oplock break lets go of its locks and    *)
(* starts again.                                                           *)
Retry(i) ==
  /\ ipc[i] = "locked"
  /\ i \in Renames
  /\ ReleaseLocks(i)
  /\ ToIrp(i, "exclusive")
  /\ UNCHANGED <<name, count, workVars, clientVars, alive, stopped,
                 volume>>

(* User mode answers: the completion of a successful rename changes the    *)
(* name of the file node.                                                  *)
Answer(i) ==
  /\ ipc[i] = "posted"
  /\ alive
  /\ stopped = "no"
  /\ name' \in IF i \in Renames THEN Names ELSE {name}
  /\ ReleaseLocks(i)
  /\ ToIrp(i, "idle")
  /\ UNCHANGED <<count, workVars, clientVars, alive, stopped, volume>>

(* A request that user mode has not fetched yet is cancelled or expires;   *)
(* one that it has, does not: nobody but user mode and FspIoqStop takes it *)
(* out of the Process queue (FSP_IOQ_PROCESS_NO_CANCEL).                   *)
Expire(i) ==
  /\ ipc[i] = "posted"
  /\ ReleaseLocks(i)
  /\ ToIrp(i, "idle")
  /\ UNCHANGED <<name, count, workVars, clientVars, alive, stopped,
                 volume>>

(* FspIoqStop with CancelIrps completes what is left in the Ioq.           *)
Drain(i) ==
  /\ ipc[i] = "posted"
  /\ stopped = "stop"
  /\ ReleaseLocks(i)
  /\ ToIrp(i, "idle")
  /\ UNCHANGED <<name, count, workVars, clientVars, alive, stopped,
                 volume>>

-----------------------------------------------------------------------------
(* The file system: NotifyBegin, Notify, NotifyEnd. *)

ToCall(c, label) == call' = [call EXCEPT ![c] = label]

(* A thread enters FSP_FSCTL_NOTIFY.  fsp_fuse_notify does so without a    *)
(* session; a faulty file system may end a session it never began.         *)
Enter(c, label) ==
  /\ alive
  /\ call[c] = "none"
  /\ CASE label = "begin" -> ~in[c]
       [] label = "notify" -> in[c] \/ "bare" \in Features
       [] label = "end" -> in[c] \/ "unbalanced" \in Features
  /\ label # "end" \/ ~in[c] => budget > 0
  /\ budget' = IF label # "end" \/ ~in[c] THEN budget - 1 ELSE budget
  /\ ToCall(c, label)
  /\ UNCHANGED <<lockVars, name, count, ipc, workVars, in, alive, stopped,
                 volume>>

(* FspVolumeNotifyLock, under VolumeNotifyMutex.  FspFileSystemNotifyBegin *)
(* tries STATUS_CANT_WAIT again until its timeout.                         *)
Begin(c) ==
  /\ call[c] = "begin"
  /\ \/ /\ count = 0 /\ CanShare
        /\ shared' = shared \union {Session}
        /\ count' = 1
     \/ /\ count > 0
        /\ count' = count + 1
        /\ UNCHANGED shared
     \/ /\ count = -1
        /\ UNCHANGED <<shared, count>>
  /\ in' = [in EXCEPT ![c] = TRUE]
  /\ ToCall(c, "none")
  /\ UNCHANGED <<exclusive, node, name, ipc, workVars, budget, alive,
                 stopped, volume>>

GiveUp(c) ==
  /\ call[c] = "begin"
  /\ count = 0 /\ ~CanShare
  /\ ToCall(c, "none")
  /\ UNCHANGED <<lockVars, name, count, ipc, workVars, in, budget, alive,
                 stopped, volume>>

(* Mutant: the failure path forgets to release VolumeDeleteResource.       *)
NotifyLeaking(c) ==
  /\ call[c] \in {"notify", "end"}
  /\ ToCall(c, "none")
  /\ \/ /\ volume = "exists"
        /\ \E w \in Works \ Busy :
             /\ wname' = [wname EXCEPT ![w] = name]
             /\ \/ ToWork(w, call[c])
                \/ ToWork(w, "leaked")
        /\ in' = [in EXCEPT ![c] = @ /\ call[c] # "end"]
     \/ /\ volume = "deleted"
        /\ UNCHANGED <<workVars, in>>
  /\ UNCHANGED <<lockVars, name, count, ipc, budget, alive, stopped,
                 volume>>

(* FspVolumeNotify: the work item takes VolumeDeleteResource along, unless *)
(* the volume is deleted or there is no memory.                            *)
Notify(c) ==
  /\ call[c] \in {"notify", "end"}
  /\ ToCall(c, "none")
  /\ \/ /\ volume = "exists"
        /\ \E w \in Works \ Busy :
             /\ ToWork(w, call[c])
             /\ wname' = [wname EXCEPT ![w] = name]
        /\ in' = [in EXCEPT ![c] = @ /\ call[c] # "end"]
     \/ /\ volume = "exists" => "nomem" \in Features
        /\ volume \in {"exists", "deleted"}
        /\ UNCHANGED <<workVars, in>>
  /\ UNCHANGED <<lockVars, name, count, ipc, budget, alive, stopped,
                 volume>>

-----------------------------------------------------------------------------
(* FspVolumeNotifyWork.  A system worker thread may run any work item.     *)

(* Mutant: the plain shared acquisition.                                   *)
WorkLockPlainly(w) ==
  /\ wpc[w] \in {"notify", "end"}
  /\ CanShare
  /\ shared' = shared \union {w}
  /\ ToWork(w, IF wpc[w] = "end" THEN "locked" ELSE "lookup")
  /\ UNCHANGED <<exclusive, node, name, count, ipc, wname,
                 clientVars, alive, stopped, volume>>

(* Mutant: no lock at all.                                                 *)
WorkLockNot(w) ==
  /\ wpc[w] \in {"notify", "end"}
  /\ ToWork(w, IF wpc[w] = "end" THEN "locked" ELSE "lookup")
  /\ UNCHANGED <<lockVars, name, count, ipc, wname, clientVars,
                 alive, stopped, volume>>

(* FspFsvolDeviceFileRenameAcquireSharedStarveExclusive.                   *)
WorkLock(w) ==
  /\ wpc[w] \in {"notify", "end"}
  /\ CanShareStarving
  /\ shared' = shared \union {w}
  /\ ToWork(w, IF wpc[w] = "end" THEN "locked" ELSE "lookup")
  /\ UNCHANGED <<exclusive, node, name, count, ipc, wname,
                 clientVars, alive, stopped, volume>>

(* FspFileNodeInvalidateCachesAndNotifyChangeByName finds the file open    *)
(* under the name, or not...                                               *)
WorkLookup(w) ==
  /\ wpc[w] = "lookup"
  /\ ToWork(w, IF wname[w] = name THEN "node" ELSE "release")
  /\ UNCHANGED <<lockVars, name, count, ipc, wname, clientVars,
                 alive, stopped, volume>>

(* ... locks it, invalidates its caches and lets it go again.              *)
WorkInvalidate(w) ==
  /\ wpc[w] = "node"
  /\ node = None
  /\ ToWork(w, "release")
  /\ UNCHANGED <<lockVars, name, count, ipc, wname, clientVars,
                 alive, stopped, volume>>

WorkRelease(w) ==
  /\ wpc[w] \in {"release", "locked"}
  /\ shared' = shared \ {w}
  /\ ToWork(w, IF wpc[w] = "locked" THEN "unlock" ELSE "finish")
  /\ UNCHANGED <<exclusive, node, name, count, ipc, wname,
                 clientVars, alive, stopped, volume>>

(* Mutant: the lock goes with the first NotifyEnd, not with the last.      *)
WorkUnlockFirst(w) ==
  /\ wpc[w] = "unlock"
  /\ ToWork(w, "finish")
  /\ IF count > 0
     THEN /\ shared' = shared \ {Session}
          /\ count' = count - 1
     ELSE UNCHANGED <<shared, count>>
  /\ UNCHANGED <<exclusive, node, name, ipc, wname, clientVars,
                 alive, stopped, volume>>

(* The work item of NotifyEnd gives the lock of the session back with the  *)
(* last session, under VolumeNotifyMutex.                                  *)
WorkUnlock(w) ==
  /\ wpc[w] = "unlock"
  /\ ToWork(w, "finish")
  /\ \/ /\ count = 1
        /\ shared' = shared \ {Session}
        /\ count' = 0
     \/ /\ count > 1
        /\ count' = count - 1
        /\ UNCHANGED shared
     \/ /\ count < 1
        /\ UNCHANGED <<shared, count>>
  /\ UNCHANGED <<exclusive, node, name, ipc, wname, clientVars,
                 alive, stopped, volume>>

(* The work item gives VolumeDeleteResource back.                          *)
WorkFinish(w) ==
  /\ wpc[w] = "finish"
  /\ ToWork(w, "free")
  /\ UNCHANGED <<lockVars, name, count, ipc, wname, clientVars,
                 alive, stopped, volume>>

-----------------------------------------------------------------------------
(* The end of the volume. *)

(* FSP_FSCTL_STOP0, and FSP_FSCTL_STOP after it.                           *)
Stop ==
  /\ alive
  /\ "stop" \in Features
  /\ stopped # "stop"
  /\ stopped' = IF stopped = "no" THEN "stop0" ELSE "stop"
  /\ UNCHANGED <<lockVars, name, count, ipc, workVars, clientVars, alive,
                 volume>>

(* The volume handle is closed: by FspFileSystemDelete after the Ioq has   *)
(* been stopped, with other threads perhaps still in a call, or by the     *)
(* system when the process terminates, which ends all its calls first.     *)
Close ==
  /\ alive
  /\ \/ stopped = "stop" /\ \A i \in Irps : ipc[i] # "posted"
     \/ "crash" \in Features /\ \A c \in Clients : call[c] = "none"
  /\ alive' = FALSE
  /\ volume' = "closed"
  /\ UNCHANGED <<lockVars, name, count, ipc, workVars, clientVars, stopped>>

(* FspVolumeDelete locks VolumeDeleteResource exclusive and sets           *)
(* VolumeDeleted, ...                                                      *)
Delete ==
  /\ volume = "closed"
  /\ Busy = {}
  /\ volume' = "deleting"
  /\ UNCHANGED <<lockVars, name, count, ipc, workVars, clientVars, alive,
                 stopped>>

(* ... stops the Ioq, ...                                                  *)
DeleteStop ==
  /\ volume = "deleting"
  /\ volume' = "draining"
  /\ stopped' = "stop"
  /\ UNCHANGED <<lockVars, name, count, ipc, workVars, clientVars, alive>>

(* ... ends the sessions for good and unlocks VolumeDeleteResource.        *)
DeleteSession ==
  /\ volume = "draining"
  /\ \A i \in Irps : ipc[i] # "posted"
  /\ volume' = "deleted"
  /\ shared' = IF count >= 1 THEN shared \ {Session} ELSE shared
  /\ count' = -1
  /\ UNCHANGED <<exclusive, node, name, ipc, workVars, clientVars, alive,
                 stopped>>

-----------------------------------------------------------------------------
IrpStep(i) ==
  \/ AcquireExclusive(i) \/ AcquireShared(i) \/ AcquireNode(i)
  \/ Post(i) \/ Refuse(i) \/ Retry(i) \/ Answer(i)
  \/ Expire(i) \/ Drain(i)

WorkStep(w) ==
  \/ WorkLock(w) \/ WorkLookup(w) \/ WorkInvalidate(w) \/ WorkRelease(w)
  \/ WorkUnlock(w) \/ WorkFinish(w)

DeleteStep == Delete \/ DeleteStop \/ DeleteSession

Next ==
  \/ \E i \in Irps : Issue(i) \/ IrpStep(i)
  \/ \E c \in Clients :
       \/ \E label \in Calls \ {"none"} : Enter(c, label)
       \/ Begin(c) \/ GiveUp(c) \/ Notify(c)
  \/ \E w \in Works : WorkStep(w)
  \/ Stop \/ Close \/ DeleteStep

Spec == Init /\ [][Next]_vars

(* ERESOURCE's serve their waiters in turn, the threads of the system run, *)
(* oplock breaks do not go on for ever, and the file system answers, ends  *)
(* its sessions and, once it began to, finishes shutting down.             *)
KernelFairness ==
  /\ \A i \in Irps :
       /\ SF_vars(AcquireExclusive(i) \/ AcquireShared(i) \/ AcquireNode(i))
       /\ SF_vars(Post(i) \/ Refuse(i))
       /\ WF_vars(Drain(i))
  /\ \A c \in Clients : WF_vars(Begin(c) \/ GiveUp(c) \/ Notify(c))
  /\ \A w \in Works :
       SF_vars(WorkLock(w) \/ WorkInvalidate(w)) /\ WF_vars(WorkStep(w))
  /\ WF_vars(DeleteStep)

FileSystemFairness ==
  /\ \A i \in Irps : WF_vars(Answer(i))
  /\ \A c \in Clients : WF_vars(in[c] /\ Enter(c, "end"))
  /\ WF_vars(stopped = "stop0" /\ Stop)

KernelSpec == Spec /\ KernelFairness
FairSpec == KernelSpec /\ FileSystemFairness

-----------------------------------------------------------------------------
(* Properties. *)

(* The lock of the sessions is held as long as one is counted, however     *)
(* NotifyBegin, the work items of NotifyEnd and the deletion interleave:   *)
(* it is never released twice and never left behind.                       *)
SessionHoldsLock == Session \in shared <=> count >= 1

(* While a notification is being processed the name it looks up is stable: *)
(* no rename is in the hands of user mode, which could complete it between *)
(* the lookup and the invalidation.                                        *)
NameStable ==
  \A w \in Works : wpc[w] \in {"lookup", "node"} =>
    \A i \in Renames : ipc[i] \notin {"node", "locked", "posted"}

(* A request that the file system has left unanswered: its process is      *)
(* gone, and the Ioq has not been stopped.                                 *)
Deserted(i) == ipc[i] = "posted" /\ ~alive /\ stopped # "stop"

NodeDeserted == \E i \in Irps : node = i /\ Deserted(i)

(* So is a rename that waits, with the rename lock, for such a request.    *)
RenameDeserted ==
  \E i \in Renames : exclusive = i /\ (Deserted(i) \/ (ipc[i] = "node" /\ NodeDeserted))

(* A work item waits for a lock that such a request has.  FspVolumeDelete  *)
(* waits for the work item before it stops the Ioq.                        *)
Stuck ==
  \E w \in Works : \/ wpc[w] = "node" /\ NodeDeserted
                   \/ wpc[w] \in {"notify", "end"} /\ RenameDeserted

(* Renames proceed when the sessions have ended or their process has, and  *)
(* no notification waits for a rename that waits for its session (the      *)
(* self-deadlock described at                                              *)
(* FspFsvolDeviceFileRenameAcquireSharedStarveExclusive), unless a crash   *)
(* leaves the deletion stuck, which is to give the session's lock back.    *)
RenamesProceed ==
  \A i \in Renames : ipc[i] = "exclusive" ~> ipc[i] # "exclusive" \/ Stuck

(* Closing the volume handle deletes the volume: always when the file      *)
(* system stopped it first, and when its process ended within sessions,    *)
(* with notifications under way and requests unanswered, but for the one   *)
(* case that FspVolumeDelete does not resolve, a work item that waits for  *)
(* the lock of an unanswered request.                                      *)
VolumeGoes == volume = "closed" ~> volume = "deleted" \/ Stuck

=============================================================================
