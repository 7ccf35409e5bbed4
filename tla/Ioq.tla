-------------------------------- MODULE Ioq --------------------------------
(***************************************************************************)
(* The I/O queue of a file system volume (src/src/sys/ioq.c) and the       *)
(* FSP_FSCTL_TRANSACT loop that drives it (FspVolumeFastTransact in        *)
(* src/src/sys/volume.c).                                                  *)
(*                                                                         *)
(* An IRP is posted to the Pending queue, sent to the user mode file       *)
(* system and moved to the Process queue, and completed when the response  *)
(* comes back; a completion that cannot get its locks is parked on the     *)
(* Retried queue.  All queues share one spin lock and one auto-reset       *)
(* event.  Every action below is one critical section of that spin lock,   *)
(* or a step between two of them; the configuration is the one driver.h    *)
(* compiles: FSP_IOQ_USE_QEVENT and FSP_IOQ_PROCESS_NO_CANCEL.             *)
(*                                                                         *)
(* An element of Irps is the address of an IRP: a completed IRP is free    *)
(* and its address may be reused by the next request, which is what makes  *)
(* stale hints and stale boundary pointers interesting.                    *)
(***************************************************************************)
EXTENDS Naturals, Sequences, SequencesExt, FiniteSets

CONSTANTS
  Irps,                \* addresses of IRPs
  Dispatchers,         \* user mode threads that issue FSP_FSCTL_TRANSACT
  PendingIrpCapacity,  \* Ioq->PendingIrpCapacity
  MaxResponses,        \* bound: responses one TRANSACT call carries
  TrustedUserMode,     \* the file system answers only what it was asked
  Features,            \* bound: what the environment of this instance does
  None                 \* the null IRP pointer

AllFeatures == {"cancel", "expire", "abort", "retry", "park", "stop0", "stop"}

ASSUME IoqAssumption ==
  /\ PendingIrpCapacity \in Nat
  /\ MaxResponses \in Nat
  /\ TrustedUserMode \in BOOLEAN
  /\ Features \subseteq AllFeatures
  /\ None \notin Irps

VARIABLES
  stopped,   \* Ioq->Stopped
  event,     \* Ioq->PendingIrpEvent is signaled
  pending,   \* Ioq->PendingIrpList
  process,   \* Ioq->ProcessIrpList, looked up by hint
  retried,   \* Ioq->RetriedIrpList
  stamp,     \* FspIrpTimestamp: not yet expired, expired, or infinity
  cancel,    \* IRPs with Irp->Cancel set
  inCancel,  \* IRPs whose cancel routine was taken but has not run yet
  parked,    \* how an IRP outside the queues will come back to them
  kicks,     \* IRPs retried by a callback that has not set the event yet
  free,      \* addresses that carry no request
  um,        \* requests the user mode file system has to answer
  pc, held, resps, loop, boundary, sent, \* per TRANSACT call
  drain      \* progress of FspIoqStop with CancelIrps

queues == <<pending, process, retried>>
irpVars == <<stamp, cancel, inCancel>>
callVars == <<pc, held, resps, loop, boundary, sent>>
vars == <<stopped, event, pending, process, retried, stamp, cancel, inCancel,
          parked, kicks, free, um, pc, held, resps, loop, boundary, sent,
          drain>>

Stamps == {"live", "expired", "inf"}
PCs == {"user", "resp", "respHold", "respKick", "retry", "retryHold",
        "retryKick", "wait", "next", "resync", "count", "prep", "loop"}
Drains == {"idle", "pending", "process", "retried", "done"}

(* An IRP outside the queues is in a work item, in the oplock package from *)
(* which it returns to be completed or to be prepared, or in nobody's      *)
(* hands for good.                                                         *)
Parkings == {"no", "work", "complete", "prepare", "lost"}

Init ==
  /\ stopped = FALSE
  /\ event = FALSE
  /\ pending = <<>> /\ process = {} /\ retried = <<>>
  /\ stamp = [i \in Irps |-> "inf"]
  /\ cancel = {} /\ inCancel = {}
  /\ parked = [i \in Irps |-> "no"]
  /\ kicks = {}
  /\ free = Irps
  /\ um = {}
  /\ pc = [d \in Dispatchers |-> "user"]
  /\ held = [d \in Dispatchers |-> None]
  /\ resps = [d \in Dispatchers |-> {}]
  /\ loop = [d \in Dispatchers |-> 0]
  /\ boundary = [d \in Dispatchers |-> None]
  /\ sent = [d \in Dispatchers |-> {}]
  /\ drain = "idle"

-----------------------------------------------------------------------------
(* Building blocks. *)

(* IoCompleteRequest: the address goes back to the free pool. *)
CompleteIrp(i) ==
  /\ free' = free \union {i}
  /\ cancel' = cancel \ {i}
  /\ stamp' = [stamp EXCEPT ![i] = "inf"]

(* FspIoqPendingResetSynch; with a queued event, EventClear is a no-op. *)
ResetSynch(queue) == event' = (event \/ queue # <<>> \/ stopped)

(* FspIoqPendingPeekNextIrp under IoCsqRemoveNextIrp with an IrpHint: the  *)
(* first IRP whose cancel routine can still be taken back, unless the      *)
(* boundary IRP comes first.                                               *)
NextPending(b) ==
  {k \in 1 .. Len(pending) :
     /\ ~stopped
     /\ pending[k] \notin inCancel
     /\ \A j \in 1 .. k : pending[j] # b
     /\ \A j \in 1 .. (k - 1) : pending[j] \in inCancel}

(* The same with an ExpirationTime: the first IRP with a finite timestamp, *)
(* if that one has expired.                                                *)
NextExpired ==
  {k \in 1 .. Len(pending) :
     /\ ~stopped
     /\ pending[k] \notin inCancel
     /\ stamp[pending[k]] = "expired"
     /\ \A j \in 1 .. (k - 1) :
          \/ stamp[pending[j]] = "inf"
          \/ stamp[pending[j]] = "expired" /\ pending[j] \in inCancel}

(* The same without a PeekContext, as FspIoqStop uses it. *)
NextAny ==
  {k \in 1 .. Len(pending) :
     /\ pending[k] \notin inCancel
     /\ \A j \in 1 .. (k - 1) : pending[j] \in inCancel}

(* Mutant: no wake-up. *)
InsertPendingSilently(i, s) ==
  /\ UNCHANGED <<event, cancel>>
  /\ i \notin cancel
  /\ pending' = Append(pending, i)
  /\ stamp' = [stamp EXCEPT ![i] = s]
  /\ free' = free \ {i}

(* FspIoqPostIrpEx.  Best effort posts ignore the capacity.  An IRP that   *)
(* is already cancelled is taken out again and completed by                *)
(* IoCsqInsertIrpEx, with the event set.                                   *)
Accepts(bestEffort) ==
  ~stopped /\ (bestEffort \/ Len(pending) < PendingIrpCapacity)

InsertPending(i, s) ==
  /\ event' = TRUE
  /\ \/ /\ i \notin cancel
        /\ pending' = Append(pending, i)
        /\ stamp' = [stamp EXCEPT ![i] = s]
        /\ UNCHANGED cancel
        /\ free' = free \ {i}
     \/ /\ i \in cancel
        /\ CompleteIrp(i)
        /\ UNCHANGED pending

(* Mutant: a stopped queue accepts retried IRPs. *)
InsertRetriedStopped(i) ==
  /\ retried' = Append(retried, i)
  /\ stamp' = [stamp EXCEPT ![i] = "inf"]

(* FspIoqRetryCompleteIrp, its first critical section. *)
InsertRetried(i) ==
  /\ ~stopped
  /\ retried' = Append(retried, i)
  /\ stamp' = [stamp EXCEPT ![i] = "inf"]

-----------------------------------------------------------------------------
(* Requests and what happens to them outside TRANSACT. *)

(* A MajorFunction handler, or a work item, posts a new request.  Its      *)
(* timestamp is computed ahead of taking the queue lock and may expire     *)
(* before it is inserted.  A refused request is completed at once          *)
(* (FSP_LEAVE_MJ), and so is one that is cancelled before it is posted,    *)
(* with the event set for nothing.                                         *)
PostIrp(i, s) ==
  /\ i \in free
  /\ s = "expired" => "expire" \in Features
  /\ Accepts(s = "inf")
  /\ \/ InsertPending(i, s)
     \/ /\ "cancel" \in Features
        /\ event' = TRUE
        /\ UNCHANGED <<pending, stamp, cancel, free>>
  /\ UNCHANGED <<stopped, process, retried, inCancel, parked, kicks, um,
                 callVars, drain>>

(* Time passes. *)
Expire(i) ==
  /\ "expire" \in Features
  /\ i \in Range(pending)
  /\ stamp[i] = "live"
  /\ stamp' = [stamp EXCEPT ![i] = "expired"]
  /\ UNCHANGED <<stopped, event, queues, cancel, inCancel, parked, kicks,
                 free, um, callVars, drain>>

(* IoCancelIrp: sets Irp->Cancel and takes the cancel routine, which only  *)
(* IRPs on the Pending queue have.                                         *)
Cancel(i) ==
  /\ "cancel" \in Features
  /\ i \notin free \union cancel
  /\ cancel' = cancel \union {i}
  /\ inCancel' = IF i \in Range(pending) THEN inCancel \union {i} ELSE inCancel
  /\ UNCHANGED <<stopped, event, queues, stamp, parked, kicks, free, um,
                 callVars, drain>>

(* The cancel routine gets the queue lock, removes and completes the IRP. *)
CancelRoutine(i) ==
  /\ i \in inCancel
  /\ inCancel' = inCancel \ {i}
  /\ \E k \in 1 .. Len(pending) :
       pending[k] = i /\ pending' = RemoveAt(pending, k)
  /\ ResetSynch(pending')
  /\ CompleteIrp(i)
  /\ UNCHANGED <<stopped, process, retried, parked, kicks, um, callVars,
                 drain>>

(* FspIoqRemoveExpired, one turn of its loop.  The Process and Retried     *)
(* queues are exempt under FSP_IOQ_PROCESS_NO_CANCEL.                      *)
RemoveExpired ==
  /\ \E k \in NextExpired :
       /\ pending' = RemoveAt(pending, k)
       /\ CompleteIrp(pending[k])
  /\ ResetSynch(pending')
  /\ UNCHANGED <<stopped, process, retried, inCancel, parked, kicks, um,
                 callVars, drain>>

(* The work item, or the oplock package, gives the IRP back through        *)
(* FspIoqRetryCompleteIrp.  When the queue refuses it the work item        *)
(* completes the IRP, but FspFsvolCreateOpenOrOverwriteOplockComplete      *)
(* ignores the result.                                                     *)
UnparkComplete(i) ==
  /\ parked[i] \in {"work", "complete"}
  /\ i \notin kicks
  /\ \/ /\ InsertRetried(i)
        /\ parked' = [parked EXCEPT ![i] = "no"]
        /\ kicks' = kicks \union {i}
        /\ UNCHANGED <<free, cancel>>
     \/ /\ stopped /\ parked[i] = "work"
        /\ parked' = [parked EXCEPT ![i] = "no"]
        /\ CompleteIrp(i)
        /\ UNCHANGED <<retried, kicks>>
     \/ /\ stopped /\ parked[i] = "complete"
        /\ parked' = [parked EXCEPT ![i] = "lost"]
        /\ UNCHANGED <<retried, stamp, kicks, free, cancel>>
  /\ UNCHANGED <<stopped, event, pending, process, inCancel, um, callVars,
                 drain>>

(* The second critical section of FspIoqRetryCompleteIrp outside TRANSACT. *)
Kick(i) ==
  /\ i \in kicks
  /\ kicks' = kicks \ {i}
  /\ event' = TRUE
  /\ UNCHANGED <<stopped, queues, irpVars, parked, free, um, callVars, drain>>

(* A work item may also finish the IRP itself. *)
WorkComplete(i) ==
  /\ parked[i] = "work"
  /\ parked' = [parked EXCEPT ![i] = "no"]
  /\ CompleteIrp(i)
  /\ UNCHANGED <<stopped, event, queues, inCancel, kicks, um, callVars, drain>>

(* The oplock break ends: FspFsvolCreateOpenOrOverwriteOplockComplete      *)
(* posts the IRP again, with best effort, and ignores the result.          *)
UnparkPrepare(i) ==
  /\ parked[i] = "prepare"
  /\ \/ /\ Accepts(TRUE)
        /\ InsertPending(i, "inf")
        /\ parked' = [parked EXCEPT ![i] = "no"]
     \/ /\ ~Accepts(TRUE)
        /\ parked' = [parked EXCEPT ![i] = "lost"]
        /\ UNCHANGED <<event, pending, free, cancel, stamp>>
  /\ UNCHANGED <<stopped, process, retried, inCancel, kicks, um, callVars,
                 drain>>

-----------------------------------------------------------------------------
(* FSP_FSCTL_TRANSACT, the way in: responses and retried completions. *)

Goto(d, label) == pc' = [pc EXCEPT ![d] = label]

(* The user mode file system enters TRANSACT with a batch of responses.    *)
(* An untrusted one may send any hint.                                     *)
Transact(d, hints) ==
  /\ pc[d] = "user"
  /\ Cardinality(hints) <= MaxResponses
  /\ TrustedUserMode => hints \subseteq um
  /\ um' = um \ hints
  /\ resps' = [resps EXCEPT ![d] = hints]
  /\ Goto(d, "resp")
  /\ UNCHANGED <<stopped, event, queues, irpVars, parked, kicks, free, held,
                 loop, boundary, sent, drain>>

(* Mutant: responses are accepted after the queue was stopped. *)
EndProcessingStopped(d, i) ==
  /\ pc[d] = "resp"
  /\ i \in resps[d]
  /\ resps' = [resps EXCEPT ![d] = @ \ {i}]
  /\ IF i \in process
     THEN /\ process' = process \ {i}
          /\ held' = [held EXCEPT ![d] = i]
          /\ Goto(d, "respHold")
     ELSE UNCHANGED <<process, held, pc>>
  /\ UNCHANGED <<stopped, event, pending, retried, irpVars, parked, kicks,
                 free, um, loop, boundary, sent, drain>>

(* FspIoqEndProcessingIrp; an IRP that is not in the Process queue, or any *)
(* IRP of a stopped queue, is a bogus hint.                                *)
EndProcessing(d, i) ==
  /\ pc[d] = "resp"
  /\ i \in resps[d]
  /\ resps' = [resps EXCEPT ![d] = @ \ {i}]
  /\ IF i \in process /\ ~stopped
     THEN /\ process' = process \ {i}
          /\ held' = [held EXCEPT ![d] = i]
          /\ Goto(d, "respHold")
     ELSE UNCHANGED <<process, held, pc>>
  /\ UNCHANGED <<stopped, event, pending, retried, irpVars, parked, kicks,
                 free, um, loop, boundary, sent, drain>>

(* All responses consumed: the retry loop is bounded by the number of IRPs *)
(* that FspIoqRetriedIrpCount sees now.                                    *)
EnterRetry(d) ==
  /\ pc[d] = "resp"
  /\ resps[d] = {}
  /\ loop' = [loop EXCEPT ![d] = Len(retried)]
  /\ Goto(d, "retry")
  /\ UNCHANGED <<stopped, event, queues, irpVars, parked, kicks, free, um,
                 held, resps, boundary, sent, drain>>

(* FspIoqNextCompleteIrp, not beyond the first reposted IRP. *)
CanTakeRetried(d) ==
  /\ 0 < loop[d]
  /\ ~stopped
  /\ retried # <<>>
  /\ Head(retried) # boundary[d]

(* Mutant: the loop counter does not count. *)
NextCompleteUncounted(d) ==
  /\ pc[d] = "retry"
  /\ CanTakeRetried(d)
  /\ retried' = Tail(retried)
  /\ held' = [held EXCEPT ![d] = Head(retried)]
  /\ Goto(d, "retryHold")
  /\ UNCHANGED <<stopped, event, pending, process, irpVars, parked, kicks,
                 free, um, resps, loop, boundary, sent, drain>>

NextComplete(d) ==
  /\ pc[d] = "retry"
  /\ CanTakeRetried(d)
  /\ loop' = [loop EXCEPT ![d] = @ - 1]
  /\ retried' = Tail(retried)
  /\ held' = [held EXCEPT ![d] = Head(retried)]
  /\ Goto(d, "retryHold")
  /\ UNCHANGED <<stopped, event, pending, process, irpVars, parked, kicks,
                 free, um, resps, boundary, sent, drain>>

(* The retry loop ends; without an output buffer the call returns, with    *)
(* one it waits for a request.                                             *)
LeaveRetry(d, label) ==
  /\ pc[d] = "retry"
  /\ ~CanTakeRetried(d)
  /\ Goto(d, label)
  /\ loop' = [loop EXCEPT ![d] = 0]
  /\ boundary' = [boundary EXCEPT ![d] = None]
  /\ UNCHANGED <<stopped, event, queues, irpVars, parked, kicks, free, um,
                 held, resps, sent, drain>>

(* Mutant: the thread keeps using an IRP it has passed on. *)
ReleaseNothing(d) ==
  /\ UNCHANGED held
  /\ Goto(d, CASE pc[d] = "respHold" -> "resp"
               [] pc[d] = "retryHold" -> "retry"
               [] pc[d] = "prep" -> "loop")

(* The IRP in hand leaves the thread, which goes on with its loop. *)
Release(d) ==
  /\ held' = [held EXCEPT ![d] = None]
  /\ Goto(d, CASE pc[d] = "respHold" -> "resp"
               [] pc[d] = "retryHold" -> "retry"
               [] pc[d] = "prep" -> "loop")

Completing(d) == pc[d] \in {"respHold", "retryHold"}

(* A STATUS_PENDING result: remember the first such IRP. *)
Reposted(d) ==
  boundary' = [boundary EXCEPT ![d] = IF @ = None THEN held[d] ELSE @]

(* FspIopDispatchComplete finishes the IRP (FSP_LEAVE_IOC).                *)
DispatchComplete(d) ==
  /\ Completing(d)
  /\ CompleteIrp(held[d])
  /\ Release(d)
  /\ UNCHANGED <<stopped, event, queues, inCancel, parked, kicks, um, resps,
                 loop, boundary, sent, drain>>

(* FspIopDispatchComplete cannot get its locks: FspIoqRetryCompleteIrp     *)
(* inserts the IRP in the Retried queue; the event is set under a second   *)
(* acquisition of the lock.  A stopped queue refuses and the IRP is        *)
(* completed: that is DispatchComplete.                                    *)
DispatchRetry(d) ==
  /\ "retry" \in Features
  /\ Completing(d)
  /\ InsertRetried(held[d])
  /\ Reposted(d)
  /\ held' = [held EXCEPT ![d] = None]
  /\ Goto(d, IF pc[d] = "respHold" THEN "respKick" ELSE "retryKick")
  /\ UNCHANGED <<stopped, event, pending, process, cancel, inCancel, parked,
                 kicks, free, um, resps, loop, sent, drain>>

RetryKick(d) ==
  /\ pc[d] \in {"respKick", "retryKick"}
  /\ event' = TRUE
  /\ Goto(d, IF pc[d] = "respKick" THEN "resp" ELSE "retry")
  /\ UNCHANGED <<stopped, queues, irpVars, parked, kicks, free, um, held,
                 resps, loop, boundary, sent, drain>>

(* A prepare that cannot get its locks (FspIopRetryPrepareIrp), or a       *)
(* create that goes on as an overwrite request, posts the IRP again with   *)
(* best effort.                                                            *)
Repost(d) ==
  /\ "retry" \in Features
  /\ Completing(d) \/ pc[d] = "prep"
  /\ Accepts(TRUE)
  /\ InsertPending(held[d], "inf")
  /\ Reposted(d)
  /\ Release(d)
  /\ UNCHANGED <<stopped, process, retried, inCancel, parked, kicks, um,
                 resps, loop, sent, drain>>

(* The completion of a create, or the preparation of an overwrite, goes on *)
(* outside TRANSACT: in a work item (FspWqRepostIrpWorkItem) or when an    *)
(* oplock break ends (FspFileNodeOplockCheckAsyncEx).                      *)
Park(d, how) ==
  /\ "park" \in Features
  /\ \/ Completing(d) /\ how \in {"work", "complete"}
     \/ pc[d] = "prep" /\ how = "prepare"
  /\ parked' = [parked EXCEPT ![held[d]] = how]
  /\ Reposted(d)
  /\ Release(d)
  /\ UNCHANGED <<stopped, event, queues, irpVars, kicks, free, um, resps,
                 loop, sent, drain>>

-----------------------------------------------------------------------------
(* FSP_FSCTL_TRANSACT, the way out: waiting for and sending requests. *)

(* FspIoqNextPendingIrp with a timeout: the wait consumes the event... *)
Wake(d) ==
  /\ pc[d] = "wait"
  /\ event
  /\ event' = FALSE
  /\ Goto(d, "next")
  /\ UNCHANGED <<stopped, queues, irpVars, parked, kicks, free, um, held,
                 resps, loop, boundary, sent, drain>>

(* ... or ends with STATUS_TIMEOUT and leaves the event alone.  It may do  *)
(* so despite the event when the thread or the TRANSACT IRP is cancelled.  *)
WaitEnds(d) ==
  /\ pc[d] = "wait"
  /\ event => "abort" \in Features
  /\ Goto(d, "user")
  /\ UNCHANGED <<stopped, event, queues, irpVars, parked, kicks, free, um,
                 held, resps, loop, boundary, sent, drain>>

TakePending(d, b) ==
  \E k \in NextPending(b) :
    /\ held' = [held EXCEPT ![d] = pending[k]]
    /\ pending' = RemoveAt(pending, k)
    /\ ResetSynch(pending')

(* The woken thread takes the next pending IRP... *)
NextAfterWait(d) ==
  /\ pc[d] = "next"
  /\ \/ TakePending(d, None) /\ Goto(d, "count")
     \/ /\ NextPending(None) = {}
        /\ Goto(d, "resync")
        /\ UNCHANGED <<held, pending, event>>
  /\ UNCHANGED <<stopped, process, retried, irpVars, parked, kicks, free, um,
                 resps, loop, boundary, sent, drain>>

(* Mutant: the consumed event is not put back. *)
ResyncForgotten(d) ==
  /\ pc[d] = "resync"
  /\ Goto(d, "user")
  /\ UNCHANGED <<stopped, event, queues, irpVars, parked, kicks, free, um,
                 held, resps, loop, boundary, sent, drain>>

(* ... or puts the event back in line with the queue and returns with      *)
(* STATUS_CANCELLED when the queue is stopped, and empty-handed otherwise. *)
Resync(d) ==
  /\ pc[d] = "resync"
  /\ ResetSynch(pending)
  /\ Goto(d, "user")
  /\ UNCHANGED <<stopped, queues, irpVars, parked, kicks, free, um, held,
                 resps, loop, boundary, sent, drain>>

(* LoopCount = FspIoqPendingIrpCount. *)
CountPending(d) ==
  /\ pc[d] = "count"
  /\ loop' = [loop EXCEPT ![d] = Len(pending)]
  /\ Goto(d, "prep")
  /\ UNCHANGED <<stopped, event, queues, irpVars, parked, kicks, free, um,
                 held, resps, boundary, sent, drain>>

(* FspIopDispatchPrepare fails, or cannot get its locks on a stopped       *)
(* queue: FspIopCompleteIrp.                                               *)
PrepareFails(d) ==
  /\ pc[d] = "prep"
  /\ CompleteIrp(held[d])
  /\ Release(d)
  /\ UNCHANGED <<stopped, event, queues, inCancel, parked, kicks, um, resps,
                 loop, boundary, sent, drain>>

(* TRANSACT returns to user mode: the requests it carries are delivered on *)
(* success only.                                                           *)
Return(d, delivered) ==
  /\ um' = um \union delivered
  /\ sent' = [sent EXCEPT ![d] = {}]
  /\ loop' = [loop EXCEPT ![d] = 0]
  /\ boundary' = [boundary EXCEPT ![d] = None]
  /\ Goto(d, "user")

(* The IRP is prepared: FspIoqStartProcessingIrp.  On a stopped queue the  *)
(* call gives up.  A batch goes on for as long as the output buffer has    *)
(* space, a single request does not.                                       *)
StartProcessing(d) ==
  /\ pc[d] = "prep"
  /\ held' = [held EXCEPT ![d] = None]
  /\ \/ /\ stopped
        /\ CompleteIrp(held[d])
        /\ Return(d, {})
        /\ UNCHANGED process
     \/ /\ ~stopped
        /\ process' = process \union {held[d]}
        /\ stamp' = [stamp EXCEPT ![held[d]] = "inf"]
        /\ \/ Return(d, sent[d] \union {held[d]})
           \/ /\ sent' = [sent EXCEPT ![d] = @ \union {held[d]}]
              /\ Goto(d, "loop")
              /\ UNCHANGED <<um, loop, boundary>>
        /\ UNCHANGED <<free, cancel>>
  /\ UNCHANGED <<stopped, event, pending, retried, inCancel, parked, kicks,
                 resps, drain>>

(* The next pending IRP, not beyond the first reposted one and at most     *)
(* LoopCount times.                                                        *)
NextInLoop(d) ==
  /\ pc[d] = "loop"
  /\ \/ /\ 0 < loop[d]
        /\ TakePending(d, boundary[d])
        /\ loop' = [loop EXCEPT ![d] = @ - 1]
        /\ Goto(d, "prep")
        /\ UNCHANGED <<um, boundary, sent>>
     \/ /\ loop[d] = 0 \/ NextPending(boundary[d]) = {}
        /\ Return(d, sent[d])
        /\ UNCHANGED <<event, pending, held>>
  /\ UNCHANGED <<stopped, process, retried, irpVars, parked, kicks, free,
                 resps, drain>>

-----------------------------------------------------------------------------
(* FspIoqStop. *)

(* FSP_FSCTL_STOP0 and the driver's shutdown: stop, cancel nothing. *)
Stop0 ==
  /\ "stop0" \in Features
  /\ ~stopped
  /\ stopped' = TRUE
  /\ event' = TRUE
  /\ UNCHANGED <<queues, irpVars, parked, kicks, free, um, callVars, drain>>

(* FSP_FSCTL_STOP and the deletion of the volume: stop, then cancel the    *)
(* IRPs of each queue in turn.                                             *)
Stop ==
  /\ "stop" \in Features
  /\ drain = "idle"
  /\ stopped' = TRUE
  /\ event' = TRUE
  /\ drain' = "pending"
  /\ UNCHANGED <<queues, irpVars, parked, kicks, free, um, callVars>>

DrainPending ==
  /\ drain = "pending"
  /\ \/ /\ \E k \in NextAny :
             /\ pending' = RemoveAt(pending, k)
             /\ CompleteIrp(pending[k])
        /\ ResetSynch(pending')
        /\ UNCHANGED drain
     \/ /\ Range(pending) \subseteq inCancel
        /\ drain' = "process"
        /\ UNCHANGED <<event, pending, free, cancel, stamp>>
  /\ UNCHANGED <<stopped, process, retried, inCancel, parked, kicks, um,
                 callVars>>

DrainProcess ==
  /\ drain = "process"
  /\ \/ /\ \E i \in process : process' = process \ {i} /\ CompleteIrp(i)
        /\ UNCHANGED drain
     \/ /\ process = {}
        /\ drain' = "retried"
        /\ UNCHANGED <<process, free, cancel, stamp>>
  /\ UNCHANGED <<stopped, event, pending, retried, inCancel, parked, kicks,
                 um, callVars>>

DrainRetried ==
  /\ drain = "retried"
  /\ \/ /\ retried # <<>>
        /\ retried' = Tail(retried)
        /\ CompleteIrp(Head(retried))
        /\ UNCHANGED drain
     \/ /\ retried = <<>>
        /\ drain' = "done"
        /\ UNCHANGED <<retried, free, cancel, stamp>>
  /\ UNCHANGED <<stopped, event, pending, process, inCancel, parked, kicks,
                 um, callVars>>

-----------------------------------------------------------------------------
(* Everything a TRANSACT call does by itself between entering the kernel   *)
(* and either returning or blocking on the event.                          *)
CallStep(d) ==
  \/ \E i \in resps[d] : EndProcessing(d, i)
  \/ EnterRetry(d) \/ NextComplete(d)
  \/ \E label \in {"user", "wait"} : LeaveRetry(d, label)
  \/ DispatchComplete(d) \/ DispatchRetry(d) \/ RetryKick(d) \/ Repost(d)
  \/ \E how \in Parkings : Park(d, how)
  \/ NextAfterWait(d) \/ Resync(d) \/ CountPending(d)
  \/ PrepareFails(d) \/ StartProcessing(d) \/ NextInLoop(d)

(* The callbacks that the system owes an IRP. *)
Callback(i) ==
  \/ CancelRoutine(i) \/ UnparkComplete(i) \/ UnparkPrepare(i)
  \/ WorkComplete(i) \/ Kick(i)

DrainStep == DrainPending \/ DrainProcess \/ DrainRetried

Next ==
  \/ \E i \in Irps :
       \/ \E s \in Stamps : PostIrp(i, s)
       \/ Expire(i) \/ Cancel(i) \/ Callback(i)
  \/ RemoveExpired
  \/ \E d \in Dispatchers :
       \/ \E hints \in SUBSET Irps : Transact(d, hints)
       \/ CallStep(d) \/ Wake(d) \/ WaitEnds(d)
  \/ Stop0 \/ Stop \/ DrainStep

Spec == Init /\ [][Next]_vars

(* The threads of the kernel run; the system delivers its callbacks; the   *)
(* event wakes some waiter.                                                *)
KernelFairness ==
  /\ \A d \in Dispatchers : WF_vars(CallStep(d))
  /\ \A i \in Irps :
       /\ WF_vars(CancelRoutine(i))
       /\ WF_vars(UnparkComplete(i) \/ UnparkPrepare(i) \/ WorkComplete(i))
       /\ WF_vars(Kick(i))
  /\ WF_vars(DrainStep)
  /\ WF_vars(\E d \in Dispatchers : Wake(d))

(* A dispatcher thread calls TRANSACT again and again, and with an output  *)
(* buffer.                                                                 *)
DispatcherFairness ==
  \A d \in Dispatchers :
    /\ WF_vars(\E hints \in SUBSET Irps : Transact(d, hints))
    /\ SF_vars(LeaveRetry(d, "wait"))

KernelSpec == Spec /\ KernelFairness
DispatcherSpec == KernelSpec /\ DispatcherFairness

-----------------------------------------------------------------------------
(* Properties. *)

(* Every variable has its type.  A TRANSACT call holds an IRP exactly      *)
(* between taking it off a queue and passing it on.                        *)
TypeOK ==
  /\ stopped \in BOOLEAN /\ event \in BOOLEAN
  /\ pending \in Seq(Irps) /\ retried \in Seq(Irps)
  /\ process \subseteq Irps
  /\ stamp \in [Irps -> Stamps]
  /\ cancel \subseteq Irps /\ inCancel \subseteq Irps
  /\ kicks \subseteq Irps /\ free \subseteq Irps /\ um \subseteq Irps
  /\ parked \in [Irps -> Parkings]
  /\ pc \in [Dispatchers -> PCs]
  /\ held \in [Dispatchers -> Irps \union {None}]
  /\ resps \in [Dispatchers -> SUBSET Irps]
  /\ sent \in [Dispatchers -> SUBSET Irps]
  /\ loop \in [Dispatchers -> Nat]
  /\ boundary \in [Dispatchers -> Irps \union {None}]
  /\ drain \in Drains

Parked == {i \in Irps : parked[i] # "no"}
HeldIrps == {held[d] : d \in Dispatchers} \ {None}

(* The places own disjoint sets of IRPs, and together all of them.        *)
Exclusive(P, Q, R, H, K, F) ==
  /\ P \union Q \union R \union H \union K \union F = Irps
  /\ P \intersect (Q \union R \union H \union K \union F) = {}
  /\ Q \intersect (R \union H \union K \union F) = {}
  /\ R \intersect (H \union K \union F) = {}
  /\ H \intersect (K \union F) = {}
  /\ K \intersect F = {}

(* An IRP has one owner at a time: it is never completed while a queue, a  *)
(* thread, a work item or the oplock package still has it, never sits in   *)
(* two queues or twice in one, and never disappears from all of them.      *)
OneOwner ==
  /\ Exclusive(Range(pending), process, Range(retried), HeldIrps, Parked, free)
  /\ IsInjective(pending) /\ IsInjective(retried)
  /\ \A d, e \in Dispatchers : d # e /\ held[d] # None => held[d] # held[e]

(* No lost wake-up: whenever the Pending queue has work or the queue is    *)
(* stopped, the event is signaled, or a woken thread is on its way to      *)
(* signal it again (FspIoqPendingResetSynch): nobody sleeps through it.    *)
WakeupNotLost ==
  pending # <<>> \/ stopped =>
    event \/ \E d \in Dispatchers : pc[d] \in {"next", "resync"}

(* After FspIoqStop has cancelled its IRPs the queues stay empty for good: *)
(* no late insertion slips in.  Only IRPs whose cancel routine is already  *)
(* running may still be in the Pending queue.                              *)
StoppedStaysDrained ==
  /\ drain # "idle" => stopped
  /\ drain \in {"process", "retried", "done"} => Range(pending) \subseteq inCancel
  /\ drain \in {"retried", "done"} => process = {}
  /\ drain = "done" => retried = <<>>

(* volume.c says that FSP_FSCTL_STOP cancels all IRPs: none is left behind *)
(* without an owner that will complete it.                                 *)
StopCancelsAll == \A i \in Irps : parked[i] # "lost"

(* The ioq as a service, see IrpService: what has been sent to user mode   *)
(* is neither cancelled nor sent twice, nothing is sent or answered once   *)
(* the queue is stopped.                                                   *)
InHand(d) == pc[d] \in {"count", "prep"}
Standing(i) ==
  CASE i \in free -> "free"
    [] i \in process -> "started"
    [] i \in Range(pending) -> "queued"
    [] \E d \in Dispatchers : InHand(d) /\ held[d] = i -> "queued"
    [] parked[i] = "prepare" -> "queued"
    [] parked[i] = "lost" -> "lost"
    [] OTHER -> "answered"

Service ==
  INSTANCE IrpService WITH standing <- [i \in Irps |-> Standing(i)]

ImplementsService == Service!Spec

(* Upper bounds on the loops guarantee forward progress (volume.c): a      *)
(* TRANSACT call returns or goes to sleep, however often the IRPs it       *)
(* handles are retried, reposted and posted anew meanwhile.                *)
CallProgress ==
  \A d \in Dispatchers : pc[d] \notin {"user", "wait"} ~> pc[d] \in {"user", "wait"}

(* A posted request is taken off the Pending queue, and a retried one off  *)
(* the Retried queue, by the event alone: no timeout of a wait is needed.  *)
PendingServed ==
  \A i \in Irps : i \in Range(pending) ~> i \notin Range(pending) \/ stopped
RetriedServed ==
  \A i \in Irps : i \in Range(retried) ~> i \notin Range(retried) \/ stopped
QueuedServed == PendingServed /\ RetriedServed

=============================================================================
