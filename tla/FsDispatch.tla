----------------------------- MODULE FsDispatch -----------------------------
(***************************************************************************)
(* The dispatcher of a user mode file system (src/src/dll/fs.c): threads   *)
(* that create one another in a chain, each of which transacts with the    *)
(* volume until a call fails, and the protocol that stops them.            *)
(*                                                                         *)
(* The volume is abstract: FSP_FSCTL_STOP0 stops its Ioq, so that TRANSACT *)
(* fails from then on, and FSP_FSCTL_STOP also cancels the requests that   *)
(* user mode has not answered yet (module Ioq).  An application starts and *)
(* stops the dispatcher once; the driver may be unloaded at any moment.    *)
(* Module ServiceHost runs the dispatcher in a service; the properties     *)
(* below are checked there.                                                *)
(***************************************************************************)
EXTENDS Integers

CONSTANTS
  ThreadCount,  \* FileSystem->DispatcherThreadCount at the start
  MaxPending    \* bound: requests answered by FspFileSystemSendResponse

ASSUME FsDispatchAssumption ==
  /\ ThreadCount \in Nat \ {0}
  /\ MaxPending \in Nat

VARIABLES
  app,       \* progress of the thread that starts and stops the dispatcher
  handle,    \* FileSystem->DispatcherThread is set
  count,     \* FileSystem->DispatcherThreadCount
  stopping,  \* FileSystem->DispatcherStopping
  result,    \* FileSystem->DispatcherResult
  pc,        \* progress of each dispatcher thread
  child,     \* DispatcherThread, the local handle, is set
  err,       \* Result of each thread
  told,      \* what DispatcherStopped was called with
  pending,   \* requests that were answered with STATUS_PENDING
  sender,    \* progress of the thread that answers these
  ioq        \* the volume

threadVars == <<pc, child, err>>
appVars == <<app, handle, stopping>>
sendVars == <<pending, sender>>
vars == <<app, handle, count, stopping, result, pc, child, err, told, pending,
          sender, ioq>>

Threads == 1 .. ThreadCount

Init ==
  /\ app = "new" /\ handle = FALSE /\ stopping = FALSE
  /\ count = 0
  /\ result = "success"
  /\ pc = [k \in Threads |-> "none"]
  /\ child = [k \in Threads |-> FALSE]
  /\ err = [k \in Threads |-> "success"]
  /\ told = "nothing"
  /\ pending = 0 /\ sender = "idle"
  /\ ioq = "running"

-----------------------------------------------------------------------------
To(k, label) == pc' = [pc EXCEPT ![k] = label]
Gone(k) == pc[k] \in {"none", "done"}

(* FspFileSystemSetDispatcherResult: the first error wins.                 *)
SetDispatcherResult(e) ==
  result' = IF e # "success" /\ result = "success" THEN e ELSE result

(* FspFsctlStop0 and FspFsctlStop. *)
Stop0 == ioq' = IF ioq = "running" THEN "stopped" ELSE ioq
Stop == ioq' = "cancelled"

-----------------------------------------------------------------------------
(* FspFileSystemStartDispatcher. *)

Start ==
  /\ app = "new"
  /\ count' = ThreadCount
  /\ app' = "create"
  /\ UNCHANGED <<handle, stopping, result, threadVars, told, sendVars, ioq>>

(* The handle is stored when CreateThread has returned.                    *)
StartCreate ==
  /\ app = "create"
  /\ \/ app' = "assign" /\ To(1, "init")
     \/ app' = "nostart" /\ UNCHANGED pc
  /\ UNCHANGED <<handle, count, stopping, result, child, err, told, sendVars,
                 ioq>>

StartAssign ==
  /\ app = "assign"
  /\ handle' = TRUE
  /\ app' = "started"
  /\ UNCHANGED <<count, stopping, result, threadVars, told, sendVars, ioq>>

-----------------------------------------------------------------------------
(* FspFileSystemDispatcherThread. *)

Alloc(k) ==
  /\ pc[k] = "init"
  /\ \/ /\ To(k, IF count > 1 THEN "create" ELSE "transact")
        /\ UNCHANGED err
     \/ /\ To(k, "result")
        /\ err' = [err EXCEPT ![k] = "resources"]
  /\ UNCHANGED <<appVars, count, result, child, told, sendVars, ioq>>

CreateChild(k) ==
  /\ pc[k] = "create"
  /\ count' = count - 1
  /\ \/ /\ pc' = [pc EXCEPT ![k] = "transact", ![k + 1] = "init"]
        /\ child' = [child EXCEPT ![k] = TRUE]
        /\ UNCHANGED err
     \/ /\ To(k, "result")
        /\ err' = [err EXCEPT ![k] = "resources"]
        /\ UNCHANGED child
  /\ UNCHANGED <<appVars, result, told, sendVars, ioq>>

(* A TRANSACT call that returns without a request is not a step.           *)
Receive(k) ==
  /\ pc[k] = "transact"
  /\ ioq = "running"
  /\ To(k, "operate")
  /\ UNCHANGED <<appVars, count, result, child, err, told, sendVars, ioq>>

(* The operation answers, or arranges for its answer to be sent later.     *)
Operate(k) ==
  /\ pc[k] = "operate"
  /\ To(k, "transact")
  /\ \/ UNCHANGED pending
     \/ pending < MaxPending /\ pending' = pending + 1
  /\ UNCHANGED <<appVars, count, result, child, err, told, sender, ioq>>

(* TRANSACT fails because the volume was stopped, or otherwise.            *)
TransactFails(k) ==
  /\ pc[k] = "transact"
  /\ err' = [err EXCEPT ![k] = IF ioq = "running" THEN "failed" ELSE "cancelled"]
  /\ To(k, "result")
  /\ UNCHANGED <<appVars, count, result, child, told, sendVars, ioq>>

Exit(k) ==
  /\ pc[k] = "result"
  /\ SetDispatcherResult(err[k])
  /\ To(k, "stop0")
  /\ UNCHANGED <<appVars, count, child, err, told, sendVars, ioq>>

(* Mutant: a thread that fails leaves the others to themselves.            *)
ExitQuietly(k) ==
  /\ pc[k] = "stop0"
  /\ To(k, IF child[k] THEN "wait" ELSE "tell")
  /\ UNCHANGED <<appVars, count, result, child, err, told, sendVars, ioq>>

ExitStop0(k) ==
  /\ pc[k] = "stop0"
  /\ Stop0
  /\ To(k, IF child[k] THEN "wait" ELSE "tell")
  /\ UNCHANGED <<appVars, count, result, child, err, told, sendVars>>

(* Mutant: the thread does not wait for the one it created.                *)
WaitChildNot(k) ==
  /\ pc[k] = "wait"
  /\ To(k, "tell")
  /\ UNCHANGED <<appVars, count, result, child, err, told, sendVars, ioq>>

WaitChild(k) ==
  /\ pc[k] = "wait"
  /\ pc[k + 1] = "done"
  /\ To(k, "tell")
  /\ UNCHANGED <<appVars, count, result, child, err, told, sendVars, ioq>>

(* The thread whose handle is FileSystem->DispatcherThread calls           *)
(* DispatcherStopped, whose return is a step of its own.                   *)
Tell(k) ==
  /\ pc[k] = "tell"
  /\ IF handle /\ k = 1
     THEN told' = (IF stopping THEN "normally" ELSE "abnormally") /\ To(k, "telling")
     ELSE UNCHANGED told /\ To(k, "done")
  /\ UNCHANGED <<appVars, count, result, child, err, sendVars, ioq>>

Told(k) ==
  /\ pc[k] = "telling"
  /\ To(k, "done")
  /\ UNCHANGED <<appVars, count, result, child, err, told, sendVars, ioq>>

-----------------------------------------------------------------------------
(* FspFileSystemStopDispatcher. *)

StopBegin ==
  /\ app = "started"
  /\ stopping' = TRUE
  /\ app' = "stop0"
  /\ UNCHANGED <<handle, count, result, threadVars, told, sendVars, ioq>>

(* Mutant: the dispatcher threads are not stopped before they are awaited. *)
StopStop0Not ==
  /\ app = "stop0"
  /\ app' = "wait"
  /\ UNCHANGED <<handle, stopping, count, result, threadVars, told, sendVars,
                 ioq>>

StopStop0 ==
  /\ app = "stop0"
  /\ Stop0
  /\ app' = "wait"
  /\ UNCHANGED <<handle, stopping, count, result, threadVars, told, sendVars>>

(* Mutant: the original protocol, which cancels the requests at once.      *)
StopWaitNot ==
  /\ app = "wait"
  /\ handle' = FALSE
  /\ app' = "stop"
  /\ UNCHANGED <<stopping, count, result, threadVars, told, sendVars, ioq>>

StopWait ==
  /\ app = "wait"
  /\ pc[1] = "done"
  /\ handle' = FALSE
  /\ app' = "stop"
  /\ UNCHANGED <<stopping, count, result, threadVars, told, sendVars, ioq>>

StopStop ==
  /\ app = "stop"
  /\ Stop
  /\ app' = "unflag"
  /\ UNCHANGED <<handle, stopping, count, result, threadVars, told, sendVars>>

StopEnd ==
  /\ app = "unflag"
  /\ stopping' = FALSE
  /\ app' = "stopped"
  /\ UNCHANGED <<handle, count, result, threadVars, told, sendVars, ioq>>

-----------------------------------------------------------------------------
(* FspFileSystemSendResponse. *)

SendResponse ==
  /\ sender = "idle"
  /\ pending > 0
  /\ pending' = pending - 1
  /\ IF ioq = "running"
     THEN UNCHANGED <<result, sender>>
     ELSE SetDispatcherResult("cancelled") /\ sender' = "stop0"
  /\ UNCHANGED <<appVars, count, threadVars, told, ioq>>

SendStop0 ==
  /\ sender = "stop0"
  /\ Stop0
  /\ sender' = "idle"
  /\ UNCHANGED <<appVars, count, result, threadVars, told, pending>>

(* FspDriverUnload stops the volume without cancelling anything.           *)
Unload ==
  /\ ioq = "running"
  /\ Stop0
  /\ UNCHANGED <<appVars, count, result, threadVars, told, sendVars>>

-----------------------------------------------------------------------------
(* What a thread does without waiting for another.                         *)
ThreadRuns(k) ==
  \/ Alloc(k) \/ CreateChild(k) \/ Operate(k)
  \/ Exit(k) \/ ExitStop0(k) \/ WaitChild(k) \/ Tell(k)

StartStep == Start \/ StartCreate \/ StartAssign
StopStep == StopStop0 \/ StopWait \/ StopStop \/ StopEnd

Next ==
  \/ StartStep \/ StopBegin \/ StopStep
  \/ \E k \in Threads : ThreadRuns(k) \/ Receive(k) \/ TransactFails(k) \/ Told(k)
  \/ SendResponse \/ SendStop0
  \/ Unload

Spec == Init /\ [][Next]_vars

-----------------------------------------------------------------------------
(* Properties. *)

(* FSP_FSCTL_STOP cancels requests and frees their buffers; when           *)
(* FspFileSystemStopDispatcher issues it, no dispatcher thread is left     *)
(* that could use them (the shutdown protocol of volume.c:1326-1346).      *)
NoCancelInUse == ioq = "cancelled" => \A k \in Threads : Gone(k)

(* DispatcherStopped is the last operation that a file system receives:    *)
(* the thread that calls it has waited for the chain of all the others     *)
(* (winfsp.h:1074).                                                        *)
LastOperation ==
  told # "nothing" => \A k \in Threads : pc[k] # "operate" /\ (k > 1 => Gone(k))

(* FspFileSystemStopDispatcher returns, whatever the threads are at.       *)
StopReturns == app = "stop0" ~> app = "stopped"

(* When one thread of the dispatcher fails all of them end: the one it     *)
(* created, for which it waits, and those that came before it.             *)
AllEnd ==
  \A k \in Threads : pc[k] = "result" ~> \A j \in Threads : Gone(j)

=============================================================================
