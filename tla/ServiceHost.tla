----------------------------- MODULE ServiceHost -----------------------------
(***************************************************************************)
(* A file system process that uses the service infrastructure of the DLL   *)
(* (src/src/dll/service.c): the service loop, the thread that runs         *)
(* FspServiceMain, the control handler, and the thread that                *)
(* FspServiceStopLoop creates when a dispatcher ends by itself.            *)
(*                                                                         *)
(* It is composed with the dispatcher (module FsDispatch) as the file      *)
(* systems of src/tst do it: OnStart starts the dispatcher, OnStop stops   *)
(* it, and DispatcherStopped is FspFileSystemStopServiceIfNecessary.  The  *)
(* service control manager and the console are external: one of them       *)
(* starts the service and asks it to stop.                                 *)
(***************************************************************************)
EXTENDS FsDispatch

VARIABLES
  console,  \* console mode: StartServiceCtrlDispatcherW could not connect
  status,   \* ServiceStatus.dwCurrentState
  accept,   \* ServiceStatus.dwControlsAccepted has SERVICE_ACCEPT_STOP
  asked,    \* the user or the service control manager wants the service to stop
  event,    \* FspServiceConsoleModeEvent is set
  table,    \* FspServiceTable is set
  guard,    \* the thread that owns ServiceStopGuard
  main,     \* progress of FspServiceMain
  at,       \* progress of the threads that stop the service
  old       \* the state that FspServiceStop reverts to

svcVars == <<console, status, accept, asked, event, table, guard, main, at, old>>
dispVars == vars
hostVars == <<vars, svcVars>>

(* The thread in FspServiceLoop, and FspServiceStopLoopThread. *)
Stoppers == {"loop", "stoploop"}
(* The steps of FspServiceStop. *)
StopPCs == {"enter", "check", "pending", "onstop", "stopping", "end"}

HostInit ==
  /\ Init
  /\ console \in BOOLEAN
  /\ status = "stopped" /\ accept = FALSE /\ old = "stopped"
  /\ asked = FALSE /\ event = FALSE
  /\ table = TRUE
  /\ guard = "none"
  /\ main = "new"
  /\ at = [s \in Stoppers |-> IF s = "loop" THEN "wait" ELSE "none"]

GoTo(s, label) == at' = [at EXCEPT ![s] = label]

(* Where FspServiceStop returns to: the control handler of a service       *)
(* returns to StartServiceCtrlDispatcherW.                                 *)
Return(s) == GoTo(s, IF s = "loop" /\ ~console THEN "wait" ELSE "clear")
InStop(s) == at[s] \in StopPCs

(* FspServiceSetStatus: outside of a service, the end of the service is    *)
(* signalled to the loop.                                                  *)
SetStatus(state) ==
  /\ status' = state
  /\ event' = (event \/ (console /\ state = "stopped"))

-----------------------------------------------------------------------------
(* FspServiceMain, on a thread of the service control manager or of        *)
(* FspServiceConsoleModeThread.                                            *)

MainRunning ==
  /\ main = "new"
  /\ SetStatus("running")
  /\ accept' = FALSE
  /\ main' = "onstart"
  /\ UNCHANGED <<dispVars, console, asked, table, guard, at, old>>

OnStart ==
  /\ main = "onstart"
  /\ StartStep
  /\ UNCHANGED svcVars

MainStarted ==
  /\ main = "onstart"
  /\ app \notin {"new", "create", "assign"}
  /\ main' = "end"
  /\ IF app = "nostart"
     THEN SetStatus("stopped") /\ UNCHANGED accept
     ELSE SetStatus("running") /\ accept' = TRUE
  /\ UNCHANGED <<dispVars, console, asked, table, guard, at, old>>

-----------------------------------------------------------------------------
(* FspServiceStop.  A service that is being stopped is left alone.         *)

TryEnter(s) ==
  /\ at[s] = "enter"
  /\ IF guard = "none"
     THEN guard' = s /\ GoTo(s, "check")
     ELSE UNCHANGED guard /\ Return(s)
  /\ UNCHANGED <<dispVars, console, status, accept, asked, event, table, main, old>>

CheckStopped(s) ==
  /\ at[s] = "check"
  /\ GoTo(s, IF status = "stopped" THEN "end" ELSE "pending")
  /\ UNCHANGED <<dispVars, console, status, accept, asked, event, table, guard, main, old>>

StopPending(s) ==
  /\ at[s] = "pending"
  /\ old' = status
  /\ SetStatus("stop pending")
  /\ GoTo(s, "onstop")
  /\ UNCHANGED <<dispVars, console, accept, asked, table, guard, main>>

(* OnStop: FspFileSystemStopDispatcher does nothing without a thread.      *)
OnStop(s) ==
  /\ at[s] = "onstop"
  /\ IF handle THEN StopBegin ELSE UNCHANGED dispVars
  /\ GoTo(s, "stopping")
  /\ UNCHANGED <<console, status, accept, asked, event, table, guard, main, old>>

OnStopFails(s) ==
  /\ at[s] = "onstop"
  /\ SetStatus(old)
  /\ GoTo(s, "end")
  /\ UNCHANGED <<dispVars, console, accept, asked, table, guard, main, old>>

OnStopStep ==
  /\ \E s \in Stoppers : at[s] = "stopping"
  /\ StopStep
  /\ UNCHANGED svcVars

Stopped(s) ==
  /\ at[s] = "stopping"
  /\ app \notin {"stop0", "wait", "stop", "unflag"}
  /\ SetStatus("stopped")
  /\ GoTo(s, "end")
  /\ UNCHANGED <<dispVars, console, accept, asked, table, guard, main, old>>

LeaveGuard(s) ==
  /\ at[s] = "end"
  /\ guard' = "none"
  /\ Return(s)
  /\ UNCHANGED <<dispVars, console, status, accept, asked, event, table, main, old>>

-----------------------------------------------------------------------------
(* FspServiceStopLoopThread holds FspServiceTableLock shared while it      *)
(* stops the service; "clear" is where it releases it.                     *)

TableShared == InStop("stoploop") \/ at["stoploop"] = "clear"

StopLoopThread ==
  /\ at["stoploop"] = "lock"
  /\ GoTo("stoploop", IF table THEN "enter" ELSE "done")
  /\ UNCHANGED <<dispVars, console, status, accept, asked, event, table, guard, main, old>>

StopLoopUnlock ==
  /\ at["stoploop"] = "clear"
  /\ GoTo("stoploop", "done")
  /\ UNCHANGED <<dispVars, console, status, accept, asked, event, table, guard, main, old>>

(* Mutant: the service is stopped when it has asked for that itself.       *)
StopServiceSwapped ==
  /\ Told(1)
  /\ told = "normally" => at["loop"] # "clear"
  /\ IF told = "normally" /\ table
     THEN GoTo("stoploop", "lock") \/ GoTo("stoploop", "failed")
     ELSE UNCHANGED at

(* FspFileSystemStopServiceIfNecessary, for which DispatcherStopped stands *)
(* in.  FspServiceStopLoop waits for the lock behind a loop that wants it  *)
(* exclusive, and ignores that its thread cannot be created.               *)
StopServiceIfNecessary ==
  /\ Told(1)
  /\ told = "abnormally" => at["loop"] # "clear"
  /\ IF told = "abnormally" /\ table
     THEN GoTo("stoploop", "lock") \/ GoTo("stoploop", "failed")
     ELSE UNCHANGED at

DispatcherStopped ==
  /\ StopServiceIfNecessary
  /\ UNCHANGED <<console, status, accept, asked, event, table, guard, main, old>>

-----------------------------------------------------------------------------
(* FspServiceLoop, and the requests to stop. *)

(* Mutant: a signal is lost as long as the service is starting.            *)
AskStarted ==
  /\ at["loop"] # "done"
  /\ console \/ (~asked /\ accept /\ status = "running")
  /\ asked' = TRUE
  /\ event' = (event \/ (console /\ accept))
  /\ UNCHANGED <<dispVars, console, status, accept, table, guard, main, at, old>>

(* The console control handler, or a SERVICE_CONTROL_STOP.                 *)
Ask ==
  /\ at["loop"] # "done"
  /\ console \/ (~asked /\ accept /\ status = "running")
  /\ asked' = TRUE
  /\ event' = (event \/ console)
  /\ UNCHANGED <<dispVars, console, status, accept, table, guard, main, at, old>>

(* The control handler of a service runs on the thread of the loop.        *)
Control ==
  /\ at["loop"] = "wait"
  /\ ~console /\ asked
  /\ asked' = FALSE
  /\ GoTo("loop", "enter")
  /\ UNCHANGED <<dispVars, console, status, accept, event, table, guard, main, old>>

(* StartServiceCtrlDispatcherW returns when the service has stopped.       *)
LoopService ==
  /\ at["loop"] = "wait"
  /\ ~console /\ main # "new" /\ status = "stopped"
  /\ GoTo("loop", "clear")
  /\ UNCHANGED <<dispVars, console, status, accept, asked, event, table, guard, main, old>>

(* Console mode: wait for the startup thread, then for the event.          *)
LoopConsole ==
  /\ at["loop"] = "wait"
  /\ console /\ main = "end" /\ event
  /\ GoTo("loop", "enter")
  /\ UNCHANGED <<dispVars, console, status, accept, asked, event, table, guard, main, old>>

(* Mutant: the loop does not wait for FspServiceTableLock.                 *)
LoopExitEarly ==
  /\ at["loop"] = "clear"
  /\ table' = FALSE
  /\ GoTo("loop", "done")
  /\ UNCHANGED <<dispVars, console, status, accept, asked, event, guard, main, old>>

(* Exclusive use of FspServiceTableLock; FspServiceDelete follows.         *)
LoopExit ==
  /\ at["loop"] = "clear"
  /\ ~TableShared
  /\ table' = FALSE
  /\ GoTo("loop", "done")
  /\ UNCHANGED <<dispVars, console, status, accept, asked, event, guard, main, old>>

-----------------------------------------------------------------------------
MainStep == MainRunning \/ OnStart \/ MainStarted

StopService(s) ==
  \/ TryEnter(s) \/ CheckStopped(s) \/ StopPending(s) \/ OnStop(s)
  \/ Stopped(s) \/ LeaveGuard(s)

LoopStep == Control \/ LoopService \/ LoopConsole \/ LoopExit

Dispatch ==
  /\ \/ \E k \in Threads : ThreadRuns(k) \/ Receive(k) \/ TransactFails(k)
     \/ SendResponse \/ SendStop0
     \/ Unload
  /\ UNCHANGED svcVars

(* The process is about to exit, and its threads have ended.               *)
Exited ==
  /\ at["loop"] = "done" /\ main = "end" /\ ioq # "running"
  /\ \A k \in Threads : Gone(k)
  /\ pending = 0 /\ sender = "idle"
  /\ at["stoploop"] \in {"none", "failed", "done"}
  /\ UNCHANGED hostVars

HostNext ==
  \/ MainStep \/ OnStopStep \/ LoopStep \/ Ask
  \/ StopLoopThread \/ StopLoopUnlock \/ DispatcherStopped
  \/ \E s \in Stoppers : StopService(s) \/ OnStopFails(s)
  \/ Dispatch
  \/ Exited

HostSpec == HostInit /\ [][HostNext]_hostVars

(* Threads are scheduled and operations return; a TRANSACT call returns    *)
(* when the volume is stopped; OnStart returns.  Nobody need ever ask the  *)
(* service to stop, and the driver need not be unloaded.                   *)
HostFairSpec ==
  /\ HostSpec
  /\ WF_hostVars(MainStep) /\ WF_hostVars(OnStopStep) /\ WF_hostVars(LoopStep)
  /\ WF_hostVars(StopLoopThread \/ StopLoopUnlock) /\ WF_hostVars(DispatcherStopped)
  /\ \A s \in Stoppers : WF_hostVars(StopService(s))
  /\ \A k \in Threads :
       /\ WF_hostVars(ThreadRuns(k) /\ UNCHANGED svcVars)
       /\ WF_hostVars(ioq # "running" /\ TransactFails(k) /\ UNCHANGED svcVars)
  /\ WF_hostVars((SendResponse \/ SendStop0) /\ UNCHANGED svcVars)

-----------------------------------------------------------------------------
(* Properties. *)

(* FspServiceRunEx deletes the service when the loop returns: by then no   *)
(* thread is within FspServiceStop (the thread that the end of a           *)
(* dispatcher creates keeps FspServiceTableLock, service.c:372-380).       *)
LoopOutlivesStop ==
  at["loop"] = "done" => ~InStop("stoploop") /\ guard = "none"

(* A dispatcher that ends by itself stops its service: the stop is tried,  *)
(* unless its thread cannot be created or the loop has ended, and whoever  *)
(* is stopping the service already, or has done it, counts (fsop.c:1887).  *)
EndIsHeard ==
  pc[1] = "telling" /\ told = "abnormally" ~>
    \/ at["stoploop"] = "failed" \/ guard # "none" \/ at["loop"] = "done"
    \/ status \in {"stopped", "stop pending"}

(* In console mode a signal ends the loop, also when the dispatcher ends   *)
(* by itself at the same time, and even when OnStop fails.                 *)
SignalEndsLoop == console /\ asked ~> at["loop"] = "done"

=============================================================================
