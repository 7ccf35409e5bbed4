-------------------------- MODULE ServiceHostProofs --------------------------
(***************************************************************************)
(* Theorems about FsDispatch and ServiceHost and their proofs: the chain   *)
(* of dispatcher threads ends before its requests are cancelled and before *)
(* DispatcherStopped is called, for every number of threads; the service   *)
(* only ever runs the dispatcher as FsDispatch allows it to be run; and    *)
(* the service loop outlives whoever stops the service.                    *)
(***************************************************************************)
EXTENDS ServiceHost, TLAPS

-----------------------------------------------------------------------------
(* The inductive invariant of the dispatcher. *)

ThreadPCs == {"none", "init", "create", "transact", "operate", "result", "stop0",
              "wait", "tell", "telling", "done"}
AppPCs == {"new", "create", "assign", "nostart", "started", "stop0", "wait", "stop",
           "unflag", "stopped"}

TypeOK ==
  /\ app \in AppPCs
  /\ handle \in BOOLEAN
  /\ count \in Int
  /\ pc \in [Threads -> ThreadPCs]
  /\ child \in [Threads -> BOOLEAN]

(* No thread exists before the first was created; it is the last that      *)
(* ends, and only then FspFileSystemStopDispatcher goes on.                *)
FirstThread ==
  /\ app \in {"new", "create", "nostart"} => \A k \in Threads : pc[k] = "none"
  /\ app \in {"assign", "started", "stop0", "wait"} => pc[1] # "none"
  /\ app = "create" => count = ThreadCount
  /\ app \in {"stop", "unflag", "stopped"} => pc[1] = "done"

(* The one thread that has not yet decided whether to create another knows *)
(* from DispatcherThreadCount how many are left to create.                 *)
Creating ==
  \A k \in Threads : pc[k] \in {"init", "create"} =>
    /\ ~child[k]
    /\ count = ThreadCount - k + 1
    /\ pc[k] = "create" => count > 1

(* A thread has a handle of the one after it if and only if there is one.  *)
Chain ==
  \A k \in Threads :
    /\ child[k] => k + 1 \in Threads
    /\ k + 1 \in Threads => (child[k] <=> pc[k + 1] # "none")
    /\ pc[k] = "none" => ~child[k] /\ \A j \in Threads : j > k => pc[j] = "none"

(* A thread ends after the threads that come after it.                     *)
Ending ==
  \A k \in Threads :
    /\ pc[k] = "wait" => child[k]
    /\ pc[k] \in {"tell", "telling", "done"} =>
         \A j \in Threads : j > k => Gone(j)

(* Requests are cancelled by FspFileSystemStopDispatcher alone, and        *)
(* DispatcherStopped is called by the first thread alone.                  *)
Last ==
  /\ ioq = "cancelled" => app \in {"unflag", "stopped"}
  /\ told # "nothing" => pc[1] \in {"telling", "done"}

IInv == TypeOK /\ FirstThread /\ Creating /\ Chain /\ Ending /\ Last

LEMMA InitInv == Init => IInv
<1> SUFFICES ASSUME Init PROVE IInv
  OBVIOUS
<1> USE FsDispatchAssumption DEF Init, Threads
<1>1. TypeOK
  <2>1. app \in AppPCs /\ count \in Int /\ pc \in [Threads -> ThreadPCs]
    BY DEF ThreadPCs, AppPCs
  <2>2. handle \in BOOLEAN /\ child \in [Threads -> BOOLEAN]
    BY Zenon
  <2> QED BY <2>1, <2>2 DEF TypeOK
<1>2. FirstThread /\ Last
  BY DEF FirstThread, Last
<1>3. Creating /\ Chain /\ Ending
  BY DEF Creating, Chain, Ending
<1> QED BY <1>1, <1>2, <1>3 DEF IInv

-----------------------------------------------------------------------------
(* The steps of the dispatcher. *)

(* A step of an existing thread that creates no other.                     *)
Moves(k, label) ==
  /\ To(k, label) /\ pc[k] \notin {"none", "done"}
  /\ label \in ThreadPCs \ {"none", "init"}
  /\ UNCHANGED <<app, handle, count, child>>
  /\ label = "create" => pc[k] = "init" /\ count > 1
  /\ label = "wait" => child[k]
  /\ label \in {"tell", "telling", "done"} => \A j \in Threads : j > k => Gone(j)
  /\ k = 1 /\ pc[1] = "telling" => label = "done"
  /\ told' = told \/ (k = 1 /\ label = "telling")
  /\ ioq' = "cancelled" => ioq = "cancelled"

LEMMA MoveInv ==
  ASSUME IInv, NEW k \in Threads, NEW label, Moves(k, label)
  PROVE  IInv'
<1> USE FsDispatchAssumption DEF IInv, To, Threads, Moves
<1>0. 1 \in Threads /\ pc' \in [Threads -> ThreadPCs]
  BY DEF TypeOK
<1>1. TypeOK'
  BY <1>0 DEF TypeOK
<1>2. FirstThread'
  BY <1>0 DEF TypeOK, FirstThread
<1>3. Creating'
  BY DEF TypeOK, Creating
<1>4. Chain'
  BY DEF TypeOK, Chain
<1>5. Ending'
  BY DEF TypeOK, Ending, Gone
<1>6. Last'
  BY <1>0 DEF TypeOK, Last
<1> QED BY <1>1, <1>2, <1>3, <1>4, <1>5, <1>6

LEMMA CreateChildInv ==
  ASSUME IInv, NEW k \in Threads, CreateChild(k)
  PROVE  IInv'
<1> USE FsDispatchAssumption DEF CreateChild, IInv, Threads, appVars, sendVars
<1>1. /\ pc[k] = "create" /\ count = ThreadCount - k + 1 /\ count > 1 /\ ~child[k]
      /\ k + 1 \in Threads /\ pc[k + 1] = "none" /\ ~child[k + 1]
      /\ app \notin {"create", "new", "nostart"}
  BY DEF TypeOK, Creating, Chain, FirstThread
<1>2. \A j \in Threads : pc[j] \in {"init", "create"} => j = k
  BY <1>1 DEF TypeOK, Creating
<1>3. CASE pc' = [pc EXCEPT ![k] = "transact", ![k + 1] = "init"] /\ child' = [child EXCEPT ![k] = TRUE]
  <2>0. /\ pc' \in [Threads -> ThreadPCs] /\ child' \in [Threads -> BOOLEAN]
        /\ pc'[k] = "transact" /\ pc'[k + 1] = "init" /\ child'[k]
        /\ \A j \in Threads : j # k => child'[j] = child[j] /\ (j # k + 1 => pc'[j] = pc[j])
    BY <1>1, <1>3 DEF TypeOK, ThreadPCs
  <2>1. TypeOK'
    BY <2>0 DEF TypeOK
  <2>2. FirstThread' /\ Last'
    BY <1>1, <2>0 DEF TypeOK, FirstThread, Last
  <2>3. Creating'
    BY <1>1, <1>2, <2>0 DEF TypeOK, Creating
  <2>4. Chain'
    BY <1>1, <2>0 DEF TypeOK, Chain
  <2>5. Ending'
    BY <1>1, <2>0 DEF TypeOK, Ending, Gone, Chain
  <2> QED BY <2>1, <2>2, <2>3, <2>4, <2>5
<1>4. CASE To(k, "result") /\ UNCHANGED child
  <2>0. /\ pc' \in [Threads -> ThreadPCs] /\ pc'[k] = "result"
        /\ \A j \in Threads : j # k => pc'[j] = pc[j]
    BY <1>4 DEF TypeOK, ThreadPCs, To
  <2>1. TypeOK' /\ FirstThread' /\ Last'
    BY <1>1, <1>4, <2>0 DEF TypeOK, FirstThread, Last
  <2>2. Creating' /\ Chain'
    BY <1>1, <1>2, <1>4, <2>0 DEF TypeOK, Creating, Chain
  <2>3. Ending'
    BY <1>1, <1>4, <2>0 DEF TypeOK, Ending, Gone
  <2> QED BY <2>1, <2>2, <2>3
<1> QED BY <1>3, <1>4

LEMMA ThreadInv ==
  ASSUME IInv, NEW k \in Threads,
         ThreadRuns(k) \/ Receive(k) \/ TransactFails(k) \/ Told(k)
  PROVE  IInv'
<1> USE FsDispatchAssumption DEF appVars, sendVars
<1>0. \A j \in Threads : j > k => k + 1 \in Threads /\ (j = k + 1 \/ j > k + 1)
  BY DEF Threads
<1>1. CASE Alloc(k)
  <2>1. Moves(k, "create") \/ Moves(k, "transact") \/ Moves(k, "result")
    BY <1>1 DEF Alloc, Moves, ThreadPCs
  <2> QED BY <2>1, MoveInv
<1>2. CASE CreateChild(k)
  BY <1>2, CreateChildInv
<1>3. CASE Receive(k) \/ Operate(k) \/ TransactFails(k) \/ Exit(k)
  <2>1. Moves(k, "operate") \/ Moves(k, "transact") \/ Moves(k, "result") \/ Moves(k, "stop0")
    BY <1>3 DEF Receive, Operate, TransactFails, Exit, Moves, ThreadPCs
  <2> QED BY <2>1, MoveInv
<1>4. CASE ExitStop0(k)
  <2>1. ~child[k] => \A j \in Threads : j > k => Gone(j)
    BY <1>0 DEF IInv, Chain, Gone
  <2>2. Moves(k, "wait") \/ Moves(k, "tell")
    BY <1>4, <2>1 DEF ExitStop0, Stop0, Moves, ThreadPCs
  <2> QED BY <2>2, MoveInv
<1>5. CASE WaitChild(k)
  <2>1. \A j \in Threads : j > k => Gone(j)
    BY <1>0, <1>5 DEF WaitChild, IInv, Ending, Gone
  <2>2. Moves(k, "tell")
    BY <1>5, <2>1 DEF WaitChild, Moves, ThreadPCs
  <2> QED BY <2>2, MoveInv
<1>6. CASE Tell(k) \/ Told(k)
  <2>1. \A j \in Threads : j > k => Gone(j)
    BY <1>6 DEF Tell, Told, IInv, Ending
  <2>2. Moves(k, "telling") \/ Moves(k, "done")
    BY <1>6, <2>1 DEF Tell, Told, Moves, ThreadPCs
  <2> QED BY <2>2, MoveInv
<1> QED BY <1>1, <1>2, <1>3, <1>4, <1>5, <1>6 DEF ThreadRuns

(* Steps that leave the threads alone.                                     *)
LEMMA AppInv ==
  ASSUME IInv, StartStep \/ StopBegin \/ StopStep \/ SendResponse \/ SendStop0 \/ Unload
  PROVE  IInv'
<1> USE FsDispatchAssumption DEF appVars, sendVars, threadVars, IInv
<1>1. CASE StartCreate
  <2>1. 1 \in Threads
    BY DEF Threads
  <2>2. CASE app' = "assign" /\ To(1, "init")
    <3>1. /\ pc' \in [Threads -> ThreadPCs] /\ pc'[1] = "init"
          /\ \A j \in Threads : pc[j] = "none" /\ ~child[j] /\ (j # 1 => pc'[j] = "none")
          /\ count = ThreadCount
      BY <1>1, <2>1, <2>2 DEF StartCreate, To, TypeOK, ThreadPCs, FirstThread, Chain
    <3>2. TypeOK' /\ FirstThread' /\ Last'
      BY <1>1, <2>1, <2>2, <3>1 DEF StartCreate, TypeOK, FirstThread, Last, AppPCs
    <3>3. Creating' /\ Ending'
      BY <1>1, <2>2, <3>1 DEF StartCreate, Creating, Ending, Threads, Gone
    <3>4. Chain'
      BY <1>1, <2>2, <3>1 DEF StartCreate, Chain, Threads
    <3> QED BY <3>2, <3>3, <3>4
  <2>3. CASE app' = "nostart" /\ UNCHANGED pc
    BY <1>1, <2>3
    DEF StartCreate, TypeOK, AppPCs, FirstThread, Creating, Chain, Ending, Gone, Last
  <2> QED BY <1>1, <2>2, <2>3 DEF StartCreate
<1>2. CASE Start
  BY <1>2 DEF Start, TypeOK, AppPCs, FirstThread, Creating, Chain, Ending, Gone, Last
<1>3. CASE StartAssign \/ StopBegin \/ StopStop0 \/ StopWait \/ StopStop \/ StopEnd
  <2>1. TypeOK' /\ FirstThread' /\ Last'
    BY <1>3
    DEF StartAssign, StopBegin, StopStop0, StopWait, StopStop, StopEnd, Stop0, Stop,
        TypeOK, AppPCs, FirstThread, Last
  <2>2. Creating' /\ Chain' /\ Ending'
    BY <1>3
    DEF StartAssign, StopBegin, StopStop0, StopWait, StopStop, StopEnd,
        Creating, Chain, Ending, Gone
  <2> QED BY <2>1, <2>2
<1>4. CASE SendResponse \/ SendStop0 \/ Unload
  BY <1>4
  DEF SendResponse, SendStop0, Unload, Stop0, TypeOK, FirstThread, Creating, Chain, Ending,
      Gone, Last
<1> QED BY <1>1, <1>2, <1>3, <1>4 DEF StartStep, StopStep

LEMMA StepInv == IInv /\ [Next]_vars => IInv'
<1> SUFFICES ASSUME IInv, [Next]_vars PROVE IInv'
  OBVIOUS
<1>1. CASE UNCHANGED vars
  BY <1>1
  DEF vars, IInv, TypeOK, FirstThread, Creating, Chain, Ending, Gone, Last
<1>2. CASE Next
  BY <1>2, ThreadInv, AppInv DEF Next
<1> QED BY <1>1, <1>2

LEMMA Inductive == Spec => []IInv
BY InitInv, StepInv, PTL DEF Spec

LEMMA InvImplies == IInv => NoCancelInUse /\ LastOperation
<1> SUFFICES ASSUME IInv PROVE NoCancelInUse /\ LastOperation
  OBVIOUS
<1>1. 1 \in Threads /\ \A k \in Threads : k = 1 \/ k > 1
  BY FsDispatchAssumption DEF Threads
<1>2. pc[1] \in {"telling", "done"} => \A k \in Threads : k > 1 => Gone(k)
  BY <1>1 DEF IInv, Ending
<1>3. NoCancelInUse
  BY <1>1, <1>2 DEF IInv, Last, FirstThread, NoCancelInUse, Gone
<1>4. LastOperation
  BY <1>1, <1>2 DEF IInv, Last, LastOperation, Gone
<1> QED BY <1>3, <1>4

-----------------------------------------------------------------------------
(* Results about the dispatcher. *)

(* When FspFileSystemStopDispatcher cancels the requests of the volume no  *)
(* dispatcher thread is left that could use one of their buffers           *)
(* (FSP_FSCTL_STOP after the threads were awaited).                        *)
THEOREM CancelAfterThreads == Spec => []NoCancelInUse
BY Inductive, InvImplies, PTL

(* DispatcherStopped is the last operation the file system receives: all   *)
(* threads but the one that calls it have ended                            *)
(* (FspFileSystemDispatcherThread).                                        *)
THEOREM StoppedIsLast == Spec => []LastOperation
BY Inductive, InvImplies, PTL

-----------------------------------------------------------------------------
(* The service. *)

(* The service runs the dispatcher: whatever the service control manager,  *)
(* the console and the thread of FspServiceStopLoop do, the dispatcher     *)
(* sees one start and at most one stop at a time.                          *)
THEOREM HostRunsDispatcher == HostSpec => Spec
<1>1. HostInit => Init
  BY DEF HostInit
<1>2. [HostNext]_hostVars => [Next]_vars
  <2> SUFFICES ASSUME [HostNext]_hostVars PROVE [Next]_vars
    OBVIOUS
  <2> USE DEF dispVars
  <2>1. CASE UNCHANGED hostVars \/ Exited
    BY <2>1 DEF hostVars, Exited
  <2>2. CASE MainStep
    BY <2>2 DEF MainStep, MainRunning, OnStart, MainStarted, Next
  <2>3. CASE OnStopStep \/ LoopStep \/ Ask
    BY <2>3 DEF OnStopStep, LoopStep, Control, LoopService, LoopConsole, LoopExit, Ask, Next
  <2>4. CASE StopLoopThread \/ StopLoopUnlock
    BY <2>4 DEF StopLoopThread, StopLoopUnlock
  <2>5. CASE DispatcherStopped
    <3>1. 1 \in Threads
      BY FsDispatchAssumption DEF Threads
    <3> QED BY <2>5, <3>1 DEF DispatcherStopped, StopServiceIfNecessary, Next
  <2>6. ASSUME NEW s \in Stoppers, StopService(s) \/ OnStopFails(s)
        PROVE  [Next]_vars
    BY <2>6
    DEF StopService, TryEnter, CheckStopped, StopPending, OnStop, Stopped, LeaveGuard,
        OnStopFails, Next
  <2>7. CASE Dispatch
    BY <2>7 DEF Dispatch, Next
  <2> QED BY <2>1, <2>2, <2>3, <2>4, <2>5, <2>6, <2>7 DEF HostNext
<1> QED BY <1>1, <1>2, PTL DEF HostSpec, Spec

(* The two results about the dispatcher therefore hold in a service.       *)
THEOREM HostDispatches == HostSpec => [](NoCancelInUse /\ LastOperation)
BY HostRunsDispatcher, Inductive, InvImplies, PTL

-----------------------------------------------------------------------------
(* The end of the service. *)

AtPCs == StopPCs \union {"none", "wait", "clear", "done", "lock", "failed"}

(* A thread owns ServiceStopGuard from TryEnter to LeaveGuard.             *)
GuardOwned ==
  \A s \in Stoppers : guard = s <=> at[s] \in StopPCs \ {"enter"}

(* The table of services is gone when the loop has returned, and nobody    *)
(* has its lock.                                                           *)
TableGone == at["loop"] = "done" => ~table /\ ~TableShared

(* FspServiceStopLoop is called once, at the end of the first thread.      *)
CalledOnce == at["stoploop"] # "none" => pc[1] = "done"

HostInv ==
  /\ at \in [Stoppers -> AtPCs]
  /\ guard \in Stoppers \union {"none"}
  /\ GuardOwned /\ TableGone /\ CalledOnce

(* A thread that has ended is not started again.                           *)
LEMMA FirstEndsOnce ==
  ASSUME IInv, Next, pc[1] = "done"
  PROVE  pc'[1] = "done"
<1> USE FsDispatchAssumption DEF threadVars, Threads
<1>0. 1 \in Threads /\ pc \in [Threads -> ThreadPCs]
  BY DEF IInv, TypeOK
<1>1. ASSUME NEW k \in Threads, NEW label, To(k, label), pc[k] # "done"
      PROVE  pc'[1] = "done"
  BY <1>0, <1>1 DEF To
<1>2. ASSUME NEW k \in Threads, ThreadRuns(k) \/ Receive(k) \/ TransactFails(k) \/ Told(k)
      PROVE  pc'[1] = "done"
  <2>1. CASE CreateChild(k) /\ ~\E label : To(k, label)
    <3>1. k # 1 /\ k + 1 # 1
      BY <2>1 DEF CreateChild
    <3> QED BY <1>0, <2>1, <3>1 DEF CreateChild
  <2>2. CASE \E label : To(k, label)
    BY <1>1, <1>2, <2>2
    DEF ThreadRuns, Alloc, CreateChild, Operate, Exit, ExitStop0, WaitChild, Tell, Receive,
        TransactFails, Told
  <2> QED BY <1>2, <2>1, <2>2
      DEF ThreadRuns, Alloc, Operate, Exit, ExitStop0, WaitChild, Tell, Receive,
          TransactFails, Told
<1>3. CASE StartCreate
  BY <1>0, <1>3 DEF StartCreate, IInv, FirstThread
<1>4. CASE \/ Start \/ StartAssign \/ StopBegin \/ StopStep
           \/ SendResponse \/ SendStop0 \/ Unload
  BY <1>4
  DEF Start, StartAssign, StopBegin, StopStep, StopStop0, StopWait, StopStop, StopEnd,
      SendResponse, SendStop0, Unload
<1> QED BY <1>2, <1>3, <1>4 DEF Next, StartStep

LEMMA HostInitInv == HostInit => HostInv
BY DEF HostInit, HostInv, GuardOwned, TableGone, CalledOnce, Stoppers, AtPCs, StopPCs

(* What a step does to the threads that stop the service.                  *)
LEMMA HostStepInv ==
  ASSUME IInv, HostInv, [HostNext]_hostVars, [Next]_vars
  PROVE  HostInv'
<1> USE DEF HostInv, GoTo, dispVars
<1>0. pc[1] = "done" => pc'[1] = "done"
  BY FirstEndsOnce DEF vars
<1>1. CASE UNCHANGED <<at, guard, table>>
  BY <1>0, <1>1 DEF GuardOwned, TableGone, TableShared, InStop, CalledOnce
<1>2. ASSUME NEW s \in Stoppers, StopService(s) \/ OnStopFails(s)
      PROVE  HostInv'
  <2> USE DEF Stoppers, AtPCs, StopPCs
  <2>1. at[s] \in StopPCs /\ UNCHANGED table
    BY <1>2
    DEF StopService, TryEnter, CheckStopped, StopPending, OnStop, OnStopFails, Stopped, LeaveGuard
  <2>2. \E label \in StopPCs \union {"wait", "clear"} : at' = [at EXCEPT ![s] = label]
    BY <1>2
    DEF StopService, TryEnter, CheckStopped, StopPending, OnStop, OnStopFails, Stopped, LeaveGuard,
        Return
  <2>3. /\ at' \in [Stoppers -> AtPCs] /\ guard' \in Stoppers \union {"none"}
        /\ GuardOwned'
    <3>1. CASE TryEnter(s)
      BY <3>1 DEF TryEnter, Return, GuardOwned
    <3>2. CASE CheckStopped(s)
      BY <3>2 DEF CheckStopped, Return, GuardOwned
    <3>3. CASE StopPending(s)
      BY <3>3 DEF StopPending, GuardOwned
    <3>4. CASE OnStop(s) \/ OnStopFails(s) \/ Stopped(s)
      BY <3>4 DEF OnStop, OnStopFails, Stopped, GuardOwned
    <3>5. CASE LeaveGuard(s)
      BY <3>5 DEF LeaveGuard, Return, GuardOwned
    <3> QED BY <1>2, <3>1, <3>2, <3>3, <3>4, <3>5 DEF StopService
  <2>4. TableGone'
    BY <2>1, <2>2 DEF TableGone, TableShared, InStop
  <2>5. CalledOnce'
    BY <1>0, <2>1, <2>2 DEF CalledOnce
  <2> QED BY <2>3, <2>4, <2>5
<1>3. CASE LoopStep
  <2> USE DEF Stoppers, AtPCs, StopPCs
  <2>1. at["loop"] \in {"wait", "clear"} /\ UNCHANGED guard
    BY <1>3 DEF LoopStep, Control, LoopService, LoopConsole, LoopExit
  <2>2. \E label \in {"enter", "clear", "done"} :
          /\ at' = [at EXCEPT !["loop"] = label]
          /\ label = "done" => ~table' /\ ~TableShared
    BY <1>3 DEF LoopStep, Control, LoopService, LoopConsole, LoopExit
  <2>3. at' \in [Stoppers -> AtPCs] /\ GuardOwned' /\ CalledOnce'
    BY <1>0, <2>1, <2>2 DEF GuardOwned, CalledOnce
  <2>4. TableGone'
    BY <2>1, <2>2 DEF TableGone, TableShared, InStop
  <2> QED BY <2>1, <2>3, <2>4
<1>4. CASE StopLoopThread \/ StopLoopUnlock
  <2> USE DEF Stoppers, AtPCs, StopPCs
  <2>1. /\ UNCHANGED <<guard, table, pc>>
        /\ at["stoploop"] \in {"lock", "clear"}
        /\ \E label \in {"enter", "done"} :
             /\ at' = [at EXCEPT !["stoploop"] = label]
             /\ label = "enter" => table
    BY <1>4 DEF StopLoopThread, StopLoopUnlock, vars
  <2>2. at' \in [Stoppers -> AtPCs] /\ GuardOwned' /\ CalledOnce'
    BY <2>1 DEF GuardOwned, CalledOnce
  <2>3. TableGone'
    BY <2>1 DEF TableGone, TableShared, InStop
  <2> QED BY <2>1, <2>2, <2>3
<1>5. CASE DispatcherStopped
  <2> USE DEF Stoppers, AtPCs, StopPCs
  <2>1. /\ UNCHANGED <<guard, table>>
        /\ at["stoploop"] = "none" /\ pc'[1] = "done"
        /\ \/ UNCHANGED at
           \/ \E label \in {"lock", "failed"} : at' = [at EXCEPT !["stoploop"] = label]
    <3>1. 1 \in Threads
      BY FsDispatchAssumption DEF Threads
    <3> QED BY <1>5, <3>1
        DEF DispatcherStopped, StopServiceIfNecessary, Told, To, CalledOnce, IInv, TypeOK
  <2>2. at' \in [Stoppers -> AtPCs] /\ GuardOwned' /\ CalledOnce'
    BY <2>1 DEF GuardOwned, CalledOnce
  <2>3. TableGone'
    BY <2>1 DEF TableGone, TableShared, InStop
  <2> QED BY <2>1, <2>2, <2>3
<1>6. CASE MainStep \/ OnStopStep \/ Ask \/ Dispatch \/ Exited \/ UNCHANGED hostVars
  <2>1. UNCHANGED <<at, guard, table>>
    BY <1>6
    DEF MainStep, MainRunning, OnStart, MainStarted, OnStopStep, Ask, Dispatch, Exited,
        hostVars, svcVars
  <2> QED BY <1>1, <2>1
<1> QED BY <1>2, <1>3, <1>4, <1>5, <1>6 DEF HostNext

(* FspServiceLoop returns, and FspServiceRunEx deletes the service, when   *)
(* no thread is within FspServiceStop any more: the thread that the end of *)
(* the dispatcher created holds FspServiceTableLock until it is done.      *)
THEOREM LoopIsLast == HostSpec => []LoopOutlivesStop
<1>1. HostSpec => []IInv
  BY HostRunsDispatcher, Inductive, PTL
<1>2. HostSpec => [][Next]_vars
  BY HostRunsDispatcher, PTL DEF Spec
<1>3. IInv /\ HostInv /\ [HostNext]_hostVars /\ [Next]_vars => HostInv'
  BY HostStepInv
<1>4. HostInv => LoopOutlivesStop
  <2> SUFFICES ASSUME HostInv, at["loop"] = "done"
               PROVE  ~InStop("stoploop") /\ guard = "none"
    BY DEF LoopOutlivesStop
  <2> QED BY DEF HostInv, GuardOwned, TableGone, TableShared, InStop, Stoppers, StopPCs
<1> QED BY HostInitInv, <1>1, <1>2, <1>3, <1>4, PTL DEF HostSpec

=============================================================================
