------------------------------ MODULE Launcher ------------------------------
(***************************************************************************)
(* The service instances of the launcher (src/src/launcher/launcher.c).    *)
(* One thread serves the requests of the pipe, one at a time.  An instance *)
(* is the process of a file system; it is referenced by the thread that    *)
(* starts it and by the wait for its process, whose callback runs on a     *)
(* thread of the pool.  The last of the two to release the instance starts *)
(* it again when it has a recovery policy, was started successfully and    *)
(* was not stopped: it then runs the whole start on top of the release.    *)
(* The token of the client goes from instance to instance in this way.     *)
(*                                                                         *)
(* All that is done with SvcInstanceLock held is one step here.  A handle  *)
(* value that is used again after it was closed is not modelled.           *)
(***************************************************************************)
EXTENDS Sequences, Integers

CONSTANTS
  Names,         \* the names of instances (class and instance name)
  MaxInstances,  \* bound: the SVC_INSTANCE structures that are ever allocated
  MaxTokens,     \* bound: the start requests; each one has a token of its own
  None           \* no instance, no token, no name

ASSUME LauncherAssumption ==
  /\ MaxInstances \in Nat
  /\ MaxTokens \in Nat
  /\ None \notin (1 .. MaxInstances) \union (1 .. MaxTokens) \union Names

VARIABLES
  list,      \* SvcInstanceList
  event,     \* SvcInstanceEvent: the list is empty
  inst,      \* the instances, in use or freed
  process,   \* the process of an instance: "none", "alive" or "dead"
  waiting,   \* the instances with a registered ProcessWait that has not fired
  token,     \* the token handles: "none", "open", "protected" or "closed"
  client,    \* the token that the pipe thread has to close
  stack,     \* what the pipe thread and the callbacks are in the middle of
  service    \* "run", "wait" (SvcInstanceStopAndWaitAll) or "end"

vars == <<list, event, inst, process, waiting, token, client, stack, service>>

Instances == 1..MaxInstances
Tokens == 1..MaxTokens

(* The pipe thread, and the callbacks, known by the instance whose process *)
(* they wait for.                                                          *)
Pipe == 0
Threads == {Pipe} \union Instances

Unused == [state |-> "unused", name |-> None, refs |-> 0, started |-> FALSE,
           stopped |-> FALSE, recovery |-> FALSE, token |-> None, from |-> None]

Init ==
  /\ list = {} /\ event = TRUE
  /\ inst = [x \in Instances |-> Unused]
  /\ process = [x \in Instances |-> "none"]
  /\ waiting = {}
  /\ token = [k \in Tokens |-> "none"]
  /\ client = None
  /\ stack = [t \in Threads |-> <<>>]
  /\ service = "run"

-----------------------------------------------------------------------------
(* A frame of a thread: where it is, and for which instance.  A frame at   *)
(* "create" has no instance yet, but what it is to be created with.        *)
Frame(at, x) == [at |-> at, obj |-> x, name |-> None, token |-> None, from |-> None]
CreateFrame(n, k, x) == [at |-> "create", obj |-> None, name |-> n, token |-> k, from |-> x]

Busy(t) == stack[t] # <<>>
Top(t) == Head(stack[t])
At(t, at) == Busy(t) /\ Top(t).at = at
Goto(t, frame) == stack' = [stack EXCEPT ![t] = <<frame>> \o Tail(@)]
Pop(t) == stack' = [stack EXCEPT ![t] = Tail(@)]
Push(t, under, frame) == stack' = [stack EXCEPT ![t] = <<frame, under>> \o Tail(@)]

(* CloseHandle has no effect on a handle that is protected or closed.      *)
CloseToken(k) == token' = [token EXCEPT ![k] = IF @ = "open" THEN "closed" ELSE @]

-----------------------------------------------------------------------------
(* SvcInstanceStart: a request of a client, or the recovery of an instance.*)

(* A client asks to start an instance.                                     *)
Request(n) ==
  /\ service = "run" /\ client = None
  /\ \E k \in Tokens :
       /\ token[k] = "none" /\ \A j \in 1..(k - 1) : token[j] # "none"
       /\ token' = [token EXCEPT ![k] = "open"]
       /\ client' = k
       /\ stack' = [stack EXCEPT ![Pipe] = <<CreateFrame(n, k, None)>>]
  /\ UNCHANGED <<list, event, inst, process, waiting, service>>

(* Mutant: an error that comes late leaves the token protected.            *)
CreateFailsProtected(t) ==
  /\ At(t, "create")
  /\ Pop(t)
  /\ token' = [token EXCEPT ![Top(t).token] = IF @ = "open" THEN "protected" ELSE @]
  /\ UNCHANGED <<list, event, inst, process, waiting, client, service>>

(* The name is taken, or one of the many calls fails: what has been done   *)
(* is undone, also the protection of the token.                            *)
CreateFails(t) ==
  /\ At(t, "create")
  /\ Pop(t)
  /\ UNCHANGED <<list, event, inst, process, waiting, token, client, service>>

SvcInstanceLookup(n) == {y \in list : inst[y].name = n}

(* The process is created, with the token of the client or one made from   *)
(* it; when that fails the creation of the instance does.                  *)
SvcInstanceCreateProcess(x) == process' = [process EXCEPT ![x] = "alive"]

(* The instance with its process, when nothing fails.                      *)
Created(t, x, refs) ==
  LET f == Top(t) IN
  /\ At(t, "create")
  /\ token[f.token] # "closed"
  /\ SvcInstanceLookup(f.name) = {}
  /\ inst[x].state = "unused" /\ \A y \in 1..(x - 1) : inst[y].state # "unused"
  /\ \E recovery \in BOOLEAN :
       inst' = [inst EXCEPT ![x] = [state |-> "used", name |-> f.name, refs |-> refs,
                  started |-> FALSE, stopped |-> FALSE, recovery |-> recovery,
                  token |-> f.token, from |-> f.from]]
  /\ token' = [token EXCEPT ![f.token] = "protected"]
  /\ SvcInstanceCreateProcess(x)
  /\ waiting' = waiting \union {x}
  /\ list' = list \union {x}
  /\ event' = FALSE
  /\ Goto(t, Frame("talk", x))
  /\ UNCHANGED <<client, service>>

(* Mutant: only the wait for the process has a reference.                  *)
CreateOneRef(t, x) == Created(t, x, 1)

Create(t, x) == Created(t, x, 2)

(* Mutant: a start that fails returns without releasing the instance.      *)
TalkKeeping(t) ==
  /\ At(t, "talk")
  /\ \/ /\ inst' = [inst EXCEPT ![Top(t).obj].started = TRUE]
        /\ Goto(t, Frame("drop", Top(t).obj))
     \/ Pop(t) /\ UNCHANGED inst
  /\ UNCHANGED <<list, event, process, waiting, token, client, service>>

(* The start is a success at once, or depends on the process, which is     *)
(* handed a secret and answers or not.                                     *)
Talk(t) ==
  /\ At(t, "talk")
  /\ \E success \in BOOLEAN :
       inst' = [inst EXCEPT ![Top(t).obj].started = success]
  /\ Goto(t, Frame("drop", Top(t).obj))
  /\ UNCHANGED <<list, event, process, waiting, token, client, service>>

(* The pipe thread is done with the start request.                         *)
CloseClient ==
  /\ client # None /\ ~Busy(Pipe)
  /\ CloseToken(client)
  /\ client' = None
  /\ UNCHANGED <<list, event, inst, process, waiting, stack, service>>

-----------------------------------------------------------------------------
(* SvcInstanceRelease.                                                     *)

Drop(t) ==
  LET x == Top(t).obj IN
  /\ At(t, "drop")
  /\ inst' = [inst EXCEPT ![x].refs = @ - 1]
  /\ IF inst[x].refs = 1 THEN Goto(t, Frame("remove", x)) ELSE Pop(t)
  /\ UNCHANGED <<list, event, process, waiting, token, client, service>>

Remove(t) ==
  LET x == Top(t).obj IN
  /\ At(t, "remove")
  /\ list' = list \ {x}
  /\ event' = (event \/ list' = {})
  /\ Goto(t, Frame("recover", x))
  /\ UNCHANGED <<inst, process, waiting, token, client, service>>

(* The token is no longer protected; the instance is started again.        *)
RecoverIf(t, wanted) ==
  LET x == Top(t).obj IN
  /\ At(t, "recover")
  /\ token' = [token EXCEPT ![inst[x].token] = IF @ = "protected" THEN "open" ELSE @]
  /\ IF wanted
     THEN Push(t, Frame("free", x), CreateFrame(inst[x].name, inst[x].token, x))
     ELSE Goto(t, Frame("free", x))
  /\ UNCHANGED <<list, event, inst, process, waiting, client, service>>

(* Mutant: a stopped instance is recovered as well.                        *)
RecoverStopped(t) ==
  LET i == inst[Top(t).obj] IN At(t, "recover") /\ RecoverIf(t, i.recovery /\ i.started)

Recover(t) ==
  LET i == inst[Top(t).obj]
  IN At(t, "recover") /\ RecoverIf(t, i.recovery /\ i.started /\ ~i.stopped)

Free(t) ==
  LET x == Top(t).obj IN
  /\ At(t, "free")
  /\ inst' = [inst EXCEPT ![x].state = "freed"]
  /\ CloseToken(inst[x].token)
  /\ Pop(t)
  /\ UNCHANGED <<list, event, process, waiting, client, service>>

-----------------------------------------------------------------------------
(* The process of an instance.  It may end at any time, by itself or       *)
(* because of KillProcess.                                                 *)
ProcessEnds(x) ==
  /\ process[x] = "alive"
  /\ process' = [process EXCEPT ![x] = "dead"]
  /\ UNCHANGED <<list, event, inst, waiting, token, client, stack, service>>

SvcInstanceTerminated(x) ==
  /\ x \in waiting /\ process[x] = "dead"
  /\ waiting' = waiting \ {x}
  /\ stack' = [stack EXCEPT ![x] = <<Frame("drop", x)>>]
  /\ UNCHANGED <<list, event, inst, process, token, client, service>>

(* SvcInstanceStop: the instance is found by its name.                     *)
Stop(x) ==
  /\ service = "run" /\ client = None
  /\ x \in list
  /\ inst' = [inst EXCEPT ![x].stopped = TRUE]
  /\ UNCHANGED <<list, event, process, waiting, token, client, stack, service>>

(* SvcInstanceStopAndWaitAll, when the launcher itself is stopped.  The    *)
(* wait has a timeout.                                                     *)
StopAll ==
  /\ service = "run" /\ client = None
  /\ service' = "wait"
  /\ inst' = [x \in Instances |->
       [inst[x] EXCEPT !.stopped = @ \/ x \in list]]
  /\ UNCHANGED <<list, event, process, waiting, token, client, stack>>

WaitEnds ==
  /\ service = "wait"
  /\ service' = "end"
  /\ UNCHANGED <<list, event, inst, process, waiting, token, client, stack>>

ThreadStep(t) ==
  \/ CreateFails(t)
  \/ \E x \in Instances : Create(t, x)
  \/ Talk(t) \/ Drop(t) \/ Remove(t) \/ Recover(t) \/ Free(t)

Next ==
  \/ \E n \in Names : Request(n)
  \/ CloseClient \/ StopAll \/ WaitEnds
  \/ \E x \in Instances : ProcessEnds(x) \/ SvcInstanceTerminated(x) \/ Stop(x)
  \/ \E t \in Threads : ThreadStep(t)

(* Every thread runs, and the pool runs the callback of a wait; a process  *)
(* need not end.                                                           *)
Spec ==
  /\ Init /\ [][Next]_vars
  /\ WF_vars(CloseClient)
  /\ \A t \in Threads : WF_vars(ThreadStep(t))
  /\ \A x \in Instances : WF_vars(SvcInstanceTerminated(x))

-----------------------------------------------------------------------------
(* SvcInstanceLookup refuses a name that is in the list, and an instance   *)
(* leaves the list with its last reference: two processes of one name,     *)
(* such as two file systems on one drive, never run at the same time, not  *)
(* even when a recovery races with a start.                                *)
OneProcess ==
  \A x, y \in Instances :
    x # y /\ process[x] = "alive" /\ process[y] = "alive" => inst[x].name # inst[y].name

(* The decision to recover is made after the instance left the list, where *)
(* SvcInstanceStop finds it: no instance is started in the place of one    *)
(* that a client, or the end of the launcher, has stopped.                 *)
StopSticks ==
  \A x \in Instances :
    inst[x].from # None => ~inst[inst[x].from].stopped

(* A token that is protected from CloseHandle is closed in the end by the  *)
(* last release: a token is open only while the pipe thread has yet to     *)
(* close it or an instance that is not freed refers to it, on every error  *)
(* path of a start and of a recovery.                                      *)
TokensClosed ==
  \A k \in Tokens :
    token[k] \in {"open", "protected"} =>
      k = client \/ \E x \in Instances : inst[x].state = "used" /\ inst[x].token = k

(* The instance of a process that has ended is freed: no path of the start *)
(* or of the release loses a reference.                                    *)
DeadAreFreed ==
  \A x \in Instances : process[x] = "dead" ~> inst[x].state = "freed"
=============================================================================
