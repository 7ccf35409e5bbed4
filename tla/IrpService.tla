----------------------------- MODULE IrpService -----------------------------
(***************************************************************************)
(* What the I/O queue of a volume (src/src/sys/ioq.c) promises to the      *)
(* requests of a file system, seen from outside: a request is queued, sent *)
(* to user mode once, answered once and completed once.  ioq.c disallows   *)
(* the cancelation of an IRP in the Process phase (FSP_IOQ_PROCESS_NO_     *)
(* CANCEL): a request that was started ends with its answer, or when the   *)
(* queue is stopped.                                                       *)
(***************************************************************************)
CONSTANT Irps
VARIABLES
  standing,  \* of each IRP: "free", "queued", "started", "answered", "lost"
  stopped

Init ==
  /\ standing = [i \in Irps |-> "free"]
  /\ stopped = FALSE

Move(i, from, to) ==
  /\ standing[i] \in from
  /\ standing' = [standing EXCEPT ![i] = to]
  /\ UNCHANGED stopped

(* A request is queued, or an answered one is queued anew as the request   *)
(* that follows it (an overwrite after a create).                          *)
Queue(i) == ~stopped /\ Move(i, {"free", "answered"}, "queued")
Start(i) == ~stopped /\ Move(i, {"queued"}, "started")
Answer(i) == ~stopped /\ Move(i, {"started"}, "answered")

(* Requests end early only before they are started. *)
Complete(i) == Move(i, {"queued", "answered"}, "free")

Stop == stopped' = TRUE /\ UNCHANGED standing
CancelStarted(i) == stopped /\ Move(i, {"started"}, "free")
Lose(i) == stopped /\ Move(i, {"queued", "answered"}, "lost")

Next ==
  \/ Stop
  \/ \E i \in Irps :
       \/ Queue(i) \/ Start(i) \/ Answer(i) \/ Complete(i)
       \/ CancelStarted(i) \/ Lose(i)

Spec == Init /\ [][Next]_<<standing, stopped>>

=============================================================================
