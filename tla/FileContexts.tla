---------------------------- MODULE FileContexts ----------------------------
(***************************************************************************)
(* What the driver promises a user mode file system about the context it   *)
(* returns from Create or Open (the operations of FSP_FILE_SYSTEM_INTERFACE *)
(* in src/inc/winfsp/winfsp.h): a context is opened once, cleaned up at    *)
(* most once, closed at most once, and is not used before it was opened or *)
(* after it was closed.  The detailed specification FileNode implements it. *)
(***************************************************************************)
CONSTANT Files   \* one element for each file object of the volume

VARIABLE context \* what the file system holds for the file object

Unopened == "none"

Init == context = [f \in Files |-> Unopened]

(* Create or Open returns a context. *)
Opened(f) ==
  /\ context[f] = Unopened
  /\ context' = [context EXCEPT ![f] = "open"]

(* Cleanup: the last handle of the file object is gone. *)
CleanedUp(f) ==
  /\ context[f] = "open"
  /\ context' = [context EXCEPT ![f] = "cleaned"]

(* Close, for an open that did not succeed in the end or after Cleanup. *)
Closed(f) ==
  /\ context[f] \in {"open", "cleaned"}
  /\ context' = [context EXCEPT ![f] = "closed"]

Next == \E f \in Files : Opened(f) \/ CleanedUp(f) \/ Closed(f)

Spec == Init /\ [][Next]_context
=============================================================================
