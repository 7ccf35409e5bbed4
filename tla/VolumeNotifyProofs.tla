------------------------- MODULE VolumeNotifyProofs -------------------------
(***************************************************************************)
(* Theorems about VolumeNotify and their proofs: the name of a file is     *)
(* stable during a notification, the lock of the sessions is held while    *)
(* one is counted, and a deleted volume is quiet, for every number of      *)
(* requests, work items, clients and calls.                                *)
(***************************************************************************)
EXTENDS VolumeNotify, TLAPS

-----------------------------------------------------------------------------
(* The inductive invariant. *)

Owners == Irps \union Works \union {Session}
IrpPCs == {"idle", "exclusive", "shared", "node", "locked", "posted"}
WorkPCs == {"free", "notify", "end", "lookup", "node", "release", "locked",
            "unlock", "finish"}
VolumeStates == {"exists", "closed", "deleting", "draining", "deleted"}

TypeOK ==
  /\ shared \subseteq Owners
  /\ exclusive \in Irps \union {None}
  /\ node \in Irps \union {None}
  /\ count \in Int /\ count >= -1
  /\ ipc \in [Irps -> IrpPCs]
  /\ wpc \in [Works -> WorkPCs]
  /\ volume \in VolumeStates
  /\ alive \in BOOLEAN

(* Only creates lock the rename resource shared, only renames exclusive.   *)
Kinds ==
  \A i \in Irps :
    /\ ipc[i] = "shared" => i \in Creates
    /\ ipc[i] = "exclusive" => i \in Renames

(* FileRenameResource has one exclusive owner or shared ones.              *)
Excludes == exclusive # None => shared = {}

(* A rename owns the resource from its acquisition to its completion, a    *)
(* notification while it processes what it is about.                       *)
RenameHolds ==
  \A i \in Renames : ipc[i] \in {"node", "locked", "posted"} => exclusive = i
WorkHolds ==
  \A w \in Works : wpc[w] \in {"lookup", "node", "release", "locked"} => w \in shared

(* The deletion waits for the work items, and no new one begins.           *)
Quiet ==
  /\ volume \notin {"exists", "closed"} => Busy = {}
  /\ alive <=> volume = "exists"

IInv ==
  /\ TypeOK /\ Kinds /\ Excludes /\ RenameHolds /\ WorkHolds /\ Quiet
  /\ SessionHoldsLock

LEMMA InitInv == Init => IInv
<1> SUFFICES ASSUME Init PROVE IInv
  OBVIOUS
<1> USE VolumeNotifyAssumption DEF Init
<1>1. TypeOK
  BY DEF TypeOK, IrpPCs, WorkPCs, VolumeStates
<1>2. Kinds /\ RenameHolds
  BY DEF Kinds, RenameHolds, Irps
<1>3. Excludes /\ WorkHolds /\ Quiet /\ SessionHoldsLock
  BY DEF Excludes, WorkHolds, Quiet, Busy, SessionHoldsLock
<1> QED BY <1>1, <1>2, <1>3 DEF IInv

(* Giving up the locks of a request, as every completion does.             *)
LEMMA ReleaseLocksInv ==
  ASSUME IInv, NEW i \in Irps, NEW label \in {"idle", "exclusive"},
         ReleaseLocks(i), ToIrp(i, label), label = "exclusive" => i \in Renames,
         UNCHANGED <<count, workVars, alive, volume>>
  PROVE  IInv'
<1> USE VolumeNotifyAssumption DEF IInv, ReleaseLocks, ToIrp, workVars
<1>1. TypeOK'
  BY DEF TypeOK, Owners, IrpPCs
<1>2. Kinds' /\ RenameHolds'
  BY DEF TypeOK, Kinds, RenameHolds, Irps
<1>3. Excludes' /\ WorkHolds' /\ Quiet'
  BY DEF TypeOK, Excludes, WorkHolds, Quiet, Busy
<1>4. SessionHoldsLock'
  BY DEF SessionHoldsLock
<1> QED BY <1>1, <1>2, <1>3, <1>4

LEMMA IrpInv ==
  ASSUME IInv, NEW i \in Irps, Issue(i) \/ IrpStep(i)
  PROVE  IInv'
<1> USE VolumeNotifyAssumption DEF ToIrp, workVars, clientVars, lockVars
<1>1. CASE Issue(i)
  BY <1>1
  DEF Issue, IInv, TypeOK, Kinds, Excludes, RenameHolds, WorkHolds, Quiet, Busy,
      SessionHoldsLock, IrpPCs, Irps
<1>2. CASE AcquireExclusive(i)
  BY <1>2
  DEF AcquireExclusive, IInv, TypeOK, Kinds, Excludes, RenameHolds, WorkHolds, Quiet, Busy,
      SessionHoldsLock, IrpPCs, Irps
<1>3. CASE AcquireShared(i)
  BY <1>3
  DEF AcquireShared, CanShare, CanShareStarving, IInv, TypeOK, Kinds, Excludes, RenameHolds,
      WorkHolds, Quiet, Busy, SessionHoldsLock, IrpPCs, Irps, Owners
<1>4. CASE AcquireNode(i)
  BY <1>4
  DEF AcquireNode, IInv, TypeOK, Kinds, Excludes, RenameHolds, WorkHolds, Quiet, Busy,
      SessionHoldsLock, IrpPCs, Irps
<1>5. CASE Post(i)
  BY <1>5
  DEF Post, IInv, TypeOK, Kinds, Excludes, RenameHolds, WorkHolds, Quiet, Busy,
      SessionHoldsLock, IrpPCs, Irps
<1>6. CASE Refuse(i) \/ Answer(i) \/ Expire(i) \/ Drain(i)
  <2>1. /\ ReleaseLocks(i) /\ ToIrp(i, "idle")
        /\ UNCHANGED <<count, workVars, alive, volume>>
    BY <1>6 DEF Refuse, Answer, Expire, Drain
  <2> QED BY <2>1, ReleaseLocksInv
<1>7. CASE Retry(i)
  <2>1. /\ ReleaseLocks(i) /\ ToIrp(i, "exclusive") /\ i \in Renames
        /\ UNCHANGED <<count, workVars, alive, volume>>
    BY <1>7 DEF Retry
  <2> QED BY <2>1, ReleaseLocksInv
<1> QED BY <1>1, <1>2, <1>3, <1>4, <1>5, <1>6, <1>7 DEF IrpStep

LEMMA ClientInv ==
  ASSUME IInv, NEW c \in Clients,
         \/ \E label \in Calls \ {"none"} : Enter(c, label)
         \/ Begin(c) \/ GiveUp(c) \/ Notify(c)
  PROVE  IInv'
<1> USE VolumeNotifyAssumption DEF workVars, clientVars, lockVars
<1>1. ASSUME NEW label \in Calls \ {"none"}, Enter(c, label)
      PROVE  IInv'
  BY <1>1
  DEF Enter, IInv, TypeOK, Kinds, Excludes, RenameHolds, WorkHolds, Quiet, Busy, SessionHoldsLock
<1>2. CASE Begin(c)
  BY <1>2
  DEF Begin, CanShare, CanShareStarving, IInv, TypeOK, Kinds, Excludes, RenameHolds,
      WorkHolds, Quiet, Busy, SessionHoldsLock, Owners
<1>3. CASE GiveUp(c)
  BY <1>3
  DEF GiveUp, IInv, TypeOK, Kinds, Excludes, RenameHolds, WorkHolds, Quiet, Busy, SessionHoldsLock
<1>4. CASE Notify(c)
  <2>1. CASE UNCHANGED workVars
    BY <1>4, <2>1
    DEF Notify, IInv, TypeOK, Kinds, Excludes, RenameHolds, WorkHolds, Quiet, Busy,
        SessionHoldsLock
  <2>2. ASSUME NEW w \in Works, volume = "exists", ToWork(w, call[c]),
               call[c] \in {"notify", "end"}
        PROVE  IInv'
    BY <1>4, <2>2
    DEF Notify, ToWork, IInv, TypeOK, Kinds, Excludes, RenameHolds, WorkHolds, Quiet, Busy,
        SessionHoldsLock, WorkPCs
  <2> QED BY <1>4, <2>1, <2>2 DEF Notify, Busy
<1> QED BY <1>1, <1>2, <1>3, <1>4

LEMMA WorkInv ==
  ASSUME IInv, NEW w \in Works, WorkStep(w)
  PROVE  IInv'
<1> USE VolumeNotifyAssumption DEF ToWork, workVars, clientVars, lockVars
<1>1. CASE WorkLock(w)
  BY <1>1
  DEF WorkLock, CanShareStarving, IInv, TypeOK, Kinds, Excludes, RenameHolds, WorkHolds,
      Quiet, Busy, SessionHoldsLock, WorkPCs, Owners
<1>2. CASE WorkLookup(w)
  BY <1>2
  DEF WorkLookup, IInv, TypeOK, Kinds, Excludes, RenameHolds, WorkHolds, Quiet, Busy,
      SessionHoldsLock, WorkPCs
<1>3. CASE WorkInvalidate(w)
  BY <1>3
  DEF WorkInvalidate, IInv, TypeOK, Kinds, Excludes, RenameHolds, WorkHolds, Quiet, Busy,
      SessionHoldsLock, WorkPCs
<1>4. CASE WorkRelease(w)
  BY <1>4
  DEF WorkRelease, IInv, TypeOK, Kinds, Excludes, RenameHolds, WorkHolds, Quiet, Busy,
      SessionHoldsLock, WorkPCs
<1>5. CASE WorkUnlock(w)
  BY <1>5
  DEF WorkUnlock, IInv, TypeOK, Kinds, Excludes, RenameHolds, WorkHolds, Quiet, Busy,
      SessionHoldsLock, WorkPCs
<1>6. CASE WorkFinish(w)
  BY <1>6
  DEF WorkFinish, IInv, TypeOK, Kinds, Excludes, RenameHolds, WorkHolds, Quiet, Busy,
      SessionHoldsLock, WorkPCs
<1> QED BY <1>1, <1>2, <1>3, <1>4, <1>5, <1>6 DEF WorkStep

LEMMA EndInv ==
  ASSUME IInv, Stop \/ Close \/ DeleteStep
  PROVE  IInv'
<1> USE VolumeNotifyAssumption DEF workVars, clientVars, lockVars
<1>1. CASE Stop
  BY <1>1
  DEF Stop, IInv, TypeOK, Kinds, Excludes, RenameHolds, WorkHolds, Quiet, Busy, SessionHoldsLock
<1>2. CASE Close
  BY <1>2
  DEF Close, IInv, TypeOK, Kinds, Excludes, RenameHolds, WorkHolds, Quiet, Busy,
      SessionHoldsLock, VolumeStates
<1>3. CASE Delete
  BY <1>3
  DEF Delete, IInv, TypeOK, Kinds, Excludes, RenameHolds, WorkHolds, Quiet, Busy,
      SessionHoldsLock, VolumeStates
<1>4. CASE DeleteStop
  BY <1>4
  DEF DeleteStop, IInv, TypeOK, Kinds, Excludes, RenameHolds, WorkHolds, Quiet, Busy,
      SessionHoldsLock, VolumeStates
<1>5. CASE DeleteSession
  <2> USE <1>5 DEF DeleteSession
  <2>1. TypeOK' /\ SessionHoldsLock'
    BY DEF IInv, TypeOK, SessionHoldsLock, VolumeStates, Owners
  <2>2. Kinds' /\ RenameHolds' /\ Excludes' /\ Quiet'
    BY DEF IInv, Kinds, RenameHolds, Excludes, Quiet, Busy
  <2>3. WorkHolds'
    BY DEF IInv, WorkHolds
  <2> QED BY <2>1, <2>2, <2>3 DEF IInv
<1> QED BY <1>1, <1>2, <1>3, <1>4, <1>5 DEF DeleteStep

LEMMA StepInv == IInv /\ [Next]_vars => IInv'
<1> SUFFICES ASSUME IInv, [Next]_vars PROVE IInv'
  OBVIOUS
<1>1. CASE UNCHANGED vars
  BY <1>1
  DEF vars, IInv, TypeOK, Kinds, Excludes, RenameHolds, WorkHolds, Quiet, Busy, SessionHoldsLock
<1>2. CASE Next
  BY <1>2, IrpInv, ClientInv, WorkInv, EndInv DEF Next
<1> QED BY <1>1, <1>2

LEMMA Inductive == Spec => []IInv
BY InitInv, StepInv, PTL DEF Spec

-----------------------------------------------------------------------------
(* Results. *)

(* The lock of the sessions is held exactly while one is counted, however  *)
(* NotifyBegin, NotifyEnd's work items and the deletion of the volume      *)
(* interleave (FspVolumeNotifyLock, FspVolumeNotifyWork).                  *)
THEOREM SessionLock == Spec => []SessionHoldsLock
BY Inductive, PTL DEF IInv

(* No rename is in the hands of user mode while a notification looks its   *)
(* file up by name and invalidates it (FspVolumeNotifyWork).               *)
THEOREM StableNames == Spec => []NameStable
<1>1. IInv => NameStable
  <2> SUFFICES ASSUME IInv, NEW w \in Works, wpc[w] \in {"lookup", "node"},
                      NEW i \in Renames, ipc[i] \in {"node", "locked", "posted"}
               PROVE  FALSE
    BY DEF NameStable
  <2>1. w \in shared
    BY DEF IInv, WorkHolds
  <2>2. exclusive = i /\ i # None
    BY VolumeNotifyAssumption DEF IInv, RenameHolds, Irps
  <2> QED BY <2>1, <2>2 DEF IInv, Excludes
<1> QED BY <1>1, Inductive, PTL

(* Nothing is left of a volume that was deleted: no work item that would   *)
(* use it and no lock of a session, which has the address of the volume as *)
(* its owner (FspVolumeDelete and VolumeDeleteResource).                   *)
DeletedIsQuiet ==
  volume = "deleted" => Busy = {} /\ count = -1 /\ Session \notin shared

THEOREM QuietDeletion == Spec => []DeletedIsQuiet
<1> DEFINE Ended == volume = "deleted" => count = -1
<1>1. Init => Ended
  BY DEF Init
<1>2. IInv /\ Ended /\ [Next]_vars => Ended'
  <2> SUFFICES ASSUME IInv, Ended, [Next]_vars, volume' = "deleted"
               PROVE  count' = -1
    OBVIOUS
  <2> USE DEF workVars, clientVars, lockVars
  <2>1. CASE UNCHANGED vars
    BY <2>1 DEF vars
  <2>2. ASSUME NEW i \in Irps, Issue(i) \/ IrpStep(i) PROVE count' = -1
    BY <2>2
    DEF Issue, IrpStep, AcquireExclusive, AcquireShared, AcquireNode, Post, Refuse, Retry,
        Answer, Expire, Drain
  <2>3. ASSUME NEW c \in Clients,
               \/ \E label \in Calls \ {"none"} : Enter(c, label)
               \/ Begin(c) \/ GiveUp(c) \/ Notify(c)
        PROVE  count' = -1
    <3>1. ASSUME NEW label \in Calls \ {"none"}, Enter(c, label) PROVE count' = -1
      BY <3>1 DEF Enter
    <3>2. CASE Begin(c) \/ GiveUp(c) \/ Notify(c)
      BY <3>2 DEF Begin, GiveUp, Notify
    <3> QED BY <2>3, <3>1, <3>2
  <2>4. ASSUME NEW w \in Works, WorkStep(w) PROVE count' = -1
    BY <2>4 DEF WorkStep, WorkLock, WorkLookup, WorkInvalidate, WorkRelease, WorkUnlock, WorkFinish
  <2>5. CASE Stop \/ Close \/ DeleteStep
    BY <2>5 DEF Stop, Close, DeleteStep, Delete, DeleteStop, DeleteSession
  <2> QED BY <2>1, <2>2, <2>3, <2>4, <2>5 DEF Next
<1>3. IInv /\ Ended => DeletedIsQuiet
  BY DEF IInv, Quiet, SessionHoldsLock, DeletedIsQuiet
<1> QED BY <1>1, <1>2, <1>3, Inductive, PTL DEF Spec

=============================================================================
