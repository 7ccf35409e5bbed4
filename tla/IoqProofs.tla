----------------------------- MODULE IoqProofs -----------------------------
(***************************************************************************)
(* Theorems about Ioq and their proofs.                                    *)
(***************************************************************************)
EXTENDS Ioq, ListLemmas, TLAPS

-----------------------------------------------------------------------------
(* The inductive invariant. *)

(* A TRANSACT call holds an IRP exactly while it handles one. *)
HeldWhileHandled ==
  \A d \in Dispatchers :
    held[d] # None <=> pc[d] \in {"respHold", "retryHold", "count", "prep"}

IInv == TypeOK /\ HeldWhileHandled /\ OneOwner

(* The building blocks of the actions. *)
LEMMA CompleteIrpType ==
  ASSUME TypeOK, NEW i \in Irps, CompleteIrp(i)
  PROVE  /\ free' \subseteq Irps /\ cancel' \subseteq Irps
         /\ stamp' \in [Irps -> Stamps]
BY DEF TypeOK, CompleteIrp, Stamps

LEMMA InsertPendingType ==
  ASSUME TypeOK, NEW i \in Irps, NEW s \in Stamps, InsertPending(i, s)
  PROVE  /\ event' \in BOOLEAN /\ pending' \in Seq(Irps)
         /\ free' \subseteq Irps /\ cancel' \subseteq Irps
         /\ stamp' \in [Irps -> Stamps]
<1>1. CASE i \in cancel
  BY <1>1, CompleteIrpType DEF InsertPending, TypeOK
<1>2. CASE i \notin cancel
  <2>1. Append(pending, i) \in Seq(Irps)
    BY InsertTailProperties DEF TypeOK
  <2>2. [stamp EXCEPT ![i] = s] \in [Irps -> Stamps]
    BY DEF TypeOK
  <2> QED BY <1>2, <2>1, <2>2 DEF InsertPending, TypeOK
<1> QED BY <1>1, <1>2

LEMMA RemovePending ==
  ASSUME IInv, NEW k \in 1 .. Len(pending), pending' = RemoveAt(pending, k)
  PROVE  /\ pending[k] \in Irps /\ pending[k] \in Range(pending)
         /\ pending' \in Seq(Irps)
         /\ Range(pending') = Range(pending) \ {pending[k]}
         /\ IsInjective(pending')
<1>1. pending \in Seq(Irps) /\ IsInjective(pending)
  BY DEF IInv, TypeOK, OneOwner
<1>2. pending[k] \in Irps /\ k \in DOMAIN pending
  BY <1>1, ElementOfSeq, LenProperties
<1>3. pending[k] \in Range(pending)
  BY <1>2 DEF Range
<1> QED BY <1>1, <1>2, <1>3, RemoveAtProperties

LEMMA TakePendingType ==
  ASSUME IInv, NEW d \in Dispatchers, NEW b, TakePending(d, b)
  PROVE  /\ event' \in BOOLEAN /\ pending' \in Seq(Irps)
         /\ held' \in [Dispatchers -> Irps \union {None}]
         /\ held'[d] # None /\ \A e \in Dispatchers \ {d} : held'[e] = held[e]
<1> PICK k \in NextPending(b) : /\ held' = [held EXCEPT ![d] = pending[k]]
                               /\ pending' = RemoveAt(pending, k)
                               /\ ResetSynch(pending')
  BY DEF TakePending
<1>1. k \in 1 .. Len(pending)
  BY DEF NextPending
<1>2. pending[k] \in Irps /\ pending' \in Seq(Irps)
  BY <1>1, RemovePending
<1>3. event' \in BOOLEAN
  BY DEF ResetSynch, IInv, TypeOK
<1> QED BY <1>2, <1>3, IoqAssumption DEF IInv, TypeOK

(* Every variable keeps its type. *)
LEMMA TypeStep ==
  ASSUME IInv, [Next]_vars
  PROVE  (TypeOK /\ HeldWhileHandled)'
<1> USE IoqAssumption DEF IInv
<1> USE DEF Stamps, PCs, Drains, Parkings, queues, irpVars, callVars
<1>1. ASSUME NEW i \in Irps, NEW s \in Stamps, PostIrp(i, s)
      PROVE  (TypeOK /\ HeldWhileHandled)'
  <2>1. CASE InsertPending(i, s)
    BY <1>1, <2>1, InsertPendingType DEF PostIrp, TypeOK, HeldWhileHandled
  <2>2. CASE ~InsertPending(i, s)
    BY <1>1, <2>2 DEF PostIrp, TypeOK, HeldWhileHandled
  <2> QED BY <2>1, <2>2
<1>2. ASSUME NEW i \in Irps, Expire(i)
      PROVE  (TypeOK /\ HeldWhileHandled)'
  BY <1>2
  DEF Expire, TypeOK, HeldWhileHandled
<1>3. ASSUME NEW i \in Irps, Cancel(i)
      PROVE  (TypeOK /\ HeldWhileHandled)'
  BY <1>3
  DEF Cancel, TypeOK, HeldWhileHandled
<1>4. ASSUME NEW i \in Irps, CancelRoutine(i)
      PROVE  (TypeOK /\ HeldWhileHandled)'
  BY <1>4, RemovePending
  DEF CancelRoutine, ResetSynch, CompleteIrp, TypeOK, HeldWhileHandled, OneOwner
<1>5. ASSUME RemoveExpired
      PROVE  (TypeOK /\ HeldWhileHandled)'
  <2>1. PICK k \in 1 .. Len(pending) :
          pending' = RemoveAt(pending, k) /\ CompleteIrp(pending[k])
    BY <1>5 DEF RemoveExpired, NextExpired
  <2>2. pending[k] \in Irps /\ pending' \in Seq(Irps)
    BY <2>1, RemovePending
  <2>3. /\ free' \subseteq Irps /\ cancel' \subseteq Irps
        /\ stamp' \in [Irps -> Stamps]
    BY <2>1, <2>2, CompleteIrpType
  <2>4. event' \in BOOLEAN
    BY <1>5, Zenon DEF RemoveExpired, ResetSynch, TypeOK
  <2> QED BY <1>5, <2>2, <2>3, <2>4 DEF RemoveExpired, TypeOK, HeldWhileHandled
<1>6. ASSUME NEW i \in Irps, UnparkComplete(i)
      PROVE  (TypeOK /\ HeldWhileHandled)'
  <2>0. parked' \in [Irps -> Parkings]
    <3>1. PICK how \in {"no", "lost"} : parked' = [parked EXCEPT ![i] = how]
      BY <1>6 DEF UnparkComplete
    <3> QED BY <3>1 DEF TypeOK, Parkings
  <2>1. CASE InsertRetried(i)
    <3>1. retried' \in Seq(Irps) /\ stamp' \in [Irps -> Stamps]
      BY <2>1, InsertTailProperties DEF InsertRetried, TypeOK
    <3>2. free' \subseteq Irps /\ cancel' \subseteq Irps /\ kicks' \subseteq Irps
      BY <1>6, <2>1 DEF UnparkComplete, InsertRetried, CompleteIrp, TypeOK
    <3> QED BY <1>6, <2>0, <3>1, <3>2 DEF UnparkComplete, TypeOK, HeldWhileHandled
  <2>2. CASE CompleteIrp(i) /\ UNCHANGED <<retried, kicks>>
    <3>1. /\ free' \subseteq Irps /\ cancel' \subseteq Irps
          /\ stamp' \in [Irps -> Stamps]
      BY <2>2, CompleteIrpType
    <3> QED BY <1>6, <2>0, <2>2, <3>1 DEF UnparkComplete, TypeOK, HeldWhileHandled
  <2>3. CASE UNCHANGED <<retried, stamp, kicks, free, cancel>>
    BY <1>6, <2>0, <2>3 DEF UnparkComplete, TypeOK, HeldWhileHandled
  <2> QED BY <1>6, <2>1, <2>2, <2>3 DEF UnparkComplete
<1>7. ASSUME NEW i \in Irps, Kick(i)
      PROVE  (TypeOK /\ HeldWhileHandled)'
  BY <1>7
  DEF Kick, TypeOK, HeldWhileHandled
<1>8. ASSUME NEW i \in Irps, WorkComplete(i)
      PROVE  (TypeOK /\ HeldWhileHandled)'
  <2>1. /\ free' \subseteq Irps /\ cancel' \subseteq Irps
        /\ stamp' \in [Irps -> Stamps]
    BY <1>8, CompleteIrpType DEF WorkComplete
  <2>2. parked' \in [Irps -> Parkings]
    BY <1>8 DEF WorkComplete, TypeOK, Parkings
  <2> QED BY <1>8, <2>1, <2>2 DEF WorkComplete, TypeOK, HeldWhileHandled
<1>9. ASSUME NEW i \in Irps, UnparkPrepare(i)
      PROVE  (TypeOK /\ HeldWhileHandled)'
  <2>0. parked' \in [Irps -> Parkings]
    <3>1. PICK how \in {"no", "lost"} : parked' = [parked EXCEPT ![i] = how]
      BY <1>9 DEF UnparkPrepare
    <3> QED BY <3>1 DEF TypeOK, Parkings
  <2>1. CASE InsertPending(i, "inf")
    <3>1. /\ event' \in BOOLEAN /\ pending' \in Seq(Irps)
          /\ free' \subseteq Irps /\ cancel' \subseteq Irps
          /\ stamp' \in [Irps -> Stamps]
      BY <2>1, InsertPendingType
    <3> QED BY <1>9, <2>0, <3>1 DEF UnparkPrepare, TypeOK, HeldWhileHandled
  <2>2. CASE UNCHANGED <<event, pending, free, cancel, stamp>>
    BY <1>9, <2>0, <2>2 DEF UnparkPrepare, TypeOK, HeldWhileHandled
  <2> QED BY <1>9, <2>1, <2>2 DEF UnparkPrepare
<1>10. ASSUME NEW d \in Dispatchers, NEW hints \in SUBSET Irps, Transact(d, hints)
      PROVE  (TypeOK /\ HeldWhileHandled)'
  BY <1>10
  DEF Transact, Goto, TypeOK, HeldWhileHandled
<1>11. ASSUME NEW d \in Dispatchers, NEW i \in resps[d], EndProcessing(d, i)
      PROVE  (TypeOK /\ HeldWhileHandled)'
  <2>1. i \in Irps /\ resps' \in [Dispatchers -> SUBSET Irps]
    BY <1>11 DEF EndProcessing, TypeOK
  <2>2. CASE i \in process /\ ~stopped
    <3>1. /\ held' = [held EXCEPT ![d] = i] /\ i # None
          /\ pc' = [pc EXCEPT ![d] = "respHold"]
          /\ process' \subseteq Irps
      BY <1>11, <2>1, <2>2 DEF EndProcessing, Goto, TypeOK
    <3>2. HeldWhileHandled'
      BY <3>1 DEF TypeOK, HeldWhileHandled
    <3>3. TypeOK'
      BY <1>11, <2>1, <3>1 DEF EndProcessing, TypeOK
    <3> QED BY <3>2, <3>3
  <2>3. CASE ~(i \in process /\ ~stopped)
    BY <1>11, <2>1, <2>3 DEF EndProcessing, TypeOK, HeldWhileHandled
  <2> QED BY <2>2, <2>3
<1>12. ASSUME NEW d \in Dispatchers, EnterRetry(d)
      PROVE  (TypeOK /\ HeldWhileHandled)'
  BY <1>12
  DEF EnterRetry, Goto, TypeOK, HeldWhileHandled
<1>13. ASSUME NEW d \in Dispatchers, NextComplete(d)
      PROVE  (TypeOK /\ HeldWhileHandled)'
  BY <1>13, RemoveHeadProperties
  DEF NextComplete, Goto, CanTakeRetried, TypeOK, HeldWhileHandled, OneOwner
<1>14. ASSUME NEW d \in Dispatchers, NEW label \in {"user", "wait"}, LeaveRetry(d, label)
      PROVE  (TypeOK /\ HeldWhileHandled)'
  BY <1>14
  DEF LeaveRetry, Goto, TypeOK, HeldWhileHandled
<1>15. ASSUME NEW d \in Dispatchers, DispatchComplete(d)
      PROVE  (TypeOK /\ HeldWhileHandled)'
  BY <1>15
  DEF DispatchComplete, Completing, CompleteIrp, Release, Goto, TypeOK, HeldWhileHandled
<1>16. ASSUME NEW d \in Dispatchers, DispatchRetry(d)
      PROVE  (TypeOK /\ HeldWhileHandled)'
  <2>1. held[d] \in Irps
    BY <1>16 DEF DispatchRetry, Completing, TypeOK, HeldWhileHandled
  <2>2. /\ retried' \in Seq(Irps) /\ stamp' \in [Irps -> Stamps]
        /\ boundary' \in [Dispatchers -> Irps \union {None}]
    BY <1>16, <2>1, InsertTailProperties DEF DispatchRetry, InsertRetried, Reposted, TypeOK
  <2> QED BY <1>16, <2>1, <2>2 DEF DispatchRetry, Completing, Goto, TypeOK, HeldWhileHandled
<1>17. ASSUME NEW d \in Dispatchers, RetryKick(d)
      PROVE  (TypeOK /\ HeldWhileHandled)'
  BY <1>17
  DEF RetryKick, Goto, TypeOK, HeldWhileHandled
<1>18. ASSUME NEW d \in Dispatchers, Repost(d)
      PROVE  (TypeOK /\ HeldWhileHandled)'
  <2>1. held[d] \in Irps
    BY <1>18 DEF Repost, Completing, TypeOK, HeldWhileHandled
  <2>2. /\ event' \in BOOLEAN /\ pending' \in Seq(Irps)
        /\ free' \subseteq Irps /\ cancel' \subseteq Irps
        /\ stamp' \in [Irps -> Stamps]
    BY <1>18, <2>1, InsertPendingType DEF Repost
  <2> QED BY <1>18, <2>1, <2>2
          DEF Repost, Completing, Reposted, Release, Goto, TypeOK, HeldWhileHandled
<1>19. ASSUME NEW d \in Dispatchers, NEW how \in Parkings, Park(d, how)
      PROVE  (TypeOK /\ HeldWhileHandled)'
  <2>1. held[d] \in Irps
    BY <1>19 DEF Park, Completing, TypeOK, HeldWhileHandled
  <2>2. parked' \in [Irps -> Parkings]
    BY <1>19, <2>1 DEF Park, TypeOK
  <2>3. boundary' \in [Dispatchers -> Irps \union {None}]
    BY <1>19, <2>1 DEF Park, Reposted, TypeOK
  <2> QED BY <1>19, <2>1, <2>2, <2>3
          DEF Park, Completing, Release, Goto, TypeOK, HeldWhileHandled
<1>20. ASSUME NEW d \in Dispatchers, Wake(d)
      PROVE  (TypeOK /\ HeldWhileHandled)'
  BY <1>20
  DEF Wake, Goto, TypeOK, HeldWhileHandled
<1>21. ASSUME NEW d \in Dispatchers, WaitEnds(d)
      PROVE  (TypeOK /\ HeldWhileHandled)'
  BY <1>21
  DEF WaitEnds, Goto, TypeOK, HeldWhileHandled
<1>22. ASSUME NEW d \in Dispatchers, NextAfterWait(d)
      PROVE  (TypeOK /\ HeldWhileHandled)'
  <2>1. CASE TakePending(d, None) /\ Goto(d, "count")
    <3>1. /\ event' \in BOOLEAN /\ pending' \in Seq(Irps)
          /\ held' \in [Dispatchers -> Irps \union {None}]
          /\ held'[d] # None
          /\ \A e \in Dispatchers \ {d} : held'[e] = held[e]
      BY <2>1, TakePendingType
    <3> QED BY <1>22, <2>1, <3>1 DEF NextAfterWait, Goto, TypeOK, HeldWhileHandled
  <2>2. CASE Goto(d, "resync") /\ UNCHANGED <<held, pending, event>>
    BY <1>22, <2>2 DEF NextAfterWait, Goto, TypeOK, HeldWhileHandled
  <2> QED BY <1>22, <2>1, <2>2 DEF NextAfterWait
<1>23. ASSUME NEW d \in Dispatchers, Resync(d)
      PROVE  (TypeOK /\ HeldWhileHandled)'
  BY <1>23
  DEF Resync, ResetSynch, Goto, TypeOK, HeldWhileHandled
<1>24. ASSUME NEW d \in Dispatchers, CountPending(d)
      PROVE  (TypeOK /\ HeldWhileHandled)'
  BY <1>24
  DEF CountPending, Goto, TypeOK, HeldWhileHandled
<1>25. ASSUME NEW d \in Dispatchers, PrepareFails(d)
      PROVE  (TypeOK /\ HeldWhileHandled)'
  BY <1>25
  DEF PrepareFails, CompleteIrp, Release, Goto, TypeOK, HeldWhileHandled
<1>26. ASSUME NEW d \in Dispatchers, StartProcessing(d)
      PROVE  (TypeOK /\ HeldWhileHandled)'
  <2>1. held[d] \in Irps
    BY <1>26 DEF StartProcessing, TypeOK, HeldWhileHandled
  <2>2. CASE stopped
    <3>1. /\ free' \subseteq Irps /\ cancel' \subseteq Irps
          /\ stamp' \in [Irps -> Stamps]
      BY <1>26, <2>1, <2>2, CompleteIrpType DEF StartProcessing
    <3>2. /\ held' = [held EXCEPT ![d] = None] /\ pc' = [pc EXCEPT ![d] = "user"]
          /\ um' \subseteq Irps /\ sent' \in [Dispatchers -> SUBSET Irps]
          /\ loop' \in [Dispatchers -> Nat]
          /\ boundary' \in [Dispatchers -> Irps \union {None}]
          /\ process' \subseteq Irps
      <4>1. /\ held' = [held EXCEPT ![d] = None] /\ Return(d, {})
            /\ process' = process
        BY <1>26, <2>2 DEF StartProcessing
      <4> QED BY <4>1 DEF Return, Goto, TypeOK
    <3>3. HeldWhileHandled'
      BY <3>2 DEF TypeOK, HeldWhileHandled
    <3>4. TypeOK'
      BY <1>26, <3>1, <3>2 DEF StartProcessing, TypeOK
    <3> QED BY <3>3, <3>4
  <2>3. CASE ~stopped
    <3>1. /\ process' \subseteq Irps /\ stamp' \in [Irps -> Stamps]
          /\ UNCHANGED <<free, cancel>>
          /\ held' = [held EXCEPT ![d] = None]
      BY <1>26, <2>1, <2>3 DEF StartProcessing, TypeOK
    <3>2. /\ \/ pc' = [pc EXCEPT ![d] = "user"]
             \/ pc' = [pc EXCEPT ![d] = "loop"]
          /\ um' \subseteq Irps /\ sent' \in [Dispatchers -> SUBSET Irps]
          /\ loop' \in [Dispatchers -> Nat]
          /\ boundary' \in [Dispatchers -> Irps \union {None}]
      <4>1. CASE Return(d, sent[d] \union {held[d]})
        BY <2>1, <4>1 DEF Return, Goto, TypeOK
      <4>2. CASE /\ sent' = [sent EXCEPT ![d] = @ \union {held[d]}]
                 /\ Goto(d, "loop")
                 /\ UNCHANGED <<um, loop, boundary>>
        BY <2>1, <4>2 DEF Goto, TypeOK
      <4> QED BY <1>26, <2>3, <4>1, <4>2 DEF StartProcessing
    <3>3. HeldWhileHandled'
      BY <3>1, <3>2 DEF TypeOK, HeldWhileHandled
    <3>4. TypeOK'
      BY <1>26, <3>1, <3>2 DEF StartProcessing, TypeOK
    <3> QED BY <3>3, <3>4
  <2> QED BY <2>2, <2>3
<1>27. ASSUME NEW d \in Dispatchers, NextInLoop(d)
      PROVE  (TypeOK /\ HeldWhileHandled)'
  <2>1. CASE /\ 0 < loop[d] /\ TakePending(d, boundary[d])
             /\ loop' = [loop EXCEPT ![d] = @ - 1] /\ Goto(d, "prep")
             /\ UNCHANGED <<um, boundary, sent>>
    <3>1. /\ event' \in BOOLEAN /\ pending' \in Seq(Irps)
          /\ held' \in [Dispatchers -> Irps \union {None}]
          /\ held'[d] # None
          /\ \A e \in Dispatchers \ {d} : held'[e] = held[e]
      BY <2>1, TakePendingType
    <3>2. loop' \in [Dispatchers -> Nat]
      BY <2>1 DEF TypeOK
    <3> QED BY <1>27, <2>1, <3>1, <3>2 DEF NextInLoop, Goto, TypeOK, HeldWhileHandled
  <2>2. CASE Return(d, sent[d]) /\ UNCHANGED <<event, pending, held>>
    BY <1>27, <2>2 DEF NextInLoop, Return, Goto, TypeOK, HeldWhileHandled
  <2> QED BY <1>27, <2>1, <2>2 DEF NextInLoop
<1>28. ASSUME Stop0
      PROVE  (TypeOK /\ HeldWhileHandled)'
  BY <1>28
  DEF Stop0, TypeOK, HeldWhileHandled
<1>29. ASSUME Stop
      PROVE  (TypeOK /\ HeldWhileHandled)'
  BY <1>29
  DEF Stop, TypeOK, HeldWhileHandled
<1>30. ASSUME DrainPending
      PROVE  (TypeOK /\ HeldWhileHandled)'
  <2>1. ASSUME NEW k \in NextAny, pending' = RemoveAt(pending, k),
               CompleteIrp(pending[k]), ResetSynch(pending'), UNCHANGED drain
        PROVE  (TypeOK /\ HeldWhileHandled)'
    <3>1. k \in 1 .. Len(pending)
      BY DEF NextAny
    <3>2. pending[k] \in Irps /\ pending' \in Seq(Irps)
      BY <2>1, <3>1, RemovePending
    <3>3. /\ free' \subseteq Irps /\ cancel' \subseteq Irps
          /\ stamp' \in [Irps -> Stamps]
      BY <2>1, <3>2, CompleteIrpType
    <3> QED BY <1>30, <2>1, <3>2, <3>3
            DEF DrainPending, ResetSynch, TypeOK, HeldWhileHandled
  <2>2. CASE drain' = "process" /\ UNCHANGED <<event, pending, free, cancel, stamp>>
    BY <1>30, <2>2 DEF DrainPending, TypeOK, HeldWhileHandled
  <2> QED BY <1>30, <2>1, <2>2 DEF DrainPending
<1>31. ASSUME DrainProcess
      PROVE  (TypeOK /\ HeldWhileHandled)'
  BY <1>31
  DEF DrainProcess, CompleteIrp, TypeOK, HeldWhileHandled
<1>32. ASSUME DrainRetried
      PROVE  (TypeOK /\ HeldWhileHandled)'
  <2>1. CASE retried # <<>>
    <3>0. /\ retried' = Tail(retried) /\ CompleteIrp(Head(retried))
          /\ retried \in Seq(Irps)
      BY <1>32, <2>1 DEF DrainRetried, TypeOK
    <3>1. retried' \in Seq(Irps) /\ Head(retried) \in Irps
      BY <2>1, <3>0, HeadTailProperties
    <3>2. /\ free' \subseteq Irps /\ cancel' \subseteq Irps
          /\ stamp' \in [Irps -> Stamps]
      BY <3>0, <3>1, CompleteIrpType
    <3> QED BY <1>32, <2>1, <3>1, <3>2
            DEF DrainRetried, TypeOK, HeldWhileHandled
  <2>2. CASE retried = <<>>
    BY <1>32, <2>2 DEF DrainRetried, TypeOK, HeldWhileHandled
  <2> QED BY <2>1, <2>2
<1>33. CASE UNCHANGED vars
  BY <1>33 DEF vars, TypeOK, HeldWhileHandled
<1> QED BY <1>1, <1>2, <1>3, <1>4, <1>5, <1>6, <1>7, <1>8, <1>9, <1>10,
        <1>11, <1>12, <1>13, <1>14, <1>15, <1>16, <1>17, <1>18, <1>19, <1>20,
        <1>21, <1>22, <1>23, <1>24, <1>25, <1>26, <1>27, <1>28, <1>29, <1>30,
        <1>31, <1>32, <1>33
        DEF Next, Callback, CallStep, DrainStep

-----------------------------------------------------------------------------
(* Every IRP keeps one owner. *)

HeldApart ==
  \A d, e \in Dispatchers : d # e /\ held[d] # None => held[d] # held[e]

(* A thread lets go of the IRP in its hands. *)
LEMMA ReleaseHeld ==
  ASSUME IInv, NEW d \in Dispatchers, held[d] # None,
         held' = [held EXCEPT ![d] = None]
  PROVE  /\ held[d] \in Irps /\ held[d] \in HeldIrps
         /\ HeldIrps' = HeldIrps \ {held[d]}
         /\ HeldApart'
<1> USE DEF IInv, TypeOK
<1>1. held \in [Dispatchers -> Irps \union {None}]
  OBVIOUS
<1>2. HeldApart
  BY DEF OneOwner, HeldApart
<1>3. held'[d] = None /\ \A e \in Dispatchers \ {d} : held'[e] = held[e]
  BY <1>1
<1>4. HeldIrps' = HeldIrps \ {held[d]}
  <2>1. ASSUME NEW x \in HeldIrps' PROVE x \in HeldIrps \ {held[d]}
    <3>1. PICK e \in Dispatchers : x = held'[e] /\ x # None
      BY <2>1 DEF HeldIrps
    <3> QED BY <1>2, <1>3, <3>1 DEF HeldIrps, HeldApart
  <2>2. ASSUME NEW x \in HeldIrps \ {held[d]} PROVE x \in HeldIrps'
    <3>1. PICK e \in Dispatchers : x = held[e] /\ x # None /\ e # d
      BY <2>2 DEF HeldIrps
    <3>2. x = held'[e]
      BY <1>3, <3>1
    <3> QED BY <3>1, <3>2 DEF HeldIrps
  <2> QED BY <2>1, <2>2
<1>5. HeldApart'
  BY <1>2, <1>3 DEF HeldApart
<1>6. held[d] \in HeldIrps
  BY DEF HeldIrps
<1> QED BY <1>1, <1>4, <1>5, <1>6

(* A thread with empty hands takes an IRP that no other thread has. *)
LEMMA TakeHeld ==
  ASSUME IInv, NEW d \in Dispatchers, held[d] = None, NEW i \in Irps,
         i \notin HeldIrps, held' = [held EXCEPT ![d] = i]
  PROVE  /\ HeldIrps' = HeldIrps \union {i}
         /\ HeldApart'
<1> USE DEF IInv, TypeOK
<1>1. held \in [Dispatchers -> Irps \union {None}] /\ i # None
  BY IoqAssumption
<1>2. HeldApart
  BY DEF OneOwner, HeldApart
<1>3. held'[d] = i /\ \A e \in Dispatchers \ {d} : held'[e] = held[e]
  BY <1>1
<1>4. \A e \in Dispatchers : held[e] # i
  BY <1>1 DEF HeldIrps
<1>5. HeldIrps' = HeldIrps \union {i}
  <2>1. ASSUME NEW x \in HeldIrps' PROVE x \in HeldIrps \union {i}
    <3>1. PICK e \in Dispatchers : x = held'[e] /\ x # None
      BY <2>1 DEF HeldIrps
    <3> QED BY <1>3, <3>1 DEF HeldIrps
  <2>2. ASSUME NEW x \in HeldIrps PROVE x \in HeldIrps'
    <3>1. PICK e \in Dispatchers : x = held[e] /\ x # None /\ e # d
      BY <2>2 DEF HeldIrps
    <3>2. x = held'[e]
      BY <1>3, <3>1
    <3> QED BY <3>1, <3>2 DEF HeldIrps
  <2>3. i \in HeldIrps'
    BY <1>1, <1>3 DEF HeldIrps
  <2> QED BY <2>1, <2>2, <2>3
<1>6. HeldApart'
  BY <1>2, <1>3, <1>4 DEF HeldApart
<1> QED BY <1>5, <1>6

(* An IRP is parked, or comes back. *)
LEMMA ParkIrp ==
  ASSUME TypeOK, NEW i \in Irps, NEW how \in Parkings \ {"no"},
         parked' = [parked EXCEPT ![i] = how]
  PROVE  Parked' = Parked \union {i}
BY DEF TypeOK, Parked

LEMMA UnparkIrp ==
  ASSUME TypeOK, NEW i \in Irps, parked' = [parked EXCEPT ![i] = "no"]
  PROVE  Parked' = Parked \ {i}
BY DEF TypeOK, Parked

(* An IRP that is posted is in the Pending queue, or completed. *)
LEMMA InsertPendingMoves ==
  ASSUME IInv, NEW i \in Irps, i \notin Range(pending), NEW s,
         InsertPending(i, s)
  PROVE  /\ IsInjective(pending')
         /\ \/ /\ Range(pending') = Range(pending) \union {i}
               /\ free' = free \ {i}
            \/ /\ Range(pending') = Range(pending)
               /\ free' = free \union {i}
<1>1. pending \in Seq(Irps) /\ IsInjective(pending)
  BY DEF IInv, TypeOK, OneOwner
<1>2. CASE pending' = Append(pending, i) /\ free' = free \ {i}
  BY <1>1, <1>2, InsertTailProperties
<1>3. CASE pending' = pending /\ CompleteIrp(i)
  BY <1>1, <1>3 DEF CompleteIrp
<1> QED BY <1>2, <1>3 DEF InsertPending

(* A thread takes an IRP off the Pending queue. *)
LEMMA TakePendingMoves ==
  ASSUME IInv, NEW d \in Dispatchers, held[d] = None, NEW b,
         TakePending(d, b)
  PROVE  /\ IsInjective(pending') /\ HeldApart'
         /\ \E i \in Range(pending) :
              /\ Range(pending') = Range(pending) \ {i}
              /\ HeldIrps' = HeldIrps \union {i}
<1>1. PICK k \in NextPending(b) : /\ held' = [held EXCEPT ![d] = pending[k]]
                                 /\ pending' = RemoveAt(pending, k)
  BY DEF TakePending
<1>2. k \in 1 .. Len(pending)
  BY DEF NextPending
<1>3. /\ pending[k] \in Irps /\ pending[k] \in Range(pending)
      /\ Range(pending') = Range(pending) \ {pending[k]}
      /\ IsInjective(pending')
  BY <1>1, <1>2, RemovePending
<1>4. pending[k] \notin HeldIrps
  BY <1>3 DEF IInv, OneOwner, Exclusive
<1>5. HeldIrps' = HeldIrps \union {pending[k]} /\ HeldApart'
  BY <1>1, <1>3, <1>4, TakeHeld
<1> QED BY <1>3, <1>5

LEMMA OwnersUnchanged ==
  ASSUME IInv, UNCHANGED <<pending, process, retried, held, parked, free>>
  PROVE  OneOwner'
BY DEF IInv, OneOwner, Exclusive, HeldIrps, Parked

LEMMA OwnerStep ==
  ASSUME IInv, [Next]_vars
  PROVE  OneOwner'
<1> USE IoqAssumption DEF queues, irpVars, callVars
<1>0. /\ Exclusive(Range(pending), process, Range(retried), HeldIrps, Parked, free)
      /\ IsInjective(pending) /\ IsInjective(retried) /\ HeldApart
      /\ pending \in Seq(Irps) /\ retried \in Seq(Irps)
      /\ TypeOK /\ HeldWhileHandled
  BY DEF IInv, OneOwner, HeldApart, TypeOK
<1>a. \A d \in Dispatchers :
        held[d] # None => held[d] \in Irps /\ held[d] \in HeldIrps
  BY <1>0 DEF TypeOK, HeldIrps
<1>1. ASSUME NEW i \in Irps, NEW s \in Stamps, PostIrp(i, s)
      PROVE  OneOwner'
  <2>1. CASE InsertPending(i, s)
    <3>1. i \in free /\ i \notin Range(pending)
      BY <1>0, <1>1 DEF PostIrp, Exclusive
    <3>2. /\ IsInjective(pending')
          /\ \/ /\ Range(pending') = Range(pending) \union {i}
                /\ free' = free \ {i}
             \/ /\ Range(pending') = Range(pending)
                /\ free' = free \union {i}
      BY <2>1, <3>1, InsertPendingMoves
    <3>3. UNCHANGED <<process, retried, held, parked>>
      BY <1>1 DEF PostIrp
    <3>4. HeldIrps' = HeldIrps /\ Parked' = Parked /\ HeldApart'
      BY <1>0, <3>3 DEF HeldIrps, Parked, HeldApart
    <3> QED BY <1>0, <3>1, <3>2, <3>3, <3>4 DEF OneOwner, Exclusive, HeldApart
  <2>2. CASE UNCHANGED <<pending, stamp, cancel, free>>
    BY <1>1, <2>2, OwnersUnchanged DEF PostIrp
  <2> QED BY <1>1, <2>1, <2>2 DEF PostIrp
<1>2. ASSUME NEW i \in Irps, Expire(i) \/ Cancel(i) \/ Kick(i)
      PROVE  OneOwner'
  BY <1>2, OwnersUnchanged DEF Expire, Cancel, Kick
<1>3. ASSUME NEW k \in 1 .. Len(pending), pending' = RemoveAt(pending, k),
             CompleteIrp(pending[k]), UNCHANGED <<process, retried, held, parked>>
      PROVE  OneOwner'
  <2>1. /\ pending[k] \in Irps /\ pending[k] \in Range(pending)
        /\ Range(pending') = Range(pending) \ {pending[k]}
        /\ IsInjective(pending')
    BY <1>3, RemovePending
  <2>2. free' = free \union {pending[k]}
    BY <1>3 DEF CompleteIrp
  <2>3. HeldIrps' = HeldIrps /\ Parked' = Parked /\ HeldApart'
    BY <1>0, <1>3 DEF HeldIrps, Parked, HeldApart
  <2> QED BY <1>0, <1>3, <2>1, <2>2, <2>3 DEF OneOwner, Exclusive, HeldApart
<1>4. ASSUME NEW i \in Irps, CancelRoutine(i)
      PROVE  OneOwner'
  BY <1>3, <1>4 DEF CancelRoutine
<1>5. ASSUME RemoveExpired
      PROVE  OneOwner'
  BY <1>3, <1>5 DEF RemoveExpired, NextExpired
<1>6. ASSUME DrainPending
      PROVE  OneOwner'
  <2>1. CASE UNCHANGED <<event, pending, free, cancel, stamp>>
    BY <1>6, <2>1, OwnersUnchanged DEF DrainPending
  <2>2. ASSUME NEW k \in NextAny, pending' = RemoveAt(pending, k),
               CompleteIrp(pending[k])
        PROVE  OneOwner'
    BY <1>3, <1>6, <2>2 DEF DrainPending, NextAny
  <2> QED BY <1>6, <2>1, <2>2 DEF DrainPending
<1>7. ASSUME NEW i \in Irps, UnparkComplete(i)
      PROVE  OneOwner'
  <2>1. /\ parked[i] # "no" /\ UNCHANGED <<pending, process, held>>
        /\ i \in Parked
    BY <1>7 DEF UnparkComplete, Parked
  <2>2. HeldIrps' = HeldIrps /\ HeldApart'
    BY <1>0, <2>1 DEF HeldIrps, HeldApart
  <2>3. CASE InsertRetried(i) /\ parked' = [parked EXCEPT ![i] = "no"]
             /\ UNCHANGED <<free, cancel>>
    <3>1. retried' = Append(retried, i) /\ i \notin Range(retried)
      BY <1>0, <2>1, <2>3 DEF InsertRetried, Exclusive
    <3>2. /\ Range(retried') = Range(retried) \union {i}
          /\ IsInjective(retried')
      BY <1>0, <3>1, InsertTailProperties
    <3>3. Parked' = Parked \ {i}
      BY <1>0, <2>3, UnparkIrp
    <3> QED BY <1>0, <2>1, <2>2, <2>3, <3>2, <3>3
            DEF OneOwner, Exclusive, HeldApart
  <2>4. CASE CompleteIrp(i) /\ parked' = [parked EXCEPT ![i] = "no"]
             /\ UNCHANGED <<retried, kicks>>
    <3>1. Parked' = Parked \ {i}
      BY <1>0, <2>4, UnparkIrp
    <3> QED BY <1>0, <2>1, <2>2, <2>4, <3>1
            DEF OneOwner, Exclusive, HeldApart, CompleteIrp
  <2>5. CASE parked' = [parked EXCEPT ![i] = "lost"]
             /\ UNCHANGED <<retried, stamp, kicks, free, cancel>>
    <3>1. Parked' = Parked \union {i}
      BY <1>0, <2>5, ParkIrp DEF Parkings
    <3> QED BY <1>0, <2>1, <2>2, <2>5, <3>1 DEF OneOwner, Exclusive, HeldApart
  <2> QED BY <1>7, <2>3, <2>4, <2>5 DEF UnparkComplete
<1>8. ASSUME NEW i \in Irps, WorkComplete(i)
      PROVE  OneOwner'
  <2>1. /\ i \in Parked /\ UNCHANGED <<pending, process, retried, held>>
        /\ parked' = [parked EXCEPT ![i] = "no"] /\ free' = free \union {i}
    BY <1>8 DEF WorkComplete, CompleteIrp, Parked
  <2>2. HeldIrps' = HeldIrps /\ HeldApart'
    BY <1>0, <2>1 DEF HeldIrps, HeldApart
  <2>3. Parked' = Parked \ {i}
    BY <1>0, <2>1, UnparkIrp
  <2> QED BY <1>0, <2>1, <2>2, <2>3 DEF OneOwner, Exclusive, HeldApart
<1>9. ASSUME NEW i \in Irps, UnparkPrepare(i)
      PROVE  OneOwner'
  <2>1. /\ i \in Parked /\ UNCHANGED <<process, retried, held>>
        /\ i \notin Range(pending)
    BY <1>0, <1>9 DEF UnparkPrepare, Parked, Exclusive
  <2>2. HeldIrps' = HeldIrps /\ HeldApart'
    BY <1>0, <2>1 DEF HeldIrps, HeldApart
  <2>3. CASE InsertPending(i, "inf") /\ parked' = [parked EXCEPT ![i] = "no"]
    <3>1. Parked' = Parked \ {i}
      BY <1>0, <2>3, UnparkIrp
    <3>2. /\ IsInjective(pending')
          /\ \/ /\ Range(pending') = Range(pending) \union {i}
                /\ free' = free \ {i}
             \/ /\ Range(pending') = Range(pending)
                /\ free' = free \union {i}
      BY <2>1, <2>3, InsertPendingMoves
    <3> QED BY <1>0, <2>1, <2>2, <3>1, <3>2 DEF OneOwner, Exclusive, HeldApart
  <2>4. CASE parked' = [parked EXCEPT ![i] = "lost"]
             /\ UNCHANGED <<event, pending, free, cancel, stamp>>
    <3>1. Parked' = Parked \union {i}
      BY <1>0, <2>4, ParkIrp DEF Parkings
    <3> QED BY <1>0, <2>1, <2>2, <2>4, <3>1 DEF OneOwner, Exclusive, HeldApart
  <2> QED BY <1>9, <2>3, <2>4 DEF UnparkPrepare
<1>10. ASSUME NEW d \in Dispatchers,
              \/ \E hints \in SUBSET Irps : Transact(d, hints)
              \/ EnterRetry(d) \/ (\E label \in {"user", "wait"} : LeaveRetry(d, label))
              \/ RetryKick(d) \/ Wake(d) \/ WaitEnds(d) \/ Resync(d) \/ CountPending(d)
       PROVE  OneOwner'
  BY <1>10, OwnersUnchanged
  DEF Transact, EnterRetry, LeaveRetry, RetryKick, Wake, WaitEnds, Resync, CountPending
<1>11. ASSUME NEW d \in Dispatchers, NEW i \in resps[d], EndProcessing(d, i)
       PROVE  OneOwner'
  <2>1. CASE i \in process /\ ~stopped
    <3>1. /\ held[d] = None /\ held' = [held EXCEPT ![d] = i]
          /\ process' = process \ {i} /\ i \in Irps /\ i \notin HeldIrps
          /\ UNCHANGED <<pending, retried, parked, free>>
      BY <1>0, <1>11, <2>1
      DEF EndProcessing, HeldWhileHandled, TypeOK, Exclusive
    <3>2. HeldIrps' = HeldIrps \union {i} /\ HeldApart'
      BY <3>1, TakeHeld
    <3>3. Parked' = Parked
      BY <3>1 DEF Parked
    <3> QED BY <1>0, <2>1, <3>1, <3>2, <3>3 DEF OneOwner, Exclusive, HeldApart
  <2>2. CASE ~(i \in process /\ ~stopped)
    BY <1>11, <2>2, OwnersUnchanged DEF EndProcessing
  <2> QED BY <2>1, <2>2
<1>12. ASSUME NEW d \in Dispatchers, NextComplete(d)
       PROVE  OneOwner'
  <2> DEFINE i == Head(retried)
  <2>1. /\ retried # <<>> /\ held[d] = None /\ held' = [held EXCEPT ![d] = i]
        /\ retried' = Tail(retried)
        /\ UNCHANGED <<pending, process, parked, free>>
    BY <1>0, <1>12 DEF NextComplete, CanTakeRetried, HeldWhileHandled
  <2>2. /\ i \in Range(retried) /\ Range(retried') = Range(retried) \ {i}
        /\ IsInjective(retried')
    BY <1>0, <2>1, RemoveHeadProperties
  <2>3. i \in Irps /\ i \notin HeldIrps
    BY <1>0, <2>2 DEF Exclusive
  <2>4. HeldIrps' = HeldIrps \union {i} /\ HeldApart'
    BY <2>1, <2>3, TakeHeld
  <2>5. Parked' = Parked
    BY <2>1 DEF Parked
  <2> QED BY <1>0, <2>1, <2>2, <2>4, <2>5 DEF OneOwner, Exclusive, HeldApart
<1>13. ASSUME NEW d \in Dispatchers, held[d] # None,
              held' = [held EXCEPT ![d] = None]
       PROVE  /\ held[d] \in Irps /\ held[d] \in HeldIrps
              /\ held[d] \notin Range(pending) \union Range(retried)
              /\ HeldIrps' = HeldIrps \ {held[d]} /\ HeldApart'
  <2>1. /\ held[d] \in Irps /\ held[d] \in HeldIrps
        /\ HeldIrps' = HeldIrps \ {held[d]} /\ HeldApart'
    BY <1>13, ReleaseHeld
  <2> QED BY <1>0, <2>1 DEF Exclusive
<1>14. ASSUME NEW d \in Dispatchers, held[d] # None,
              held' = [held EXCEPT ![d] = None], CompleteIrp(held[d]),
              UNCHANGED <<pending, process, retried, parked>>
       PROVE  OneOwner'
  <2>1. Parked' = Parked /\ free' = free \union {held[d]}
    BY <1>14 DEF Parked, CompleteIrp
  <2>2. /\ held[d] \in Irps /\ held[d] \in HeldIrps
        /\ HeldIrps' = HeldIrps \ {held[d]} /\ HeldApart'
    BY <1>13, <1>14
  <2>3. UNCHANGED <<pending, process, retried>>
    BY <1>14
  <2> QED BY <1>0, <2>1, <2>2, <2>3 DEF OneOwner, Exclusive, HeldApart
<1>15. ASSUME NEW d \in Dispatchers, DispatchComplete(d) \/ PrepareFails(d)
       PROVE  OneOwner'
  <2>1. held[d] # None
    BY <1>0, <1>15 DEF DispatchComplete, PrepareFails, Completing, HeldWhileHandled
  <2> QED BY <1>14, <1>15, <2>1 DEF DispatchComplete, PrepareFails, Release
<1>16. ASSUME NEW d \in Dispatchers, DispatchRetry(d)
       PROVE  OneOwner'
  <2>1. /\ held[d] # None /\ held' = [held EXCEPT ![d] = None]
        /\ retried' = Append(retried, held[d])
        /\ UNCHANGED <<pending, process, parked, free>>
    BY <1>0, <1>16 DEF DispatchRetry, InsertRetried, Completing, HeldWhileHandled
  <2>2. /\ held[d] \in Irps /\ held[d] \in HeldIrps
        /\ held[d] \notin Range(pending) \union Range(retried)
        /\ HeldIrps' = HeldIrps \ {held[d]} /\ HeldApart'
    BY <1>13, <2>1
  <2>3. /\ Range(retried') = Range(retried) \union {held[d]}
        /\ IsInjective(retried')
    BY <1>0, <2>1, <2>2, InsertTailProperties
  <2>4. Parked' = Parked
    BY <2>1 DEF Parked
  <2> QED BY <1>0, <2>1, <2>2, <2>3, <2>4 DEF OneOwner, Exclusive, HeldApart
<1>17. ASSUME NEW d \in Dispatchers, Repost(d)
       PROVE  OneOwner'
  <2>1. /\ held[d] # None /\ held' = [held EXCEPT ![d] = None]
        /\ InsertPending(held[d], "inf")
        /\ UNCHANGED <<process, retried, parked>>
    BY <1>0, <1>17 DEF Repost, Release, Completing, HeldWhileHandled
  <2>2. /\ held[d] \in Irps /\ held[d] \in HeldIrps
        /\ held[d] \notin Range(pending) \union Range(retried)
        /\ HeldIrps' = HeldIrps \ {held[d]} /\ HeldApart'
    BY <1>13, <2>1
  <2>3. /\ IsInjective(pending')
        /\ \/ /\ Range(pending') = Range(pending) \union {held[d]}
              /\ free' = free \ {held[d]}
           \/ /\ Range(pending') = Range(pending)
              /\ free' = free \union {held[d]}
    BY <2>1, <2>2, InsertPendingMoves
  <2>4. Parked' = Parked
    BY <2>1 DEF Parked
  <2> QED BY <1>0, <2>1, <2>2, <2>3, <2>4 DEF OneOwner, Exclusive, HeldApart
<1>18. ASSUME NEW d \in Dispatchers, NEW how \in Parkings, Park(d, how)
       PROVE  OneOwner'
  <2>1. /\ held[d] # None /\ held' = [held EXCEPT ![d] = None]
        /\ parked' = [parked EXCEPT ![held[d]] = how] /\ how # "no"
        /\ UNCHANGED <<pending, process, retried, free>>
    BY <1>0, <1>18 DEF Park, Release, Completing, HeldWhileHandled
  <2>2. /\ held[d] \in Irps /\ held[d] \in HeldIrps
        /\ HeldIrps' = HeldIrps \ {held[d]} /\ HeldApart'
    BY <1>13, <2>1
  <2>3. Parked' = Parked \union {held[d]}
    BY <1>0, <2>1, <2>2, ParkIrp
  <2> QED BY <1>0, <2>1, <2>2, <2>3 DEF OneOwner, Exclusive, HeldApart
<1>19. ASSUME NEW d \in Dispatchers, held[d] = None, NEW b, TakePending(d, b),
              UNCHANGED <<process, retried, parked, free>>
       PROVE  OneOwner'
  <2>1. /\ IsInjective(pending') /\ HeldApart'
        /\ \E i \in Range(pending) :
             /\ Range(pending') = Range(pending) \ {i}
             /\ HeldIrps' = HeldIrps \union {i}
    BY <1>19, TakePendingMoves
  <2>2. Parked' = Parked
    BY <1>19 DEF Parked
  <2> QED BY <1>0, <1>19, <2>1, <2>2 DEF OneOwner, Exclusive, HeldApart
<1>20. ASSUME NEW d \in Dispatchers, NextAfterWait(d)
       PROVE  OneOwner'
  <2>1. held[d] = None
    BY <1>0, <1>20 DEF NextAfterWait, HeldWhileHandled
  <2>2. CASE TakePending(d, None)
    BY <1>19, <1>20, <2>1, <2>2 DEF NextAfterWait
  <2>3. CASE UNCHANGED <<held, pending, event>>
    BY <1>20, <2>3, OwnersUnchanged DEF NextAfterWait
  <2> QED BY <1>20, <2>2, <2>3 DEF NextAfterWait
<1>21. ASSUME NEW d \in Dispatchers, NextInLoop(d)
       PROVE  OneOwner'
  <2>1. held[d] = None
    BY <1>0, <1>21 DEF NextInLoop, HeldWhileHandled
  <2>2. CASE TakePending(d, boundary[d])
    BY <1>19, <1>21, <2>1, <2>2 DEF NextInLoop
  <2>3. CASE UNCHANGED <<event, pending, held>>
    BY <1>21, <2>3, OwnersUnchanged DEF NextInLoop
  <2> QED BY <1>21, <2>2, <2>3 DEF NextInLoop
<1>22. ASSUME NEW d \in Dispatchers, StartProcessing(d)
       PROVE  OneOwner'
  <2>1. /\ held[d] # None /\ held' = [held EXCEPT ![d] = None]
        /\ UNCHANGED <<pending, retried, parked>>
    BY <1>0, <1>22 DEF StartProcessing, HeldWhileHandled
  <2>2. CASE stopped
    <3>1. CompleteIrp(held[d]) /\ process' = process
      BY <1>22, <2>2 DEF StartProcessing
    <3> QED BY <1>14, <2>1, <3>1
  <2>3. CASE ~stopped
    <3>1. process' = process \union {held[d]} /\ free' = free
      BY <1>22, <2>3 DEF StartProcessing
    <3>2. Parked' = Parked
      BY <2>1 DEF Parked
    <3>3. /\ held[d] \in Irps /\ held[d] \in HeldIrps
          /\ HeldIrps' = HeldIrps \ {held[d]} /\ HeldApart'
      BY <1>13, <2>1
    <3> QED BY <1>0, <2>1, <3>1, <3>2, <3>3 DEF OneOwner, Exclusive, HeldApart
  <2> QED BY <2>2, <2>3
<1>23. ASSUME Stop0 \/ Stop
       PROVE  OneOwner'
  BY <1>23, OwnersUnchanged DEF Stop0, Stop
<1>24. ASSUME DrainProcess
       PROVE  OneOwner'
  <2>1. CASE UNCHANGED <<process, free, cancel, stamp>>
    BY <1>24, <2>1, OwnersUnchanged DEF DrainProcess
  <2>2. ASSUME NEW i \in process, process' = process \ {i}, CompleteIrp(i)
        PROVE  OneOwner'
    <3>1. UNCHANGED <<pending, retried, held, parked>> /\ free' = free \union {i}
      BY <1>24, <2>2 DEF DrainProcess, CompleteIrp
    <3>2. HeldIrps' = HeldIrps /\ Parked' = Parked /\ HeldApart'
      BY <1>0, <3>1 DEF HeldIrps, Parked, HeldApart
    <3> QED BY <1>0, <2>2, <3>1, <3>2 DEF OneOwner, Exclusive, HeldApart
  <2> QED BY <1>24, <2>1, <2>2 DEF DrainProcess
<1>25. ASSUME DrainRetried
       PROVE  OneOwner'
  <2>1. CASE UNCHANGED <<retried, free, cancel, stamp>>
    BY <1>25, <2>1, OwnersUnchanged DEF DrainRetried
  <2>2. CASE retried # <<>> /\ retried' = Tail(retried) /\ CompleteIrp(Head(retried))
    <3>1. /\ Head(retried) \in Range(retried)
          /\ Range(retried') = Range(retried) \ {Head(retried)}
          /\ IsInjective(retried')
      BY <1>0, <2>2, RemoveHeadProperties
    <3>2. /\ UNCHANGED <<pending, process, held, parked>>
          /\ free' = free \union {Head(retried)}
      BY <1>25, <2>2 DEF DrainRetried, CompleteIrp
    <3>3. HeldIrps' = HeldIrps /\ Parked' = Parked /\ HeldApart'
      BY <1>0, <3>2 DEF HeldIrps, Parked, HeldApart
    <3> QED BY <1>0, <3>1, <3>2, <3>3 DEF OneOwner, Exclusive, HeldApart
  <2> QED BY <1>25, <2>1, <2>2 DEF DrainRetried
<1>26. CASE UNCHANGED vars
  BY <1>26, OwnersUnchanged DEF vars
<1> QED BY <1>1, <1>2, <1>4, <1>5, <1>6, <1>7, <1>8, <1>9, <1>10, <1>11, <1>12,
        <1>15, <1>16, <1>17, <1>18, <1>20, <1>21, <1>22, <1>23, <1>24, <1>25,
        <1>26
        DEF Next, Callback, CallStep, DrainStep

LEMMA InitInv == Init => IInv
<1> SUFFICES ASSUME Init PROVE IInv
  OBVIOUS
<1>1. TypeOK
  <2>1. /\ stamp \in [Irps -> Stamps] /\ parked \in [Irps -> Parkings]
        /\ pc \in [Dispatchers -> PCs] /\ drain \in Drains
    BY DEF Init, Stamps, PCs, Drains, Parkings
  <2>2. pending \in Seq(Irps) /\ retried \in Seq(Irps)
    BY EmptySeq DEF Init
  <2>3. /\ held \in [Dispatchers -> Irps \union {None}]
        /\ boundary \in [Dispatchers -> Irps \union {None}]
        /\ resps \in [Dispatchers -> SUBSET Irps]
        /\ sent \in [Dispatchers -> SUBSET Irps]
        /\ loop \in [Dispatchers -> Nat]
    BY DEF Init
  <2> QED BY <2>1, <2>2, <2>3 DEF Init, TypeOK
<1>2. HeldWhileHandled
  BY DEF Init, HeldWhileHandled
<1>3. OneOwner
  <2>1. Range(pending) = {} /\ Range(retried) = {}
    BY DEF Init, Range
  <2>2. IsInjective(pending) /\ IsInjective(retried)
    BY DEF Init, IsInjective
  <2>3. HeldIrps = {} /\ Parked = {}
    BY DEF Init, HeldIrps, Parked
  <2>4. \A d \in Dispatchers : held[d] = None
    BY DEF Init
  <2> QED BY <2>1, <2>2, <2>3, <2>4 DEF Init, OneOwner, Exclusive
<1> QED BY <1>1, <1>2, <1>3 DEF IInv

LEMMA InvStep == IInv /\ [Next]_vars => IInv'
BY TypeStep, OwnerStep DEF IInv

(* The inductive invariant holds of every behaviour. *)
THEOREM Inductive == Spec => []IInv
BY InitInv, InvStep, PTL DEF Spec

(* Every variable keeps its type, for any number of IRPs, dispatcher       *)
(* threads and responses, whatever the file system answers: in particular  *)
(* the loop counters of FspVolumeFastTransact never underflow.             *)
THEOREM TypeCorrect == Spec => []TypeOK
<1>1. IInv => TypeOK
  BY DEF IInv
<1> QED BY <1>1, Inductive, PTL

(* Every IRP is in one queue, one thread's hands, parked or free at any    *)
(* time, for every number of IRPs and threads, under stops, cancellations, *)
(* expirations, retries and arbitrary hints of the file system.            *)
THEOREM SingleOwner == Spec => []OneOwner
<1>1. IInv => OneOwner
  BY DEF IInv
<1> QED BY <1>1, Inductive, PTL

-----------------------------------------------------------------------------
(* No wake-up is lost. *)

LEMMA WakeupStep ==
  ASSUME IInv, WakeupNotLost, [Next]_vars
  PROVE  WakeupNotLost'
<1> USE DEF queues, irpVars, callVars, Goto
<1>0. pc \in [Dispatchers -> PCs]
  BY DEF IInv, TypeOK
<1> DEFINE Waking(d) == pc[d] \in {"next", "resync"}
<1>1. ASSUME event' = TRUE PROVE WakeupNotLost'
  BY <1>1 DEF WakeupNotLost
<1>2. ASSUME ResetSynch(pending'), UNCHANGED stopped PROVE WakeupNotLost'
  BY <1>2 DEF WakeupNotLost, ResetSynch
<1>3. ASSUME UNCHANGED <<event, pending, stopped>>,
             \A d \in Dispatchers : Waking(d) => Waking(d)'
      PROVE  WakeupNotLost'
  BY <1>3 DEF WakeupNotLost
<1>4. ASSUME UNCHANGED <<event, pending, stopped, pc>> PROVE WakeupNotLost'
  BY <1>3, <1>4
<1>5. ASSUME NEW d \in Dispatchers, ~Waking(d), NEW label,
             pc' = [pc EXCEPT ![d] = label], UNCHANGED <<event, pending, stopped>>
      PROVE  WakeupNotLost'
  BY <1>0, <1>3, <1>5
<1> HIDE DEF Waking
<1>6. ASSUME NEW i \in Irps, NEW s \in Stamps, PostIrp(i, s)
      PROVE  WakeupNotLost'
  BY <1>1, <1>6 DEF PostIrp, InsertPending
<1>7. ASSUME NEW i \in Irps, Expire(i) \/ Cancel(i) \/ UnparkComplete(i) \/ WorkComplete(i)
      PROVE  WakeupNotLost'
  BY <1>4, <1>7 DEF Expire, Cancel, UnparkComplete, WorkComplete
<1>8. ASSUME NEW i \in Irps, CancelRoutine(i)
      PROVE  WakeupNotLost'
  BY <1>2, <1>8 DEF CancelRoutine
<1>9. ASSUME NEW i \in Irps, Kick(i)
      PROVE  WakeupNotLost'
  BY <1>1, <1>9 DEF Kick
<1>10. ASSUME NEW i \in Irps, UnparkPrepare(i)
       PROVE  WakeupNotLost'
  BY <1>1, <1>4, <1>10 DEF UnparkPrepare, InsertPending
<1>11. ASSUME RemoveExpired
       PROVE  WakeupNotLost'
  BY <1>2, <1>11 DEF RemoveExpired
<1>12. ASSUME NEW d \in Dispatchers,
              \/ \E hints \in SUBSET Irps : Transact(d, hints)
              \/ EnterRetry(d) \/ NextComplete(d)
              \/ \E label \in {"user", "wait"} : LeaveRetry(d, label)
       PROVE  WakeupNotLost'
  <2>1. ~Waking(d) /\ UNCHANGED <<event, pending, stopped>>
    BY <1>12 DEF Transact, EnterRetry, NextComplete, LeaveRetry, Waking
  <2>2. \E label : pc' = [pc EXCEPT ![d] = label]
    BY <1>12 DEF Transact, EnterRetry, NextComplete, LeaveRetry
  <2> QED BY <1>5, <2>1, <2>2
<1>13. ASSUME NEW d \in Dispatchers, NEW i \in resps[d], EndProcessing(d, i)
       PROVE  WakeupNotLost'
  <2>1. ~Waking(d) /\ UNCHANGED <<event, pending, stopped>>
    BY <1>13 DEF EndProcessing, Waking
  <2>2. pc' = pc \/ pc' = [pc EXCEPT ![d] = "respHold"]
    BY <1>13 DEF EndProcessing
  <2> QED BY <1>4, <1>5, <2>1, <2>2
<1>14. ASSUME NEW d \in Dispatchers,
              \/ DispatchComplete(d) \/ DispatchRetry(d) \/ PrepareFails(d)
              \/ \E how \in Parkings : Park(d, how)
       PROVE  WakeupNotLost'
  <2>1. ~Waking(d) /\ UNCHANGED <<event, pending, stopped>>
    BY <1>14 DEF DispatchComplete, DispatchRetry, PrepareFails, Park, Completing, Waking
  <2>2. \E label : pc' = [pc EXCEPT ![d] = label]
    BY <1>14 DEF DispatchComplete, DispatchRetry, PrepareFails, Park, Release
  <2> QED BY <1>5, <2>1, <2>2
<1>15. ASSUME NEW d \in Dispatchers, RetryKick(d) \/ Repost(d)
       PROVE  WakeupNotLost'
  BY <1>1, <1>15 DEF RetryKick, Repost, InsertPending
<1>16. ASSUME NEW d \in Dispatchers, Wake(d)
       PROVE  WakeupNotLost'
  <2>1. pc'[d] = "next"
    BY <1>0, <1>16 DEF Wake
  <2> QED BY <2>1 DEF WakeupNotLost
<1>17. ASSUME NEW d \in Dispatchers, WaitEnds(d) \/ CountPending(d)
       PROVE  WakeupNotLost'
  <2>1. ~Waking(d) /\ UNCHANGED <<event, pending, stopped>>
    BY <1>17 DEF WaitEnds, CountPending, Waking
  <2>2. \E label : pc' = [pc EXCEPT ![d] = label]
    BY <1>17 DEF WaitEnds, CountPending
  <2> QED BY <1>5, <2>1, <2>2
<1>18. ASSUME NEW d \in Dispatchers, NextAfterWait(d)
       PROVE  WakeupNotLost'
  <2>1. CASE TakePending(d, None)
    BY <1>2, <1>18, <2>1 DEF NextAfterWait, TakePending
  <2>2. CASE pc' = [pc EXCEPT ![d] = "resync"]
    <3>1. pc'[d] = "resync"
      BY <1>0, <2>2
    <3> QED BY <3>1 DEF WakeupNotLost
  <2> QED BY <1>18, <2>1, <2>2 DEF NextAfterWait
<1>19. ASSUME NEW d \in Dispatchers, Resync(d)
       PROVE  WakeupNotLost'
  BY <1>2, <1>19 DEF Resync, ResetSynch
<1>20. ASSUME NEW d \in Dispatchers, StartProcessing(d)
       PROVE  WakeupNotLost'
  <2>1. ~Waking(d) /\ UNCHANGED <<event, pending, stopped>>
    BY <1>20 DEF StartProcessing, Waking
  <2>2. \E label : pc' = [pc EXCEPT ![d] = label]
    BY <1>20 DEF StartProcessing, Return
  <2> QED BY <1>5, <2>1, <2>2
<1>21. ASSUME NEW d \in Dispatchers, NextInLoop(d)
       PROVE  WakeupNotLost'
  <2>1. CASE TakePending(d, boundary[d])
    BY <1>2, <1>21, <2>1 DEF NextInLoop, TakePending
  <2>2. CASE Return(d, sent[d]) /\ UNCHANGED <<event, pending, held>>
    <3>1. ~Waking(d) /\ UNCHANGED <<event, pending, stopped>>
      BY <1>21, <2>2 DEF NextInLoop, Waking
    <3> QED BY <1>5, <2>2, <3>1 DEF Return
  <2> QED BY <1>21, <2>1, <2>2 DEF NextInLoop
<1>22. ASSUME Stop0 \/ Stop
       PROVE  WakeupNotLost'
  BY <1>1, <1>22 DEF Stop0, Stop
<1>23. ASSUME DrainPending
       PROVE  WakeupNotLost'
  BY <1>2, <1>4, <1>23 DEF DrainPending
<1>24. ASSUME DrainProcess \/ DrainRetried
       PROVE  WakeupNotLost'
  BY <1>4, <1>24 DEF DrainProcess, DrainRetried
<1>25. CASE UNCHANGED vars
  BY <1>4, <1>25 DEF vars
<1> QED BY <1>6, <1>7, <1>8, <1>9, <1>10, <1>11, <1>12, <1>13, <1>14, <1>15,
        <1>16, <1>17, <1>18, <1>19, <1>20, <1>21, <1>22, <1>23, <1>24, <1>25
        DEF Next, Callback, CallStep, DrainStep

(* Work in the Pending queue, or a stop, is never slept through, for any   *)
(* number of dispatcher threads sharing the event.                         *)
THEOREM NoLostWakeup == Spec => []WakeupNotLost
<1>1. Init => WakeupNotLost
  BY DEF Init, WakeupNotLost
<1>2. IInv /\ WakeupNotLost /\ [Next]_vars => WakeupNotLost'
  BY WakeupStep
<1> QED BY <1>1, <1>2, Inductive, PTL DEF Spec

-----------------------------------------------------------------------------
(* A stopped queue stays empty. *)

LEMMA DrainedStep ==
  ASSUME IInv, StoppedStaysDrained, [Next]_vars
  PROVE  StoppedStaysDrained'
<1> USE DEF queues, irpVars, callVars
<1>1. ASSUME ~stopped, UNCHANGED <<stopped, drain>> PROVE StoppedStaysDrained'
  BY <1>1 DEF StoppedStaysDrained
<1>2. ASSUME UNCHANGED <<stopped, pending, process, retried, drain>>,
             inCancel \subseteq inCancel'
      PROVE  StoppedStaysDrained'
  BY <1>2 DEF StoppedStaysDrained
<1>3. ASSUME NEW k \in 1 .. Len(pending), pending' = RemoveAt(pending, k),
             UNCHANGED <<stopped, process, retried, drain>>,
             inCancel' = inCancel \/ inCancel' = inCancel \ {pending[k]}
      PROVE  StoppedStaysDrained'
  <2>1. Range(pending') = Range(pending) \ {pending[k]}
    BY <1>3, RemovePending
  <2> QED BY <1>3, <2>1 DEF StoppedStaysDrained
<1>4. ASSUME NEW i \in Irps, NEW s \in Stamps, PostIrp(i, s)
      PROVE  StoppedStaysDrained'
  BY <1>1, <1>4 DEF PostIrp, Accepts
<1>5. ASSUME NEW i \in Irps, Expire(i) \/ Cancel(i) \/ WorkComplete(i) \/ Kick(i)
      PROVE  StoppedStaysDrained'
  BY <1>2, <1>5 DEF Expire, Cancel, WorkComplete, Kick
<1>6. ASSUME NEW i \in Irps, CancelRoutine(i)
      PROVE  StoppedStaysDrained'
  <2>1. PICK k \in 1 .. Len(pending) :
          pending[k] = i /\ pending' = RemoveAt(pending, k)
    BY <1>6 DEF CancelRoutine
  <2> QED BY <1>3, <1>6, <2>1 DEF CancelRoutine
<1>7. ASSUME NEW i \in Irps, UnparkComplete(i)
      PROVE  StoppedStaysDrained'
  BY <1>1, <1>2, <1>7 DEF UnparkComplete, InsertRetried
<1>8. ASSUME NEW i \in Irps, UnparkPrepare(i)
      PROVE  StoppedStaysDrained'
  BY <1>1, <1>2, <1>8 DEF UnparkPrepare, Accepts
<1>9. ASSUME RemoveExpired
      PROVE  StoppedStaysDrained'
  BY <1>1, <1>9 DEF RemoveExpired, NextExpired
<1>10. ASSUME NEW d \in Dispatchers,
              \/ \E hints \in SUBSET Irps : Transact(d, hints)
              \/ EnterRetry(d) \/ (\E label \in {"user", "wait"} : LeaveRetry(d, label))
              \/ DispatchComplete(d) \/ RetryKick(d) \/ Wake(d) \/ WaitEnds(d)
              \/ (\E how \in Parkings : Park(d, how))
              \/ Resync(d) \/ CountPending(d) \/ PrepareFails(d)
       PROVE  StoppedStaysDrained'
  BY <1>2, <1>10
  DEF Transact, EnterRetry, LeaveRetry, DispatchComplete, RetryKick, Wake,
      WaitEnds, Park, Resync, CountPending, PrepareFails
<1>11. ASSUME NEW d \in Dispatchers, NEW i \in resps[d], EndProcessing(d, i)
       PROVE  StoppedStaysDrained'
  BY <1>1, <1>2, <1>11 DEF EndProcessing
<1>12. ASSUME NEW d \in Dispatchers,
              NextComplete(d) \/ DispatchRetry(d) \/ Repost(d)
       PROVE  StoppedStaysDrained'
  BY <1>1, <1>12
  DEF NextComplete, CanTakeRetried, DispatchRetry, InsertRetried, Repost, Accepts
<1>13. ASSUME NEW d \in Dispatchers, NextAfterWait(d) \/ NextInLoop(d)
       PROVE  StoppedStaysDrained'
  BY <1>1, <1>2, <1>13 DEF NextAfterWait, NextInLoop, TakePending, NextPending
<1>14. ASSUME NEW d \in Dispatchers, StartProcessing(d)
       PROVE  StoppedStaysDrained'
  <2>1. UNCHANGED <<stopped, pending, retried, drain, inCancel>>
    BY <1>14 DEF StartProcessing
  <2>2. ~stopped \/ process' = process
    BY <1>14 DEF StartProcessing
  <2> QED BY <1>1, <1>2, <2>1, <2>2
<1>15. ASSUME Stop0 \/ Stop
       PROVE  StoppedStaysDrained'
  BY <1>15 DEF Stop0, Stop, StoppedStaysDrained
<1>16. ASSUME DrainPending
       PROVE  StoppedStaysDrained'
  <2>1. ASSUME NEW k \in NextAny, pending' = RemoveAt(pending, k), UNCHANGED drain
        PROVE  StoppedStaysDrained'
    BY <1>3, <1>16, <2>1 DEF DrainPending, NextAny
  <2>2. CASE /\ Range(pending) \subseteq inCancel /\ drain' = "process"
             /\ UNCHANGED <<event, pending, free, cancel, stamp>>
    BY <1>16, <2>2 DEF DrainPending, StoppedStaysDrained
  <2> QED BY <1>16, <2>1, <2>2 DEF DrainPending
<1>17. ASSUME DrainProcess
       PROVE  StoppedStaysDrained'
  BY <1>17 DEF DrainProcess, StoppedStaysDrained
<1>18. ASSUME DrainRetried
       PROVE  StoppedStaysDrained'
  BY <1>18 DEF DrainRetried, StoppedStaysDrained
<1>19. CASE UNCHANGED vars
  BY <1>2, <1>19 DEF vars
<1> QED BY <1>4, <1>5, <1>6, <1>7, <1>8, <1>9, <1>10, <1>11, <1>12, <1>13,
        <1>14, <1>15, <1>16, <1>17, <1>18, <1>19
        DEF Next, Callback, CallStep, DrainStep

(* FspIoqStop with CancelIrps empties the queues for good, although it     *)
(* drains them one after the other under separate acquisitions of the      *)
(* lock, while threads, work items and oplock callbacks keep running.      *)
THEOREM DrainedForGood == Spec => []StoppedStaysDrained
<1>1. Init => StoppedStaysDrained
  BY DEF Init, StoppedStaysDrained
<1>2. IInv /\ StoppedStaysDrained /\ [Next]_vars => StoppedStaysDrained'
  BY DrainedStep
<1> QED BY <1>1, <1>2, Inductive, PTL DEF Spec

-----------------------------------------------------------------------------
(* The queue implements IrpService. *)

(* The IRPs that a thread is about to send to user mode. *)
InHands == {i \in Irps : \E d \in Dispatchers : InHand(d) /\ held[d] = i}

(* How an IRP stands follows from the one place that has it. *)
Standings ==
  \A i \in Irps :
    /\ i \in free => Standing(i) = "free"
    /\ i \in process => Standing(i) = "started"
    /\ i \in Range(pending) \union InHands => Standing(i) = "queued"
    /\ i \in (HeldIrps \ InHands) \union Range(retried) => Standing(i) = "answered"
    /\ parked[i] = "prepare" => Standing(i) = "queued"
    /\ parked[i] \in {"work", "complete"} => Standing(i) = "answered"
    /\ parked[i] = "lost" => Standing(i) = "lost"

LEMMA StandingsHold == IInv => Standings
<1> SUFFICES ASSUME IInv, NEW i \in Irps
             PROVE  /\ i \in free => Standing(i) = "free"
                    /\ i \in process => Standing(i) = "started"
                    /\ i \in Range(pending) \union InHands => Standing(i) = "queued"
                    /\ i \in (HeldIrps \ InHands) \union Range(retried) => Standing(i) = "answered"
                    /\ parked[i] = "prepare" => Standing(i) = "queued"
                    /\ parked[i] \in {"work", "complete"} => Standing(i) = "answered"
                    /\ parked[i] = "lost" => Standing(i) = "lost"
  BY DEF Standings
<1>1. InHands \subseteq HeldIrps
  BY IoqAssumption DEF InHands, HeldIrps
<1>2. Exclusive(Range(pending), process, Range(retried), HeldIrps, Parked, free)
  BY DEF IInv, OneOwner
<1>3. i \in Parked <=> parked[i] # "no"
  BY DEF Parked
<1>4. Standing(i) = CASE i \in free -> "free"
                      [] i \in process -> "started"
                      [] i \in Range(pending) -> "queued"
                      [] i \in InHands -> "queued"
                      [] parked[i] = "prepare" -> "queued"
                      [] parked[i] = "lost" -> "lost"
                      [] OTHER -> "answered"
  BY DEF Standing, InHands
<1> HIDE DEF Standing
<1>5. i \in free => Standing(i) = "free"
  BY <1>1, <1>2, <1>3, <1>4 DEF Exclusive
<1>6. i \in process => Standing(i) = "started"
  BY <1>1, <1>2, <1>3, <1>4 DEF Exclusive
<1>7. i \in Range(pending) \union InHands => Standing(i) = "queued"
  BY <1>1, <1>2, <1>3, <1>4 DEF Exclusive
<1>8. i \in (HeldIrps \ InHands) \union Range(retried) => Standing(i) = "answered"
  BY <1>1, <1>2, <1>3, <1>4 DEF Exclusive
<1>9. /\ parked[i] = "prepare" => Standing(i) = "queued"
      /\ parked[i] \in {"work", "complete"} => Standing(i) = "answered"
      /\ parked[i] = "lost" => Standing(i) = "lost"
  BY <1>1, <1>2, <1>3, <1>4 DEF Exclusive
<1> QED BY <1>5, <1>6, <1>7, <1>8, <1>9

(* No place gains or loses the IRP j. *)
Stays(j) ==
  /\ j \in free' <=> j \in free
  /\ j \in process' <=> j \in process
  /\ j \in Range(pending') <=> j \in Range(pending)
  /\ j \in InHands' <=> j \in InHands
  /\ parked'[j] = parked[j]

LEMMA StayingStands ==
  ASSUME NEW j \in Irps, Stays(j)
  PROVE  Standing(j)' = Standing(j)
<1>1. Standing(j) = CASE j \in free -> "free"
                      [] j \in process -> "started"
                      [] j \in Range(pending) -> "queued"
                      [] j \in InHands -> "queued"
                      [] parked[j] = "prepare" -> "queued"
                      [] parked[j] = "lost" -> "lost"
                      [] OTHER -> "answered"
  BY DEF Standing, InHands
<1>2. Standing(j)' = CASE j \in free' -> "free"
                       [] j \in process' -> "started"
                       [] j \in Range(pending') -> "queued"
                       [] j \in InHands' -> "queued"
                       [] parked'[j] = "prepare" -> "queued"
                       [] parked'[j] = "lost" -> "lost"
                       [] OTHER -> "answered"
  BY DEF Standing, InHands, Range
<1> QED BY <1>1, <1>2 DEF Stays

standings == [i \in Irps |-> Standing(i)]
service == <<standings, stopped>>

(* The moves of one IRP that an application may see. *)
Moves(i) ==
  \/ Standing(i)' = Standing(i)
  \/ ~stopped /\ Standing(i) \in {"free", "answered"} /\ Standing(i)' = "queued"
  \/ ~stopped /\ Standing(i) = "queued" /\ Standing(i)' = "started"
  \/ ~stopped /\ Standing(i) = "started" /\ Standing(i)' = "answered"
  \/ Standing(i) \in {"queued", "answered"} /\ Standing(i)' = "free"
  \/ stopped /\ Standing(i) = "started" /\ Standing(i)' = "free"
  \/ stopped /\ Standing(i) \in {"queued", "answered"} /\ Standing(i)' = "lost"

LEMMA MoveStep ==
  ASSUME NEW i \in Irps, \A j \in Irps \ {i} : Stays(j), Moves(i), UNCHANGED stopped
  PROVE  [Service!Next]_service
<1>1. \A j \in Irps \ {i} : Standing(j)' = Standing(j)
  BY StayingStands
<1>2. standings' = [standings EXCEPT ![i] = Standing(i)']
  BY <1>1 DEF standings
<1>3. standings[i] = Standing(i)
  BY DEF standings
<1>4. CASE Standing(i)' = Standing(i)
  <2>1. standings' = standings
    BY <1>1, <1>4 DEF standings
  <2> QED BY <2>1 DEF service
<1>5. CASE Standing(i)' # Standing(i)
  <2>1. ASSUME NEW from, NEW to, Standing(i) \in from, Standing(i)' = to
        PROVE  Service!Move(i, from, to)
    BY <1>2, <1>3, <2>1 DEF Service!Move, standings
  <2>2. \/ Service!Queue(i) \/ Service!Start(i) \/ Service!Answer(i)
        \/ Service!Complete(i) \/ Service!CancelStarted(i) \/ Service!Lose(i)
    BY <1>5, <2>1
    DEF Moves, Service!Queue, Service!Start, Service!Answer, Service!Complete,
        Service!CancelStarted, Service!Lose
  <2> QED BY <2>2 DEF Service!Next
<1> QED BY <1>4, <1>5

LEMMA StayStep ==
  ASSUME \A j \in Irps : Stays(j), UNCHANGED stopped
  PROVE  UNCHANGED service
<1>1. standings' = standings
  BY StayingStands DEF standings
<1> QED BY <1>1 DEF service

(* What a thread does with its hands. *)
LEMMA HandsUnchanged ==
  ASSUME UNCHANGED <<held, pc>> PROVE InHands' = InHands
BY DEF InHands, InHand

LEMMA HandsMoveOn ==
  ASSUME IInv, NEW d \in Dispatchers, NEW label, UNCHANGED held,
         pc' = [pc EXCEPT ![d] = label],
         pc[d] \in {"count", "prep"} <=> label \in {"count", "prep"}
  PROVE  InHands' = InHands
<1>1. pc \in [Dispatchers -> PCs]
  BY DEF IInv, TypeOK
<1>2. \A e \in Dispatchers : InHand(e)' <=> InHand(e)
  BY <1>1 DEF InHand
<1> QED BY <1>2 DEF InHands

LEMMA HandsTake ==
  ASSUME IInv, NEW d \in Dispatchers, NEW label, NEW i \in Irps, held[d] = None,
         held' = [held EXCEPT ![d] = i], pc' = [pc EXCEPT ![d] = label]
  PROVE  /\ label \in {"count", "prep"} => InHands' = InHands \union {i}
         /\ label \notin {"count", "prep"} => InHands' = InHands
<1>1. pc \in [Dispatchers -> PCs] /\ held \in [Dispatchers -> Irps \union {None}]
  BY DEF IInv, TypeOK
<1>2. pc'[d] = label /\ held'[d] = i
  BY <1>1
<1>3. \A e \in Dispatchers \ {d} : held'[e] = held[e] /\ (InHand(e)' <=> InHand(e))
  BY <1>1 DEF InHand
<1>4. ~InHand(d) /\ (InHand(d)' <=> label \in {"count", "prep"})
  BY <1>2 DEF InHand, IInv, HeldWhileHandled
<1>5. \A j \in Irps : j \in InHands => j \in InHands'
  BY <1>3, <1>4 DEF InHands
<1>6. \A j \in Irps : j \in InHands' => j \in InHands \/ (j = i /\ label \in {"count", "prep"})
  BY <1>2, <1>3, <1>4 DEF InHands
<1>7. label \in {"count", "prep"} => i \in InHands'
  BY <1>2, <1>4 DEF InHands
<1>8. InHands \subseteq Irps /\ InHands' \subseteq Irps
  BY DEF InHands
<1> QED BY <1>5, <1>6, <1>7, <1>8

LEMMA HandsRelease ==
  ASSUME IInv, NEW d \in Dispatchers, NEW label, label \notin {"count", "prep"}, NEW i \in Irps,
         held[d] = i, held' = [held EXCEPT ![d] = None], pc' = [pc EXCEPT ![d] = label]
  PROVE  InHands' = InHands \ {i}
<1>1. pc \in [Dispatchers -> PCs] /\ held \in [Dispatchers -> Irps \union {None}] /\ i # None
  BY IoqAssumption DEF IInv, TypeOK
<1>2. ~InHand(d)'
  BY <1>1 DEF InHand
<1>3. \A e \in Dispatchers \ {d} :
        held'[e] = held[e] /\ held[e] # i /\ (InHand(e)' <=> InHand(e))
  BY <1>1 DEF InHand, IInv, OneOwner
<1>4. \A j \in Irps : j \in InHands' => j \in InHands /\ j # i
  BY <1>2, <1>3 DEF InHands
<1>5. \A j \in Irps : j \in InHands /\ j # i => j \in InHands'
  BY <1>3 DEF InHands
<1>6. InHands \subseteq Irps /\ InHands' \subseteq Irps
  BY DEF InHands
<1> QED BY <1>4, <1>5, <1>6

(* An IRP that leaves the Pending queue to be completed. *)
LEMMA CompletePendingStep ==
  ASSUME IInv, IInv', NEW k \in 1 .. Len(pending), pending' = RemoveAt(pending, k),
         CompleteIrp(pending[k]), UNCHANGED <<stopped, process, parked, held, pc>>
  PROVE  [Service!Next]_service
<1> PICK i \in Irps : i = pending[k]
  BY RemovePending
<1>1. i \in Range(pending) /\ Range(pending') = Range(pending) \ {i}
  BY RemovePending
<1>2. free' = free \union {i} /\ InHands' = InHands
  BY HandsUnchanged DEF CompleteIrp
<1>3. Standings /\ Standings'
  BY StandingsHold, PTL
<1>4. Standing(i) = "queued" /\ Standing(i)' = "free"
  BY <1>1, <1>2, <1>3 DEF Standings
<1> QED BY <1>1, <1>2, <1>4, MoveStep DEF Moves, Stays

(* An IRP that is posted, by a handler, a thread or the end of an oplock   *)
(* break.                                                                  *)
LEMMA PostStep ==
  ASSUME IInv, IInv', NEW i \in Irps, NEW s, i \notin Range(pending),
         InsertPending(i, s), ~stopped, UNCHANGED <<stopped, process>>,
         Standing(i) \in {"free", "queued", "answered"},
         \A j \in Irps \ {i} : parked'[j] = parked[j] /\ (j \in InHands' <=> j \in InHands)
  PROVE  [Service!Next]_service
<1>1. Standings /\ Standings'
  BY StandingsHold, PTL
<1>2. \/ Range(pending') = Range(pending) \union {i} /\ free' = free \ {i}
      \/ Range(pending') = Range(pending) /\ free' = free \union {i}
  BY InsertPendingMoves
<1>3. \A j \in Irps \ {i} : Stays(j)
  BY <1>2 DEF Stays
<1>4. Standing(i)' \in {"queued", "free"}
  BY <1>1, <1>2 DEF Standings
<1>5. Moves(i)
  BY <1>4 DEF Moves
<1> QED BY <1>3, <1>5, MoveStep

LEMMA ServiceStep ==
  ASSUME IInv, IInv', drain # "idle" => stopped, [Next]_vars
  PROVE  [Service!Next]_service
<1> USE IoqAssumption DEF queues, irpVars, callVars
<1>0. Standings /\ Standings'
  BY StandingsHold, PTL
<1>a. /\ Exclusive(Range(pending), process, Range(retried), HeldIrps, Parked, free)
      /\ pending \in Seq(Irps) /\ retried \in Seq(Irps)
      /\ IsInjective(pending) /\ IsInjective(retried)
      /\ parked \in [Irps -> Parkings] /\ held \in [Dispatchers -> Irps \union {None}]
      /\ pc \in [Dispatchers -> PCs]
  BY DEF IInv, OneOwner, TypeOK
<1>b. \A d \in Dispatchers :
        /\ held[d] # None <=> pc[d] \in {"respHold", "retryHold", "count", "prep"}
        /\ held[d] # None => held[d] \in Irps /\ held[d] \in HeldIrps
        /\ InHand(d) => held[d] \in InHands
  BY DEF IInv, TypeOK, HeldWhileHandled, HeldIrps, InHands, InHand
<1>c. ASSUME NEW d \in Dispatchers, Completing(d)
      PROVE  held[d] \in Irps /\ held[d] \notin InHands
  <2>1. held[d] # None /\ held[d] \in Irps /\ ~InHand(d)
    BY <1>b, <1>c DEF Completing, InHand
  <2>2. \A e \in Dispatchers : held[e] = held[d] => e = d
    BY <2>1 DEF IInv, OneOwner
  <2> QED BY <2>1, <2>2 DEF InHands
<1>1. ASSUME NEW i \in Irps, NEW s \in Stamps, PostIrp(i, s)
      PROVE  [Service!Next]_service
  <2>1. /\ i \in free /\ ~stopped /\ UNCHANGED <<stopped, process, parked, held, pc>>
        /\ InHands' = InHands
    BY <1>1, HandsUnchanged DEF PostIrp, Accepts
  <2>2. CASE InsertPending(i, s)
    <3>1. i \notin Range(pending) /\ Standing(i) = "free"
      BY <1>0, <1>a, <2>1 DEF Exclusive, Standings
    <3> QED BY <2>1, <2>2, <3>1, PostStep
  <2>3. CASE UNCHANGED <<pending, stamp, cancel, free>>
    BY <2>1, <2>3, StayStep DEF Stays
  <2> QED BY <1>1, <2>2, <2>3 DEF PostIrp
<1>2. ASSUME UNCHANGED <<stopped, pending, process, parked, free, held, pc>>
      PROVE  [Service!Next]_service
  BY <1>2, HandsUnchanged, StayStep DEF Stays
<1>3. ASSUME NEW i \in Irps, Expire(i) \/ Cancel(i) \/ Kick(i)
      PROVE  [Service!Next]_service
  BY <1>2, <1>3 DEF Expire, Cancel, Kick
<1>4. ASSUME NEW i \in Irps, CancelRoutine(i)
      PROVE  [Service!Next]_service
  <2>1. PICK k \in 1 .. Len(pending) : pending[k] = i /\ pending' = RemoveAt(pending, k)
    BY <1>4 DEF CancelRoutine
  <2>2. CompleteIrp(pending[k]) /\ UNCHANGED <<stopped, process, parked, held, pc>>
    BY <1>4, <2>1 DEF CancelRoutine
  <2> QED BY <2>1, <2>2, CompletePendingStep
<1>5. ASSUME RemoveExpired
      PROVE  [Service!Next]_service
  <2>1. PICK k \in NextExpired : pending' = RemoveAt(pending, k) /\ CompleteIrp(pending[k])
    BY <1>5 DEF RemoveExpired
  <2>2. k \in 1 .. Len(pending) /\ UNCHANGED <<stopped, process, parked, held, pc>>
    BY <1>5 DEF RemoveExpired, NextExpired
  <2> QED BY <2>1, <2>2, CompletePendingStep
<1>6. ASSUME NEW i \in Irps, UnparkComplete(i)
      PROVE  [Service!Next]_service
  <2>1. /\ parked[i] \in {"work", "complete"} /\ Standing(i) = "answered"
        /\ i \notin Range(pending) /\ i \notin process /\ i \notin InHands
        /\ UNCHANGED <<stopped, pending, process, held, pc>> /\ InHands' = InHands
    BY <1>0, <1>6, HandsUnchanged DEF UnparkComplete, Standings
  <2>2. \A j \in Irps \ {i} : parked'[j] = parked[j] /\ (j \in free' <=> j \in free)
    BY <1>6, <1>a DEF UnparkComplete, CompleteIrp, InsertRetried
  <2>3. Moves(i)
    <3>1. CASE InsertRetried(i)
      <4>1. i \in Range(retried')
        BY <1>a, <3>1, InsertTailProperties DEF InsertRetried
      <4> QED BY <1>0, <2>1, <4>1 DEF Standings, Moves
    <3>2. CASE CompleteIrp(i)
      BY <1>0, <2>1, <3>2 DEF CompleteIrp, Standings, Moves
    <3>3. CASE stopped /\ parked' = [parked EXCEPT ![i] = "lost"]
      BY <1>0, <1>a, <2>1, <3>3 DEF Standings, Moves
    <3> QED BY <1>6, <3>1, <3>2, <3>3 DEF UnparkComplete
  <2> QED BY <2>1, <2>2, <2>3, MoveStep DEF Stays
<1>7. ASSUME NEW i \in Irps, WorkComplete(i)
      PROVE  [Service!Next]_service
  <2>1. /\ parked[i] = "work" /\ parked' = [parked EXCEPT ![i] = "no"]
        /\ free' = free \union {i} /\ InHands' = InHands
        /\ UNCHANGED <<stopped, pending, process, held, pc>>
    BY <1>7, HandsUnchanged DEF WorkComplete, CompleteIrp
  <2>2. Standing(i) = "answered" /\ Standing(i)' = "free"
    BY <1>0, <2>1 DEF Standings
  <2> QED BY <1>a, <2>1, <2>2, MoveStep DEF Stays, Moves
<1>8. ASSUME NEW i \in Irps, UnparkPrepare(i)
      PROVE  [Service!Next]_service
  <2>1. /\ parked[i] = "prepare" /\ Standing(i) = "queued" /\ i \notin Range(pending)
        /\ UNCHANGED <<stopped, process, held, pc>> /\ InHands' = InHands
        /\ \A j \in Irps \ {i} : parked'[j] = parked[j]
    <3>1. i \in Parked /\ Standing(i) = "queued"
      BY <1>0, <1>8 DEF UnparkPrepare, Parked, Standings
    <3>2. i \notin Range(pending)
      BY <1>a, <3>1 DEF Exclusive
    <3> QED BY <1>8, <1>a, <3>1, <3>2, HandsUnchanged DEF UnparkPrepare
  <2>2. CASE Accepts(TRUE) /\ InsertPending(i, "inf")
    BY <2>1, <2>2, PostStep DEF Accepts
  <2>3. CASE /\ ~Accepts(TRUE) /\ parked' = [parked EXCEPT ![i] = "lost"]
             /\ UNCHANGED <<event, pending, free, cancel, stamp>>
    <3>1. stopped /\ Standing(i)' = "lost"
      BY <1>0, <1>a, <2>3 DEF Accepts, Standings
    <3> QED BY <2>1, <2>3, <3>1, MoveStep DEF Stays, Moves
  <2> QED BY <1>8, <2>2, <2>3 DEF UnparkPrepare
<1>9. ASSUME NEW d \in Dispatchers, NEW label,
             pc' = [pc EXCEPT ![d] = label],
             pc[d] \in {"count", "prep"} <=> label \in {"count", "prep"},
             UNCHANGED <<stopped, pending, process, parked, free, held>>
      PROVE  [Service!Next]_service
  BY <1>9, HandsMoveOn, StayStep DEF Stays
<1>10. ASSUME NEW d \in Dispatchers,
              \/ \E hints \in SUBSET Irps : Transact(d, hints)
              \/ EnterRetry(d) \/ RetryKick(d) \/ Wake(d) \/ WaitEnds(d) \/ Resync(d)
              \/ CountPending(d)
       PROVE  [Service!Next]_service
  BY <1>9, <1>10 DEF Transact, EnterRetry, RetryKick, Wake, WaitEnds, Resync, CountPending, Goto
<1>11. ASSUME NEW d \in Dispatchers, NEW label \in {"user", "wait"}, LeaveRetry(d, label)
       PROVE  [Service!Next]_service
  BY <1>9, <1>11 DEF LeaveRetry, Goto
<1>12. ASSUME NEW d \in Dispatchers, NEW i \in resps[d], EndProcessing(d, i)
       PROVE  [Service!Next]_service
  <2>1. CASE i \in process /\ ~stopped
    <3>1. /\ process' = process \ {i} /\ held' = [held EXCEPT ![d] = i]
          /\ pc' = [pc EXCEPT ![d] = "respHold"] /\ held[d] = None /\ i \in Irps
          /\ UNCHANGED <<stopped, pending, parked, free>>
      BY <1>12, <1>b, <2>1 DEF EndProcessing, Goto, IInv, TypeOK
    <3>2. InHands' = InHands
      <4> PICK label \in {"respHold"} : pc' = [pc EXCEPT ![d] = label]
        BY <3>1
      <4> QED BY <3>1, HandsTake
    <3>3. i \notin InHands /\ i \in HeldIrps'
      <4>1. held'[d] = i /\ i # None
        BY <1>a, <3>1
      <4>2. Standing(i) = "started"
        BY <1>0, <2>1, <3>1 DEF Standings
      <4>3. i \notin InHands
        BY <1>0, <3>1, <4>2 DEF Standings
      <4> QED BY <4>1, <4>3 DEF HeldIrps
    <3>4. Standing(i) = "started" /\ Standing(i)' = "answered"
      BY <1>0, <2>1, <3>1, <3>2, <3>3 DEF Standings
    <3> QED BY <2>1, <3>1, <3>2, <3>4, MoveStep DEF Stays, Moves
  <2>2. CASE ~(i \in process /\ ~stopped)
    BY <1>2, <1>12, <2>2 DEF EndProcessing
  <2> QED BY <2>1, <2>2
<1>13. ASSUME NEW d \in Dispatchers, NextComplete(d)
       PROVE  [Service!Next]_service
  <2>1. /\ retried # <<>> /\ held[d] = None /\ retried' = Tail(retried)
        /\ held' = [held EXCEPT ![d] = Head(retried)]
        /\ pc' = [pc EXCEPT ![d] = "retryHold"]
        /\ UNCHANGED <<stopped, pending, process, parked, free>>
    BY <1>13, <1>b DEF NextComplete, CanTakeRetried, Goto
  <2>2. Head(retried) \in Irps
    BY <1>a, <2>1, HeadTailProperties
  <2>3. InHands' = InHands
    <3> PICK i \in Irps, label \in {"retryHold"} :
          held' = [held EXCEPT ![d] = i] /\ pc' = [pc EXCEPT ![d] = label]
      BY <2>1, <2>2
    <3> QED BY <2>1, HandsTake
  <2> QED BY <2>1, <2>3, StayStep DEF Stays
<1>14. ASSUME NEW d \in Dispatchers, NEW i \in Irps, held[d] = i, NEW label,
              label \notin {"count", "prep"}, held' = [held EXCEPT ![d] = None],
              pc' = [pc EXCEPT ![d] = label], CompleteIrp(i),
              UNCHANGED <<stopped, pending, process, parked>>
       PROVE  [Service!Next]_service
  <2>1. InHands' = InHands \ {i} /\ free' = free \union {i}
    BY <1>14, HandsRelease DEF CompleteIrp
  <2>2. Standing(i) \in {"queued", "answered"} /\ Standing(i)' = "free"
    BY <1>0, <1>14, <1>b, <2>1 DEF Standings
  <2> QED BY <1>14, <2>1, <2>2, MoveStep DEF Stays, Moves
<1>15. ASSUME NEW d \in Dispatchers, Release(d),
              pc[d] \in {"respHold", "retryHold", "prep"}
       PROVE  \E label \in {"resp", "retry", "loop"} : pc' = [pc EXCEPT ![d] = label]
  BY <1>15 DEF Release, Goto
<1>16. ASSUME NEW d \in Dispatchers, DispatchComplete(d) \/ PrepareFails(d)
       PROVE  [Service!Next]_service
  <2>1. pc[d] \in {"respHold", "retryHold", "prep"} /\ Release(d)
    BY <1>16 DEF DispatchComplete, PrepareFails, Completing
  <2>2. PICK i \in Irps : held[d] = i
    BY <1>b, <2>1
  <2>3. CompleteIrp(i) /\ UNCHANGED <<stopped, pending, process, parked>>
    BY <1>16, <2>2 DEF DispatchComplete, PrepareFails
  <2> QED BY <1>14, <1>15, <2>1, <2>2, <2>3 DEF Release
<1>17. ASSUME NEW d \in Dispatchers, DispatchRetry(d)
       PROVE  [Service!Next]_service
  <2>1. PICK i \in Irps : held[d] = i /\ i \notin InHands
    BY <1>17, <1>c DEF DispatchRetry
  <2>2. \E label \in {"respKick", "retryKick"} : pc' = [pc EXCEPT ![d] = label]
    BY <1>17 DEF DispatchRetry, Goto
  <2>3. held' = [held EXCEPT ![d] = None]
    BY <1>17 DEF DispatchRetry
  <2>4. InHands' = InHands \ {i}
    BY <2>1, <2>2, <2>3, HandsRelease
  <2> QED BY <1>17, <2>1, <2>4, StayStep DEF DispatchRetry, Stays
<1>18. ASSUME NEW d \in Dispatchers, Repost(d)
       PROVE  [Service!Next]_service
  <2>1. pc[d] \in {"respHold", "retryHold", "prep"} /\ Release(d) /\ ~stopped
    BY <1>18 DEF Repost, Completing, Accepts
  <2>2. PICK i \in Irps : held[d] = i /\ i \in HeldIrps
    BY <1>b, <2>1
  <2>3. i \notin Range(pending) /\ Standing(i) \in {"queued", "answered"}
    BY <1>0, <1>a, <2>2 DEF Exclusive, Standings
  <2>4. InHands' = InHands \ {i}
    BY <1>15, <2>1, <2>2, HandsRelease DEF Release
  <2>5. InsertPending(i, "inf") /\ UNCHANGED <<stopped, process, parked>>
    BY <1>18, <2>2 DEF Repost
  <2> QED BY <2>1, <2>3, <2>4, <2>5, PostStep
<1>19. ASSUME NEW d \in Dispatchers, NEW how \in Parkings, Park(d, how)
       PROVE  [Service!Next]_service
  <2>1. pc[d] \in {"respHold", "retryHold", "prep"} /\ Release(d)
    BY <1>19 DEF Park, Completing
  <2>2. PICK i \in Irps : held[d] = i /\ i \in HeldIrps
    BY <1>b, <2>1
  <2>3. InHands' = InHands \ {i}
    BY <1>15, <2>1, <2>2, HandsRelease DEF Release
  <2>4. /\ parked' = [parked EXCEPT ![i] = how]
        /\ UNCHANGED <<stopped, pending, process, free>>
    BY <1>19, <2>2 DEF Park
  <2>5. Standing(i)' = Standing(i)
    <3>1. CASE Completing(d) /\ how \in {"work", "complete"}
      BY <1>0, <1>a, <1>c, <2>2, <2>4, <3>1 DEF Standings
    <3>2. CASE pc[d] = "prep" /\ how = "prepare"
      BY <1>0, <1>a, <1>b, <2>2, <2>4, <3>2 DEF Standings, InHand
    <3> QED BY <1>19, <3>1, <3>2 DEF Park
  <2> QED BY <1>a, <2>3, <2>4, <2>5, MoveStep DEF Stays, Moves
<1>20. ASSUME NEW d \in Dispatchers, NEW b, TakePending(d, b), held[d] = None,
              NEW label \in {"count", "prep"}, pc' = [pc EXCEPT ![d] = label],
              UNCHANGED <<stopped, process, parked, free>>
       PROVE  [Service!Next]_service
  <2>1. PICK k \in NextPending(b) : /\ held' = [held EXCEPT ![d] = pending[k]]
                                   /\ pending' = RemoveAt(pending, k)
    BY <1>20 DEF TakePending
  <2>2. k \in 1 .. Len(pending)
    BY DEF NextPending
  <2>3. PICK i \in Irps : i = pending[k]
    BY <2>1, <2>2, RemovePending
  <2>4. i \in Range(pending) /\ Range(pending') = Range(pending) \ {i}
    BY <2>1, <2>2, <2>3, RemovePending
  <2>5. InHands' = InHands \union {i}
    BY <1>20, <2>1, <2>3, HandsTake
  <2>6. Standing(i) = "queued" /\ Standing(i)' = "queued"
    BY <1>0, <2>4, <2>5 DEF Standings
  <2> QED BY <1>20, <2>4, <2>5, <2>6, MoveStep DEF Stays, Moves
<1>21. ASSUME NEW d \in Dispatchers, NextAfterWait(d)
       PROVE  [Service!Next]_service
  <2>1. held[d] = None /\ UNCHANGED <<stopped, process, parked, free>>
    BY <1>21, <1>b DEF NextAfterWait
  <2>2. CASE TakePending(d, None) /\ Goto(d, "count")
    BY <1>20, <2>1, <2>2 DEF Goto
  <2>3. CASE Goto(d, "resync") /\ UNCHANGED <<held, pending, event>>
    BY <1>9, <1>21, <2>1, <2>3 DEF Goto, NextAfterWait
  <2> QED BY <1>21, <2>2, <2>3 DEF NextAfterWait
<1>22. ASSUME NEW d \in Dispatchers, NextInLoop(d)
       PROVE  [Service!Next]_service
  <2>1. held[d] = None /\ UNCHANGED <<stopped, process, parked, free>>
    BY <1>22, <1>b DEF NextInLoop
  <2>2. CASE TakePending(d, boundary[d]) /\ Goto(d, "prep")
    BY <1>20, <2>1, <2>2 DEF Goto
  <2>3. CASE Return(d, sent[d]) /\ UNCHANGED <<event, pending, held>>
    BY <1>9, <1>22, <2>1, <2>3 DEF Goto, Return, NextInLoop
  <2> QED BY <1>22, <2>2, <2>3 DEF NextInLoop
<1>23. ASSUME NEW d \in Dispatchers, StartProcessing(d)
       PROVE  [Service!Next]_service
  <2>1. /\ pc[d] = "prep" /\ held' = [held EXCEPT ![d] = None]
        /\ UNCHANGED <<stopped, pending, parked>>
    BY <1>23 DEF StartProcessing
  <2>2. PICK i \in Irps : held[d] = i /\ i \in InHands
    BY <1>b, <2>1 DEF InHand
  <2>3. CASE stopped
    BY <1>14, <1>23, <2>1, <2>2, <2>3 DEF StartProcessing, Return, Goto
  <2>4. CASE ~stopped
    <3>1. process' = process \union {i} /\ UNCHANGED free
      BY <1>23, <2>2, <2>4 DEF StartProcessing
    <3>2. \E label \in {"user", "loop"} : pc' = [pc EXCEPT ![d] = label]
      BY <1>23, <2>4 DEF StartProcessing, Return, Goto
    <3>3. InHands' = InHands \ {i}
      BY <2>1, <2>2, <3>2, HandsRelease
    <3>4. Standing(i) = "queued" /\ Standing(i)' = "started"
      BY <1>0, <2>2, <3>1 DEF Standings
    <3> QED BY <2>1, <2>4, <3>1, <3>3, <3>4, MoveStep DEF Stays, Moves
  <2> QED BY <2>3, <2>4
<1>24. ASSUME Stop0 \/ Stop
       PROVE  [Service!Next]_service
  <2>1. /\ stopped' = TRUE
        /\ UNCHANGED <<pending, process, parked, free, held, pc>>
    BY <1>24 DEF Stop0, Stop
  <2>2. \A j \in Irps : Standing(j)' = Standing(j)
    BY <2>1, HandsUnchanged, StayingStands DEF Stays
  <2>3. standings' = standings
    BY <2>2 DEF standings
  <2> QED BY <2>1, <2>3 DEF Service!Next, Service!Stop, standings
<1>25. ASSUME DrainPending
       PROVE  [Service!Next]_service
  <2>1. ASSUME NEW k \in NextAny, pending' = RemoveAt(pending, k), CompleteIrp(pending[k])
        PROVE  [Service!Next]_service
    BY <1>25, <2>1, CompletePendingStep DEF DrainPending, NextAny
  <2>2. CASE UNCHANGED <<event, pending, free, cancel, stamp>>
    BY <1>2, <1>25, <2>2 DEF DrainPending
  <2> QED BY <1>25, <2>1, <2>2 DEF DrainPending
<1>26. ASSUME DrainProcess
       PROVE  [Service!Next]_service
  <2>1. ASSUME NEW i \in process, process' = process \ {i}, CompleteIrp(i)
        PROVE  [Service!Next]_service
    <3>1. /\ stopped /\ i \in Irps /\ free' = free \union {i} /\ InHands' = InHands
          /\ UNCHANGED <<stopped, pending, parked>>
      BY <1>26, <2>1, HandsUnchanged DEF DrainProcess, CompleteIrp, IInv, TypeOK
    <3>2. Standing(i) = "started" /\ Standing(i)' = "free"
      BY <1>0, <3>1 DEF Standings
    <3> QED BY <2>1, <3>1, <3>2, MoveStep DEF Stays, Moves
  <2>2. CASE UNCHANGED <<process, free, cancel, stamp>>
    BY <1>2, <1>26, <2>2 DEF DrainProcess
  <2> QED BY <1>26, <2>1, <2>2 DEF DrainProcess
<1>27. ASSUME DrainRetried
       PROVE  [Service!Next]_service
  <2>1. CASE retried # <<>> /\ retried' = Tail(retried) /\ CompleteIrp(Head(retried))
    <3>1. PICK i \in Irps : i = Head(retried) /\ i \in Range(retried)
      BY <1>a, <2>1, RemoveHeadProperties
    <3>2. /\ free' = free \union {i} /\ InHands' = InHands
          /\ UNCHANGED <<stopped, pending, process, parked>>
      BY <1>27, <2>1, <3>1, HandsUnchanged DEF DrainRetried, CompleteIrp
    <3>3. Standing(i) = "answered" /\ Standing(i)' = "free"
      BY <1>0, <3>1, <3>2 DEF Standings
    <3> QED BY <3>2, <3>3, MoveStep DEF Stays, Moves
  <2>2. CASE UNCHANGED <<retried, free, cancel, stamp>>
    BY <1>2, <1>27, <2>2 DEF DrainRetried
  <2> QED BY <1>27, <2>1, <2>2 DEF DrainRetried
<1>28. CASE UNCHANGED vars
  BY <1>2, <1>28 DEF vars
<1> QED BY <1>1, <1>3, <1>4, <1>5, <1>6, <1>7, <1>8, <1>10, <1>11, <1>12, <1>13,
        <1>16, <1>17, <1>18, <1>19, <1>21, <1>22, <1>23, <1>24, <1>25, <1>26, <1>27,
        <1>28
        DEF Next, Callback, CallStep, DrainStep

(* Seen from the outside, the queue is the service IrpService describes:   *)
(* what was sent to user mode is answered once or ends with the stop, is   *)
(* neither expired nor cancelled (FSP_IOQ_PROCESS_NO_CANCEL), and nothing  *)
(* is sent or answered on a stopped queue.                                 *)
THEOREM ServiceImplemented == Spec => ImplementsService
<1>1. Init => Service!Init
  <2>1. Init => IInv
    BY InitInv
  <2>2. IInv => Standings
    BY StandingsHold
  <2> QED BY <2>1, <2>2 DEF Init, Service!Init, Standings
<1>2. IInv /\ IInv' /\ StoppedStaysDrained /\ [Next]_vars => [Service!Next]_service
  BY ServiceStep DEF StoppedStaysDrained
<1> QED BY <1>1, <1>2, Inductive, DrainedForGood, PTL
        DEF Spec, ImplementsService, Service!Spec, service, standings

=============================================================================
