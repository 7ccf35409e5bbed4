------------------------- MODULE ProcessBufferProofs -------------------------
(***************************************************************************)
(* Theorems about ProcessBuffer and their proofs.                          *)
(***************************************************************************)
EXTENDS ProcessBuffer, ListLemmas, FiniteSetTheorems, TLAPS

-----------------------------------------------------------------------------
(* The inductive invariant. *)

(* What a request has at each point of its progress.  An entry that was    *)
(* just allocated has no Buffer, so that it can be freed when the second   *)
(* look under the lock finds that there are enough.                        *)
Progress ==
  \A r \in Requests :
    /\ pc[r] \in {"alloc", "insert", "back"} => proc[r] \in alive
    /\ entry[r] = None <=> pc[r] \in {"idle", "alloc", "plain"}
    /\ pc[r] = "insert" => entry[r] \notin backed

IInv == TypeOK /\ Progress /\ OneUser /\ NothingLost

(* NothingLost, entry by entry. *)
LEMMA Accounted ==
  ASSUME NEW L, NEW E, NEW X
  PROVE  X = (UNION {Range(L[p]) : p \in Processes}) \union
             {E[r] : r \in {x \in Requests : E[x] # None}}
         <=> \A e : e \in X <=>
               \/ \E p \in Processes : e \in Range(L[p])
               \/ \E r \in Requests : E[r] = e /\ e # None
<1> DEFINE lists == UNION {Range(L[p]) : p \in Processes}
           hands == {E[r] : r \in {x \in Requests : E[x] # None}}
<1>1. \A e : e \in lists <=> \E p \in Processes : e \in Range(L[p])
  OBVIOUS
<1>2. \A e : e \in hands <=> \E r \in Requests : E[r] = e /\ e # None
  OBVIOUS
<1> HIDE DEF lists, hands
<1>3. X = lists \union hands <=> \A e : e \in X <=> e \in lists \/ e \in hands
  OBVIOUS
<1>4. X = lists \union hands
      <=> \A e : e \in X <=>
            \/ \E p \in Processes : e \in Range(L[p])
            \/ \E r \in Requests : E[r] = e /\ e # None
  BY <1>1, <1>2, <1>3, Zenon
<1> QED BY <1>4 DEF lists, hands

(* Lists hold entries, never None. *)
LEMMA Listed ==
  ASSUME NEW p \in Processes, list \in [Processes -> Seq(Entries)]
  PROVE  list[p] \in Seq(Entries) /\ Range(list[p]) \subseteq Entries
<1>1. list[p] \in Seq(Entries)
  OBVIOUS
<1> QED BY <1>1, LenProperties, ElementOfSeq DEF Range

(* An entry that is not allocated is on no list and with no request. *)
LEMMA Unused ==
  ASSUME IInv, NEW e \in Entries \ exist
  PROVE  /\ \A r \in Requests : entry[r] # e
         /\ \A p \in Processes : e \notin Range(list[p])
BY Accounted, ProcessBufferAssumption DEF IInv, NothingLost

(* An entry that leaves the hands of a request is on its list, or freed.   *)
LEMMA ReuseStep ==
  ASSUME IInv, NEW r \in Requests, entry[r] # None,
         ReuseEntry(proc[r], entry[r]),
         entry' = [entry EXCEPT ![r] = None]
  PROVE  /\ list' \in [Processes -> Seq(Entries)]
         /\ backed' \subseteq exist' /\ exist' \subseteq exist
         /\ backed' \subseteq backed
         /\ OneUser'
         /\ NothingLost'
<1> DEFINE p == proc[r]
           e == entry[r]
<1>1. /\ e \in Entries /\ p \in Processes /\ list[p] \in Seq(Entries)
      /\ IsInjective(list[p]) /\ e \notin Range(list[p])
  BY DEF IInv, TypeOK, OneUser
<1>2. /\ \A s \in Requests \ {r} : entry'[s] = entry[s] /\ entry[s] # e
      /\ entry'[r] = None
      /\ \A q \in Processes : e \notin Range(list[q])
      /\ \A q \in Processes : None \notin Range(list[q])
  BY Listed, ProcessBufferAssumption DEF IInv, TypeOK, OneUser
<1>3. CASE p \in known
  <2>1. /\ list' = [list EXCEPT ![p] = <<e>> \o @]
        /\ UNCHANGED <<exist, backed>>
    BY <1>3 DEF ReuseEntry, entryVars
  <2>2. /\ <<e>> \o list[p] \in Seq(Entries)
        /\ Range(<<e>> \o list[p]) = Range(list[p]) \union {e}
        /\ IsInjective(<<e>> \o list[p])
    BY <1>1, InsertHeadProperties
  <2>3. /\ list'[p] = <<e>> \o list[p]
        /\ \A q \in Processes \ {p} : list'[q] = list[q]
        /\ list' \in [Processes -> Seq(Entries)]
    BY <1>1, <2>1, <2>2 DEF IInv, TypeOK
  <2> HIDE DEF p, e
  <2>4. OneUser'
    <3>1. \A q \in Processes : IsInjective(list'[q])
      BY <2>2, <2>3 DEF IInv, OneUser
    <3>2. ASSUME NEW s \in Requests, NEW q \in Processes
          PROVE  entry'[s] \notin Range(list'[q])
      <4>1. entry'[s] \notin Range(list[q]) /\ entry'[s] # e
        BY <1>1, <1>2, ProcessBufferAssumption DEF IInv, OneUser
      <4> QED BY <2>2, <2>3, <4>1
    <3>3. ASSUME NEW q1 \in Processes, NEW q2 \in Processes \ {q1}
          PROVE  Range(list'[q1]) \intersect Range(list'[q2]) = {}
      <4>1. Range(list[q1]) \intersect Range(list[q2]) = {}
        BY DEF IInv, OneUser
      <4>2. e \notin Range(list[q1]) /\ e \notin Range(list[q2])
        BY <1>2
      <4>3. /\ Range(list'[q1]) \subseteq Range(list[q1]) \union (IF q1 = p THEN {e} ELSE {})
            /\ Range(list'[q2]) \subseteq Range(list[q2]) \union (IF q2 = p THEN {e} ELSE {})
        BY <2>2, <2>3
      <4> QED BY <4>1, <4>2, <4>3
    <3> QED BY <1>2, <3>1, <3>2, <3>3 DEF IInv, OneUser
  <2>5. NothingLost'
    <3>1. \A x : (\E q \in Processes : x \in Range(list'[q]))
                <=> x = e \/ \E q \in Processes : x \in Range(list[q])
      BY <1>1, <2>2, <2>3
    <3>2. \A x : (\E s \in Requests : entry'[s] = x /\ x # None)
                <=> x # e /\ \E s \in Requests : entry[s] = x /\ x # None
      BY <1>2 DEF e
    <3>3. \A x : x \in exist <=>
            \/ \E q \in Processes : x \in Range(list[q])
            \/ \E s \in Requests : entry[s] = x /\ x # None
      BY Accounted DEF IInv, NothingLost
    <3>4. e \in exist
      BY <3>3 DEF e
    <3>5. \A x : x \in exist' <=>
            \/ \E q \in Processes : x \in Range(list'[q])
            \/ \E s \in Requests : entry'[s] = x /\ x # None
      BY <2>1, <3>1, <3>2, <3>3, <3>4
    <3> QED BY <3>5, Accounted DEF NothingLost
  <2> QED BY <2>1, <2>3, <2>4, <2>5 DEF IInv, TypeOK
<1>4. CASE p \notin known
  <2>1. /\ exist' = exist \ {e} /\ backed' = backed \ {e}
        /\ UNCHANGED list
    BY <1>4 DEF ReuseEntry
  <2> HIDE DEF p, e
  <2>2. OneUser'
    BY <1>1, <1>2, <2>1, ProcessBufferAssumption DEF IInv, OneUser, TypeOK
  <2>3. NothingLost'
    BY <1>1, <1>2, <2>1, Accounted DEF IInv, NothingLost, e
  <2> QED BY <2>1, <2>2, <2>3 DEF IInv, TypeOK
<1> QED BY <1>3, <1>4

LEMMA InitInv == Init => IInv
<1> SUFFICES ASSUME Init PROVE IInv
  OBVIOUS
<1> USE ProcessBufferAssumption DEF Init
<1>1. TypeOK
  BY DEF TypeOK, PCs
<1>2. Progress
  BY DEF Progress
<1>3. Range(<<>>) = {} /\ IsInjective(<<>>)
  BY DEF Range, IsInjective
<1>4. OneUser
  BY <1>3 DEF OneUser
<1>5. NothingLost
  BY <1>3 DEF NothingLost
<1> QED BY <1>1, <1>2, <1>4, <1>5 DEF IInv

LEMMA InvStep == IInv /\ [Next]_vars => IInv'
<1> SUFFICES ASSUME IInv, [Next]_vars PROVE IInv'
  OBVIOUS
<1> USE ProcessBufferAssumption DEF IInv, To, Take, itemVars, entryVars
<1>1. ASSUME NEW r \in Requests, NEW p \in Processes, AcquireListed(r, p)
      PROVE  IInv'
  <2>1. /\ list[p] \in Seq(Entries) /\ list[p] # <<>> /\ IsInjective(list[p])
    BY <1>1 DEF AcquireListed, TypeOK, OneUser
  <2>2. /\ Head(list[p]) \in Range(list[p]) /\ Head(list[p]) \in Entries
        /\ Tail(list[p]) \in Seq(Entries)
        /\ Range(Tail(list[p])) = Range(list[p]) \ {Head(list[p])}
        /\ IsInjective(Tail(list[p]))
    BY <2>1, RemoveHeadProperties, HeadTailProperties
  <2>3. /\ list'[p] = Tail(list[p])
        /\ \A q \in Processes \ {p} : list'[q] = list[q]
        /\ list' \in [Processes -> Seq(Entries)]
        /\ entry[r] = None
        /\ entry'[r] = Head(list[p])
        /\ \A s \in Requests \ {r} : entry'[s] = entry[s]
        /\ UNCHANGED exist
    BY <1>1, <2>2 DEF AcquireListed, TypeOK, Progress
  <2> DEFINE e == Head(list[p])
  <2> HIDE DEF e
  <2>4. /\ e \in Range(list[p]) /\ e # None
        /\ \A q \in Processes \ {p} : e \notin Range(list[q])
        /\ \A s \in Requests : entry[s] # e
    BY <2>2 DEF OneUser, e
  <2>5. /\ Range(list'[p]) = Range(list[p]) \ {e} /\ IsInjective(list'[p])
        /\ entry'[r] = e
    BY <2>2, <2>3 DEF e
  <2>6. TypeOK'
    BY <1>1, <2>2, <2>3 DEF AcquireListed, TypeOK, PCs
  <2>7. Progress'
    BY <1>1, <2>2 DEF AcquireListed, TypeOK, Progress
  <2>8. OneUser'
    <3>1. \A s1, s2 \in Requests :
            entry'[s1] # None /\ entry'[s1] = entry'[s2] => s1 = s2
      BY <2>4, <2>3, <2>5 DEF OneUser
    <3>2. \A q \in Processes : IsInjective(list'[q])
      BY <2>3, <2>5 DEF OneUser
    <3>3. \A s \in Requests : \A q \in Processes : entry'[s] \notin Range(list'[q])
      BY <2>4, <2>3, <2>5 DEF OneUser
    <3>4. \A q1, q2 \in Processes :
            q1 # q2 => Range(list'[q1]) \intersect Range(list'[q2]) = {}
      BY <2>3, <2>5 DEF OneUser
    <3> QED BY <3>1, <3>2, <3>3, <3>4 DEF OneUser
  <2>9. NothingLost'
    <3>1. \A x : (\E q \in Processes : x \in Range(list'[q]))
                <=> x # e /\ \E q \in Processes : x \in Range(list[q])
      <4>1. ASSUME NEW q \in Processes PROVE Range(list'[q]) = Range(list[q]) \ {e}
        <5>1. CASE q = p
          BY <2>5, <5>1
        <5>2. CASE q # p
          <6>1. list'[q] = list[q] /\ e \notin Range(list[q])
            BY <2>3, <2>4, <5>2
          <6> QED BY <6>1
        <5> QED BY <5>1, <5>2
      <4> QED BY <4>1
    <3>2. \A x : (\E s \in Requests : entry'[s] = x /\ x # None)
                <=> x = e \/ \E s \in Requests : entry[s] = x /\ x # None
      BY <2>4, <2>3, <2>5
    <3>3. \A x : x \in exist <=>
            \/ \E q \in Processes : x \in Range(list[q])
            \/ \E s \in Requests : entry[s] = x /\ x # None
      BY Accounted DEF NothingLost
    <3>4. \A x : x \in exist' <=>
            \/ \E q \in Processes : x \in Range(list'[q])
            \/ \E s \in Requests : entry'[s] = x /\ x # None
      <4> DEFINE OnList(x) == \E q \in Processes : x \in Range(list[q])
                 InHand(x) == \E s \in Requests : entry[s] = x /\ x # None
      <4>1. OnList(e) /\ exist' = exist
        BY <2>3, <2>4
      <4>2. \A x : x \in exist' <=> OnList(x) \/ InHand(x)
        BY <3>3, <4>1
      <4> HIDE DEF OnList, InHand
      <4>3. \A x : x \in exist' <=> (x # e /\ OnList(x)) \/ x = e \/ InHand(x)
        BY <4>1, <4>2
      <4> QED BY <3>1, <3>2, <4>3 DEF OnList, InHand
    <3> QED BY <3>4, Accounted DEF NothingLost
  <2> QED BY <2>6, <2>7, <2>8, <2>9
<1>2. ASSUME NEW r \in Requests, NEW p \in Processes,
             AcquirePlain(r, p) \/ AcquireNew(r, p)
      PROVE  IInv'
  <2>1. TypeOK'
    BY <1>2 DEF AcquirePlain, AcquireNew, TypeOK, PCs
  <2>3. Progress'
    <3>1. CASE AcquirePlain(r, p)
      BY <3>1 DEF AcquirePlain, TypeOK, Progress
    <3>2. CASE AcquireNew(r, p)
      BY <3>2 DEF AcquireNew, TypeOK, Progress
    <3> QED BY <1>2, <3>1, <3>2
  <2>2. UNCHANGED <<list, entry, exist>>
    BY <1>2 DEF AcquirePlain, AcquireNew
  <2> QED BY <2>1, <2>2, <2>3 DEF OneUser, NothingLost
<1>3. ASSUME NEW r \in Requests, Alloc(r)
      PROVE  IInv'
  <2>1. entry[r] = None
    BY <1>3 DEF Alloc, Progress
  <2>2. ASSUME NEW e \in Entries \ exist, exist' = exist \union {e},
               Take(r, e), To(r, "insert")
        PROVE  IInv'
    <3>1. /\ entry'[r] = e /\ \A s \in Requests \ {r} : entry'[s] = entry[s]
          /\ UNCHANGED <<list, backed>>
      BY <1>3, <2>2 DEF Alloc, TypeOK
    <3>2. TypeOK' /\ Progress'
      BY <1>3, <2>2 DEF Alloc, TypeOK, PCs, Progress
    <3>3. OneUser'
      BY <2>2, <3>1, Unused DEF OneUser
    <3>4. NothingLost'
      BY <2>1, <2>2, <3>1 DEF NothingLost
    <3> QED BY <3>2, <3>3, <3>4
  <2>3. CASE To(r, "idle") /\ UNCHANGED <<exist, entry>>
    <3>1. TypeOK' /\ Progress'
      BY <1>3, <2>3 DEF Alloc, TypeOK, PCs, Progress
    <3> QED BY <1>3, <2>3, <3>1 DEF Alloc, OneUser, NothingLost
  <2> QED BY <1>3, <2>2, <2>3 DEF Alloc
<1>4. ASSUME NEW r \in Requests, Insert(r)
      PROVE  IInv'
  <2> DEFINE p == proc[r]
  <2>0. p \in Processes /\ p \in alive /\ entry[r] # None /\ entry[r] \notin backed
    BY <1>4 DEF Insert, TypeOK, Progress
  <2>1. /\ known' = known \union {p} /\ pc[r] = "insert"
        /\ UNCHANGED <<alive, list, backed, proc>>
    BY <1>4 DEF Insert
  <2>2. ASSUME NEW n \in 0 .. CountMax, count' = [count EXCEPT ![p] = n],
               To(r, "back"), UNCHANGED <<exist, entry>>
        PROVE  IInv'
    <3>1. TypeOK'
      BY <2>0, <2>1, <2>2 DEF TypeOK, PCs
    <3>2. Progress'
      BY <2>0, <2>1, <2>2 DEF TypeOK, Progress
    <3> QED BY <2>1, <2>2, <3>1, <3>2 DEF OneUser, NothingLost
  <2>3. CASE p \notin known /\ count' = [count EXCEPT ![p] = 1]
             /\ To(r, "back") /\ UNCHANGED <<exist, entry>>
    <3>1. 1 \in 0 .. CountMax
      OBVIOUS
    <3> QED BY <2>2, <2>3, <3>1
  <2>4. CASE p \in known /\ count[p] < CountMax
             /\ count' = [count EXCEPT ![p] = @ + 1]
             /\ To(r, "back") /\ UNCHANGED <<exist, entry>>
    <3>1. count[p] + 1 \in 0 .. CountMax
      BY <2>0, <2>4 DEF TypeOK
    <3>2. count' = [count EXCEPT ![p] = count[p] + 1]
      BY <2>4
    <3> QED BY <2>2, <2>4, <3>1, <3>2
  <2>5. CASE exist' = exist \ {entry[r]} /\ Take(r, None) /\ To(r, "plain")
             /\ UNCHANGED count
    <3>1. /\ entry'[r] = None
          /\ \A s \in Requests \ {r} : entry'[s] = entry[s] /\ entry[s] # entry[r]
      BY <2>0, <2>5 DEF TypeOK, OneUser
    <3>2. TypeOK'
      BY <2>0, <2>1, <2>5 DEF TypeOK, PCs
    <3>3. Progress'
      BY <2>0, <2>1, <2>5 DEF TypeOK, Progress
    <3>4. OneUser'
      <4>1. \A q \in Processes : None \notin Range(list[q])
        <5>1. ASSUME NEW q \in Processes PROVE Range(list[q]) \subseteq Entries
          <6>1. list[q] \in Seq(Entries)
            BY DEF TypeOK
          <6> QED BY <6>1, LenProperties, ElementOfSeq DEF Range
        <5> QED BY <5>1
      <4> QED BY <2>1, <3>1, <4>1 DEF OneUser
    <3>5. NothingLost'
      BY <2>0, <2>1, <2>5, <3>1 DEF NothingLost, OneUser
    <3> QED BY <3>2, <3>3, <3>4, <3>5
  <2> QED BY <1>4, <2>3, <2>4, <2>5 DEF Insert
<1>5. ASSUME NEW r \in Requests, Back(r)
      PROVE  IInv'
  <2>0. pc[r] = "back" /\ entry[r] # None /\ UNCHANGED <<alive, known, count, proc>>
    BY <1>5 DEF Back, Progress
  <2>1. CASE backed' = backed \union {entry[r]} /\ To(r, "busy")
             /\ UNCHANGED <<list, exist, entry>>
    <3>1. entry[r] \in exist
      BY <2>0 DEF NothingLost
    <3>2. TypeOK'
      BY <2>0, <2>1, <3>1 DEF TypeOK, PCs
    <3>3. Progress'
      BY <2>0, <2>1 DEF TypeOK, Progress, OneUser
    <3> QED BY <2>1, <3>2, <3>3 DEF OneUser, NothingLost
  <2>2. CASE ReuseEntry(proc[r], entry[r]) /\ Take(r, None) /\ To(r, "idle")
    <3>1. /\ list' \in [Processes -> Seq(Entries)]
          /\ backed' \subseteq exist' /\ exist' \subseteq exist
          /\ backed' \subseteq backed /\ OneUser' /\ NothingLost'
      BY <2>0, <2>2, ReuseStep
    <3>2. TypeOK'
      BY <2>0, <2>2, <3>1 DEF TypeOK, PCs
    <3>3. Progress'
      BY <2>0, <2>2, <3>1 DEF TypeOK, Progress
    <3> QED BY <3>1, <3>2, <3>3
  <2> QED BY <1>5, <2>1, <2>2 DEF Back
<1>6. ASSUME NEW r \in Requests, Release(r)
      PROVE  IInv'
  <2>0. /\ pc[r] \in {"busy", "plain"} /\ Take(r, None) /\ To(r, "idle")
        /\ UNCHANGED <<alive, known, count, proc>>
    BY <1>6 DEF Release
  <2>1. CASE entry[r] = None
    <3>1. UNCHANGED <<list, exist, backed, entry>>
      BY <1>6, <2>0, <2>1 DEF Release, TypeOK
    <3>2. TypeOK' /\ Progress'
      BY <2>0, <2>1, <3>1 DEF TypeOK, PCs, Progress
    <3> QED BY <3>1, <3>2 DEF OneUser, NothingLost
  <2>2. CASE entry[r] # None
    <3>1. /\ list' \in [Processes -> Seq(Entries)]
          /\ backed' \subseteq exist' /\ exist' \subseteq exist
          /\ backed' \subseteq backed /\ OneUser' /\ NothingLost'
      BY <1>6, <2>0, <2>2, ReuseStep DEF Release
    <3>2. TypeOK'
      BY <2>0, <2>2, <3>1 DEF TypeOK, PCs
    <3>3. Progress'
      BY <2>0, <2>2, <3>1 DEF TypeOK, Progress
    <3> QED BY <3>1, <3>2, <3>3
  <2> QED BY <2>1, <2>2
<1>7. ASSUME NEW p \in Processes, Exit(p)
      PROVE  IInv'
  <2>1. /\ list'[p] = <<>> /\ list' \in [Processes -> Seq(Entries)]
        /\ \A q \in Processes \ {p} : list'[q] = list[q]
        /\ exist' = exist \ Range(list[p]) /\ backed' = backed \ Range(list[p])
        /\ UNCHANGED <<pc, proc, entry>>
    BY <1>7 DEF Exit, TypeOK
  <2>2. Range(<<>>) = {} /\ IsInjective(<<>>)
    BY DEF Range, IsInjective
  <2>3. TypeOK'
    BY <1>7, <2>1 DEF Exit, TypeOK
  <2>4. Progress'
    BY <1>7, <2>1 DEF Exit, TypeOK, Progress
  <2>5. OneUser'
    BY <2>1, <2>2 DEF OneUser
  <2>6. NothingLost'
    <3>1. \A q \in Processes \ {p} : Range(list[q]) \intersect Range(list[p]) = {}
      BY DEF OneUser
    <3>2. \A r \in Requests : entry[r] \notin Range(list[p])
      BY DEF OneUser
    <3> QED BY <2>1, <2>2, <3>1, <3>2 DEF NothingLost
  <2> QED BY <2>3, <2>4, <2>5, <2>6
<1>8. ASSUME NEW p \in Processes, Start(p)
      PROVE  IInv'
  <2>1. TypeOK' /\ Progress'
    BY <1>8 DEF Start, TypeOK, Progress
  <2> QED BY <1>8, <2>1 DEF Start, OneUser, NothingLost
<1>9. CASE UNCHANGED vars
  BY <1>9 DEF vars, TypeOK, Progress, OneUser, NothingLost
<1> QED
  BY <1>1, <1>2, <1>3, <1>4, <1>5, <1>6, <1>7, <1>8, <1>9 DEF Next

THEOREM Inductive == Spec => []IInv
BY InitInv, InvStep, PTL DEF Spec

(* The variables of the table, the lists and the requests keep their       *)
(* types: a list is never longer than what BufferCount can count, and only *)
(* processes that run are in the table.                                    *)
THEOREM TypeCorrect == Spec => []TypeOK
<1>1. IInv => TypeOK
  BY DEF IInv
<1> QED BY <1>1, Inductive, PTL

(* No buffer is with two requests, or with one and on a list, whatever     *)
(* processes end and start again.                                          *)
THEOREM BufferHasOneUser == Spec => []OneUser
<1>1. IInv => OneUser
  BY DEF IInv
<1> QED BY <1>1, Inductive, PTL

(* Every allocated entry is on a list or with a request: none leaks, none  *)
(* is used after FspProcessBufferCollect has freed it.                     *)
THEOREM NoEntryLost == Spec => []NothingLost
<1>1. IInv => NothingLost
  BY DEF IInv
<1> QED BY <1>1, Inductive, PTL

-----------------------------------------------------------------------------
(* The number of buffers of a process. *)

(* A process that is not in the table has no list, and as long as it runs  *)
(* no request with an entry: the first one that is inserted is number 1.   *)
Unlisted ==
  \A p \in Processes \ known :
    list[p] = <<>> /\ (p \in alive => Holders(p) = {})

LEMMA HoldersFinite ==
  ASSUME NEW p
  PROVE  IsFiniteSet(Holders(p)) /\ Cardinality(Holders(p)) \in Nat
<1>1. Holders(p) \subseteq Requests
  BY DEF Holders
<1> QED BY <1>1, FS_Subset, FS_CardinalityType, ProcessBufferAssumption

(* Who holds an entry changes with the request that acts, and for the      *)
(* process it acts for.                                                    *)
LEMMA HoldersAdd ==
  ASSUME IInv, NEW r \in Requests, NEW p \in Processes,
         pc[r] \notin {"back", "busy"}, pc' = [pc EXCEPT ![r] = "back"],
         proc' = [proc EXCEPT ![r] = p],
         entry'[r] # None, \A s \in Requests \ {r} : entry'[s] = entry[s]
  PROVE  /\ Cardinality(Holders(p)') = Cardinality(Holders(p)) + 1
         /\ Holders(p)' = Holders(p) \union {r}
         /\ \A q \in Processes \ {p} : Holders(q)' = Holders(q)
<1> USE DEF IInv, TypeOK
<1>1. r \notin Holders(p) /\ Holders(p)' = Holders(p) \union {r}
  BY DEF Holders
<1>2. \A q \in Processes \ {p} : Holders(q)' = Holders(q)
  BY DEF Holders
<1> HIDE DEF IInv, TypeOK
<1> QED BY <1>1, <1>2, HoldersFinite, FS_AddElement

LEMMA HoldersRemove ==
  ASSUME IInv, NEW r \in Requests, pc[r] \in {"back", "busy"},
         entry[r] # None, pc' = [pc EXCEPT ![r] = "idle"], UNCHANGED proc,
         entry' = [entry EXCEPT ![r] = None]
  PROVE  /\ Cardinality(Holders(proc[r])) = Cardinality(Holders(proc[r])') + 1
         /\ r \in Holders(proc[r])
         /\ Holders(proc[r])' = Holders(proc[r]) \ {r}
         /\ \A q \in Processes \ {proc[r]} : Holders(q)' = Holders(q)
<1> USE DEF IInv, TypeOK
<1> DEFINE p == proc[r]
<1>1. r \in Holders(p) /\ Holders(p)' = Holders(p) \ {r}
  BY DEF Holders
<1>2. \A q \in Processes \ {p} : Holders(q)' = Holders(q)
  BY DEF Holders
<1> HIDE DEF IInv, TypeOK, p
<1>3. /\ Cardinality(Holders(p) \ {r}) = Cardinality(Holders(p)) - 1
      /\ Cardinality(Holders(p)) \in Nat
  BY <1>1, HoldersFinite, FS_RemoveElement
<1>4. Cardinality(Holders(p)) = Cardinality(Holders(p) \ {r}) + 1
  BY <1>3
<1>5. Cardinality(Holders(p)) = Cardinality(Holders(p)') + 1
  BY <1>1, <1>4
<1> QED BY <1>1, <1>2, <1>5 DEF p

(* A request gives its entry back: it moves from the hands of the request  *)
(* to the list, or disappears with a process that has ended.               *)
LEMMA CountGivenBack ==
  ASSUME IInv, Unlisted, CountExact, NEW r \in Requests,
         pc[r] \in {"back", "busy"}, entry[r] # None,
         ReuseEntry(proc[r], entry[r]), pc' = [pc EXCEPT ![r] = "idle"],
         entry' = [entry EXCEPT ![r] = None],
         UNCHANGED <<alive, known, count, proc>>
  PROVE  (Unlisted /\ CountExact)'
<1> PICK p \in Processes : p = proc[r] /\ p = proc'[r]
  BY DEF IInv, TypeOK
<1>1. /\ list[p] \in Seq(Entries) /\ entry[r] \in Entries
      /\ known \subseteq Processes
  BY DEF IInv, TypeOK
<1>2. /\ Cardinality(Holders(p)) = Cardinality(Holders(p)') + 1
      /\ Holders(p)' \subseteq Holders(p)
      /\ \A q \in Processes \ {p} : Holders(q)' = Holders(q)
  BY HoldersRemove
<1>3. \A q \in Processes \ {p} : list'[q] = list[q]
  BY DEF ReuseEntry, IInv, TypeOK
<1>4. CASE p \in known
  <2>1. list'[p] = <<entry[r]>> \o list[p]
    BY <1>1, <1>4 DEF ReuseEntry, IInv, TypeOK
  <2>2. Len(list'[p]) = Len(list[p]) + 1 /\ Len(list[p]) \in Nat
    BY <1>1, <2>1, InsertHeadProperties, LenProperties
  <2>3. Cardinality(Holders(p)') \in Nat
    <3>1. IsFiniteSet(Holders(p)')
      BY <1>2, HoldersFinite, FS_Subset
    <3> QED BY <3>1, FS_CardinalityType
  <2>4. count'[p] = Len(list'[p]) + Cardinality(Holders(p)')
    BY <1>2, <1>4, <2>2, <2>3 DEF CountExact
  <2>5. CountExact'
    BY <1>1, <1>2, <1>3, <2>4 DEF CountExact
  <2>6. Unlisted'
    BY <1>2, <1>3, <1>4 DEF Unlisted
  <2> QED BY <2>5, <2>6
<1>5. CASE p \notin known
  <2>1. UNCHANGED list
    BY <1>5 DEF ReuseEntry
  <2>2. CountExact'
    BY <1>1, <1>2, <1>5, <2>1 DEF CountExact
  <2>3. Unlisted'
    BY <1>1, <1>2, <1>5, <2>1 DEF Unlisted
  <2> QED BY <2>2, <2>3
<1> QED BY <1>4, <1>5

LEMMA CountStep ==
  ASSUME IInv, Unlisted, CountExact, [Next]_vars
  PROVE  (Unlisted /\ CountExact)'
<1> USE ProcessBufferAssumption DEF IInv, To, Take, itemVars, entryVars
<1>1. ASSUME NEW r \in Requests, NEW p \in Processes, AcquireListed(r, p)
      PROVE  (Unlisted /\ CountExact)'
  <2>1. /\ list[p] \in Seq(Entries) /\ list[p] # <<>> /\ IsInjective(list[p])
        /\ p \in known /\ known \subseteq Processes
    BY <1>1 DEF AcquireListed, TypeOK, OneUser, Unlisted
  <2>2. /\ Len(list[p]) = Len(Tail(list[p])) + 1 /\ Len(Tail(list[p])) \in Nat
        /\ Head(list[p]) \in Entries
    BY <2>1, RemoveHeadProperties, HeadTailProperties, LenProperties
  <2>3. /\ list'[p] = Tail(list[p])
        /\ \A q \in Processes \ {p} : list'[q] = list[q]
        /\ UNCHANGED <<alive, known, count>>
    BY <1>1 DEF AcquireListed, TypeOK
  <2>4. /\ Cardinality(Holders(p)') = Cardinality(Holders(p)) + 1
        /\ \A q \in Processes \ {p} : Holders(q)' = Holders(q)
    <3>1. /\ entry'[r] # None
          /\ \A s \in Requests \ {r} : entry'[s] = entry[s]
      BY <1>1, <2>2 DEF AcquireListed, TypeOK
    <3>2. /\ pc[r] \notin {"back", "busy"} /\ pc' = [pc EXCEPT ![r] = "back"]
          /\ proc' = [proc EXCEPT ![r] = p]
      BY <1>1 DEF AcquireListed
    <3> HIDE DEF IInv
    <3> QED BY <3>1, <3>2, HoldersAdd
  <2>5. count'[p] = Len(list'[p]) + Cardinality(Holders(p)')
    BY <2>1, <2>2, <2>3, <2>4, HoldersFinite DEF CountExact
  <2> QED BY <2>1, <2>3, <2>4, <2>5 DEF Unlisted, CountExact
<1>2. ASSUME NEW r \in Requests, NEW p \in Processes,
             AcquirePlain(r, p) \/ AcquireNew(r, p)
      PROVE  (Unlisted /\ CountExact)'
  <2>1. \A q : Holders(q)' = Holders(q)
    BY <1>2 DEF AcquirePlain, AcquireNew, Holders, TypeOK
  <2> QED BY <1>2, <2>1 DEF AcquirePlain, AcquireNew, Unlisted, CountExact
<1>3. ASSUME NEW r \in Requests, Alloc(r)
      PROVE  (Unlisted /\ CountExact)'
  <2>1. \A q : Holders(q)' = Holders(q)
    BY <1>3 DEF Alloc, Holders, TypeOK
  <2> QED BY <1>3, <2>1 DEF Alloc, Unlisted, CountExact
<1>4. ASSUME NEW r \in Requests, Insert(r)
      PROVE  (Unlisted /\ CountExact)'
  <2> PICK p \in Processes : p = proc[r]
    BY DEF TypeOK
  <2>1. /\ p \in alive /\ entry[r] # None
        /\ known \subseteq Processes /\ list[p] \in Seq(Entries)
    BY <1>4 DEF Insert, TypeOK, Progress
  <2>2. /\ known' = known \union {p} /\ pc[r] = "insert"
        /\ UNCHANGED <<alive, list, proc>>
    BY <1>4 DEF Insert
  <2>3. ASSUME To(r, "back"), UNCHANGED entry
        PROVE  /\ Cardinality(Holders(p)') = Cardinality(Holders(p)) + 1
               /\ \A q \in Processes \ {p} : Holders(q)' = Holders(q)
    <3>1. proc' = [proc EXCEPT ![r] = p]
      BY <2>2 DEF TypeOK
    <3>2. pc[r] \notin {"back", "busy"} /\ pc' = [pc EXCEPT ![r] = "back"]
      BY <2>2, <2>3
    <3>3. entry'[r] # None /\ \A s \in Requests \ {r} : entry'[s] = entry[s]
      BY <2>1, <2>3
    <3> HIDE DEF IInv
    <3> QED BY <2>1, <3>1, <3>2, <3>3, HoldersAdd
  <2>4. Len(list[p]) \in Nat /\ Cardinality(Holders(p)) \in Nat
    BY <2>1, LenProperties, HoldersFinite
  <2>5. CASE p \notin known /\ count' = [count EXCEPT ![p] = 1]
             /\ To(r, "back") /\ UNCHANGED <<exist, entry>>
    <3>1. Len(list[p]) = 0 /\ Cardinality(Holders(p)) = 0
      BY <2>1, <2>5, EmptySeq, FS_EmptySet DEF Unlisted
    <3>2. count'[p] = 1 /\ \A q \in Processes \ {p} : count'[q] = count[q]
      BY <2>1, <2>5 DEF TypeOK
    <3>3. count'[p] = Len(list'[p]) + Cardinality(Holders(p)')
      BY <2>2, <2>3, <2>5, <3>1, <3>2
    <3> QED BY <2>1, <2>2, <2>3, <2>5, <3>2, <3>3 DEF Unlisted, CountExact
  <2>6. CASE p \in known /\ count[p] < CountMax
             /\ count' = [count EXCEPT ![p] = @ + 1]
             /\ To(r, "back") /\ UNCHANGED <<exist, entry>>
    <3>1. count'[p] = count[p] + 1 /\ \A q \in Processes \ {p} : count'[q] = count[q]
      BY <2>1, <2>6 DEF TypeOK
    <3>2. count'[p] = Len(list'[p]) + Cardinality(Holders(p)')
      BY <2>2, <2>3, <2>4, <2>6, <3>1 DEF CountExact
    <3> QED BY <2>1, <2>2, <2>3, <2>6, <3>1, <3>2 DEF Unlisted, CountExact
  <2>7. CASE p \in known /\ exist' = exist \ {entry[r]} /\ Take(r, None)
             /\ To(r, "plain") /\ UNCHANGED count
    <3>1. \A q : Holders(q)' = Holders(q)
      BY <2>2, <2>7 DEF Holders, TypeOK
    <3>2. known' = known
      BY <2>2, <2>7
    <3> QED BY <2>2, <2>7, <3>1, <3>2 DEF Unlisted, CountExact
  <2> QED BY <1>4, <2>5, <2>6, <2>7 DEF Insert
<1>5. ASSUME NEW r \in Requests, Back(r)
      PROVE  (Unlisted /\ CountExact)'
  <2>0. /\ pc[r] = "back" /\ entry[r] # None
        /\ UNCHANGED <<alive, known, count, proc>>
    BY <1>5 DEF Back, Progress
  <2>1. CASE To(r, "busy") /\ UNCHANGED <<list, exist, entry>>
    <3>1. \A q : Holders(q)' = Holders(q)
      BY <2>0, <2>1 DEF Holders, TypeOK
    <3> QED BY <2>0, <2>1, <3>1 DEF Unlisted, CountExact
  <2>2. CASE ReuseEntry(proc[r], entry[r]) /\ Take(r, None) /\ To(r, "idle")
    <3> HIDE DEF IInv
    <3> QED BY <2>0, <2>2, CountGivenBack
  <2> QED BY <1>5, <2>1, <2>2 DEF Back
<1>6. ASSUME NEW r \in Requests, Release(r)
      PROVE  (Unlisted /\ CountExact)'
  <2>0. /\ pc[r] \in {"busy", "plain"} /\ Take(r, None) /\ To(r, "idle")
        /\ UNCHANGED <<alive, known, count, proc>>
    BY <1>6 DEF Release
  <2>1. CASE entry[r] = None
    <3>1. \A q : Holders(q)' = Holders(q)
      BY <2>0, <2>1 DEF Holders, TypeOK
    <3> QED BY <1>6, <2>0, <2>1, <3>1 DEF Release, Unlisted, CountExact
  <2>2. CASE entry[r] # None
    <3>1. pc[r] \in {"back", "busy"}
      BY <2>0, <2>2 DEF Progress
    <3>2. ReuseEntry(proc[r], entry[r])
      BY <1>6, <2>2 DEF Release
    <3> HIDE DEF IInv
    <3> QED BY <2>0, <2>2, <3>1, <3>2, CountGivenBack
  <2> QED BY <2>1, <2>2
<1>7. ASSUME NEW p \in Processes, Exit(p)
      PROVE  (Unlisted /\ CountExact)'
  <2>1. /\ list'[p] = <<>> /\ known' = known \ {p} /\ alive' = alive \ {p}
        /\ \A q \in Processes \ {p} : list'[q] = list[q] /\ count'[q] = count[q]
        /\ known \subseteq Processes
    BY <1>7 DEF Exit, TypeOK
  <2>2. \A q : Holders(q)' = Holders(q)
    BY <1>7 DEF Exit, Holders
  <2> QED BY <2>1, <2>2 DEF Unlisted, CountExact
<1>8. ASSUME NEW p \in Processes, Start(p)
      PROVE  (Unlisted /\ CountExact)'
  <2>1. \A q : Holders(q)' = Holders(q)
    BY <1>8 DEF Start, Holders
  <2>2. Holders(p) = {}
    BY <1>8 DEF Start, Holders
  <2> QED BY <1>8, <2>1, <2>2 DEF Start, Unlisted, CountExact
<1>9. CASE UNCHANGED vars
  <2>1. \A q : Holders(q)' = Holders(q)
    BY <1>9 DEF vars, Holders
  <2> QED BY <1>9, <2>1 DEF vars, Unlisted, CountExact
<1> QED
  BY <1>1, <1>2, <1>3, <1>4, <1>5, <1>6, <1>7, <1>8, <1>9 DEF Next

(* BufferCount is the number of entries on the list of a process and with  *)
(* its requests, so that the limit neither leaks nor is passed.            *)
THEOREM CountIsExact == Spec => []CountExact
<1>1. Init => Unlisted /\ CountExact
  BY DEF Init, Unlisted, CountExact, Holders
<1>2. IInv /\ Unlisted /\ CountExact /\ [Next]_vars => (Unlisted /\ CountExact)'
  BY CountStep
<1> QED BY <1>1, <1>2, Inductive, PTL DEF Spec

=============================================================================
