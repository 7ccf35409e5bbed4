-------------------------- MODULE MetaCacheProofs --------------------------
(***************************************************************************)
(* Theorems about MetaCache and FileInfo and their proofs, for every       *)
(* number of file nodes, requests and invalidators and any capacity: the   *)
(* reference counts of the items are exact, a file node finds under its    *)
(* index its own metadata only, and what it finds is what user mode has.   *)
(***************************************************************************)
EXTENDS FileInfo, ListLemmas, FiniteSetTheorems

-----------------------------------------------------------------------------
(* The inductive invariant. *)

RequestPCs == {"idle", "reading", "asked", "answered", "retry", "setting", "drop", "add",
               "store", "stored"}
Answers == Nat \cup (Nat \X Nat)
Seens == Nat \cup Seq(Nat)
Requests == [pc : RequestPCs, file : Nodes \cup {None}, answer : Answers, seen : Seens,
             index : 0 .. MaxIndex]
Items == [index : Indices, node : Nodes, version : Answers, expired : BOOLEAN]

TypeOK ==
  /\ list \in Seq(Items)
  /\ last \in 0 .. MaxIndex
  /\ refs \in [Indices -> Int]
  /\ stored \in [Nodes -> 0 .. MaxIndex]
  /\ req \in [Irps -> Requests]

(* An index is given to one item and never again. *)
IndexedOnce ==
  /\ IsInjective(list)
  /\ \A x, y \in Range(list) : x.index = y.index => x = y
  /\ \A x \in Range(list) : x.index <= last

(* The item that a file node, or a request on its behalf, has the index of *)
(* is one of the file node.  Requests keep indices of what they read or    *)
(* are about to store.                                                     *)
Indexed(i, n) == i \in 0 .. last /\ \A x \in Range(list) : x.index = i => x.node = n
IndicesKnown ==
  /\ \A n \in Nodes : Indexed(stored[n], n)
  /\ \A q \in Irps :
       /\ req[q].pc # "idle" => req[q].file \in Nodes
       /\ req[q].index <= last
       /\ req[q].pc \notin {"reading", "store"} => req[q].index = 0
       /\ req[q].pc = "reading" => req[q].index \in Indices
       /\ req[q].pc = "store" => Indexed(req[q].index, req[q].file)

Counted ==
  /\ \A i \in Indices : IsFiniteSet(Readers(i))
  /\ RefsExact

CacheInv == TypeOK /\ IndexedOnce /\ IndicesKnown /\ Counted

(* Who owns a file node, shared or exclusive, can be told from the         *)
(* progress of the requests.                                               *)
NodeTypeOK ==
  /\ change \in [Nodes -> Nat]
  /\ version \in [Nodes -> Nat]
  /\ owner \in [Nodes -> Irps \cup {None}]
  /\ sharers \in [Nodes -> SUBSET Irps]
  /\ inv \in [Invalidators -> [pc : {"idle", "changed", "remove"},
                               file : Nodes \cup {None}, index : 0 .. MaxIndex]]
  /\ \A v \in Invalidators : inv[v].pc # "idle" => inv[v].file \in Nodes

Setting == {"setting", "drop", "add", "store", "stored"}
Asking == {"asked", "answered"}
LocksKnown ==
  /\ \A q \in Irps : req[q].pc \in Setting => owner[req[q].file] = q
  /\ \A q \in Irps : req[q].pc \in Asking => q \in sharers[req[q].file]
  /\ \A q \in Irps, n \in Nodes : owner[n] = q =>
       req[q].file = n /\ req[q].pc \in Setting \cup {"reading"}
  /\ \A n \in Nodes : sharers[n] # {} => owner[n] = None

(* Under an index there is nothing but the metadata that user mode has.    *)
Current(i, n) == \A x \in Range(list) : x.index = i => x.version = version[n]

(* Metadata that user mode may have changed already and that the node does *)
(* not know of yet, or not yet under the index that it keeps.              *)
Pending(n) == \E q \in Irps : owner[n] = q /\ req[q].pc \in {"drop", "add"}
Unknown(n) == \E q \in Irps : owner[n] = q /\ req[q].pc \in {"drop", "add", "store"}

(* The answer that a request has is the metadata of the file; when it has  *)
(* let go of the node it is so as long as the change number tells.         *)
Answered(q) ==
  LET n == req[q].file
  IN /\ req[q].pc \in {"answered", "drop", "add"} => req[q].answer = version[n]
     /\ req[q].pc = "store" => Current(req[q].index, n)
     /\ req[q].pc = "retry" =>
          /\ req[q].seen \in Nat /\ req[q].seen <= change[n]
          /\ req[q].seen = change[n] => req[q].answer = version[n] \/ Pending(n)

AnswersCurrent ==
  /\ \A n \in Nodes : ~Unknown(n) => Current(stored[n], n)
  /\ \A q \in Irps : Answered(q)

NodeInv ==
  /\ NodeTypeOK
  /\ kind \in ItemKinds => LocksKnown
  /\ kind \in {"security", "ea"} => AnswersCurrent

-----------------------------------------------------------------------------
(* The list, and requests that do not read an item. *)

LEMMA InList ==
  ASSUME NEW s \in Seq(Items)
  PROVE  /\ \A k \in 1 .. Len(s) : s[k] \in Items /\ s[k] \in Range(s)
         /\ \A x \in Range(s) : x \in Items /\ \E k \in 1 .. Len(s) : s[k] = x
         /\ \A i : {k \in 1 .. Len(s) : s[k].index = i} # {}
                     <=> \E x \in Range(s) : x.index = i
<1>1. DOMAIN s = 1 .. Len(s) /\ \A k \in 1 .. Len(s) : s[k] \in Items
  BY LenProperties, ElementOfSeq
<1>2. Range(s) = {s[k] : k \in 1 .. Len(s)}
  BY <1>1 DEF Range
<1> QED BY <1>1, <1>2

LEMMA ListMembers ==
  ASSUME list \in Seq(Items)
  PROVE  /\ \A k \in 1 .. Len(list) : list[k] \in Items /\ list[k] \in Range(list)
         /\ \A x \in Range(list) : x \in Items /\ \E k \in 1 .. Len(list) : list[k] = x
         /\ \A i : Cached(i) <=> \E x \in Range(list) : x.index = i
         /\ \A i : \A k \in At(i) : k \in 1 .. Len(list) /\ list[k].index = i
BY InList DEF Cached, At

LEMMA CachedNext ==
  ASSUME list' \in Seq(Items)
  PROVE  \A i : Cached(i)' <=> \E x \in Range(list') : x.index = i
BY InList DEF Cached, At

(* What a step that reads no item and stores no index does to requests.    *)
Unread ==
  /\ req' \in [Irps -> Requests]
  /\ \A q \in Irps :
       \/ req'[q] = req[q]
       \/ /\ req[q].pc # "reading"
          /\ req'[q].pc \notin {"reading", "store"} /\ req'[q].index = 0
          /\ req'[q].pc # "idle" => req'[q].file \in Nodes

LEMMA UnreadReaders ==
  ASSUME Unread
  PROVE  \A i : Readers(i)' = Readers(i)
<1>1. ASSUME NEW i, NEW q \in Irps
      PROVE  (req'[q].pc = "reading" /\ req'[q].index = i)
                <=> (req[q].pc = "reading" /\ req[q].index = i)
  BY DEF Unread
<1> QED BY <1>1 DEF Readers

LEMMA CountsAreNumbers ==
  ASSUME Counted, NEW i \in Indices
  PROVE  IsFiniteSet(Readers(i)) /\ Cardinality(Readers(i)) \in Nat
BY FS_CardinalityType DEF Counted

LEMMA QuietInv ==
  ASSUME CacheInv, Unread, UNCHANGED <<list, last, refs, stored>>
  PROVE  CacheInv'
<1>1. TypeOK' /\ IndexedOnce'
  BY DEF CacheInv, TypeOK, IndexedOnce, Unread
<1>2. IndicesKnown'
  <2>1. last \in Nat
    BY MetaCacheAssumption DEF CacheInv, TypeOK
  <2>2. \A n \in Nodes : Indexed(stored[n], n)'
    BY DEF CacheInv, IndicesKnown, Indexed
  <2>3. ASSUME NEW q \in Irps
        PROVE  /\ req'[q].pc # "idle" => req'[q].file \in Nodes
               /\ req'[q].index <= last
               /\ req'[q].pc \notin {"reading", "store"} => req'[q].index = 0
               /\ req'[q].pc = "reading" => req'[q].index \in Indices
    BY <2>1 DEF CacheInv, IndicesKnown, Unread
  <2>4. ASSUME NEW q \in Irps, req'[q].pc = "store"
        PROVE  Indexed(req[q].index, req[q].file)'
    BY <2>4 DEF CacheInv, IndicesKnown, Unread, Indexed
  <2> QED BY <2>2, <2>3, <2>4 DEF IndicesKnown
<1>3. Counted'
  <2>1. \A i : Cached(i)' = Cached(i)
    BY DEF Cached, At
  <2> QED BY <2>1, UnreadReaders DEF CacheInv, Counted, RefsExact
<1> QED BY <1>1, <1>2, <1>3 DEF CacheInv

-----------------------------------------------------------------------------
(* Items leave the list. *)

(* What is left when the item with an index, if there is one, is removed.  *)
Removed(i) ==
  /\ list' \in Seq(Items) /\ IsInjective(list')
  /\ Range(list') = {x \in Range(list) : x.index # i}
  /\ refs' = [j \in Indices |-> IF j = i /\ Cached(i) THEN refs[j] - 1 ELSE refs[j]]

LEMMA RemovePosition ==
  ASSUME CacheInv, NEW k \in 1 .. Len(list), list' = RemoveAt(list, k),
         Dereference(list[k].index)
  PROVE  Removed(list[k].index)
<1>1. /\ list' \in Seq(Items) /\ IsInjective(list')
      /\ Range(list') = Range(list) \ {list[k]}
  BY RemoveAtProperties DEF CacheInv, TypeOK, IndexedOnce
<1>2. list[k] \in Items /\ list[k] \in Range(list) /\ Cached(list[k].index)
  BY ListMembers DEF CacheInv, TypeOK
<1>3. Range(list') = {x \in Range(list) : x.index # list[k].index}
  BY <1>1, <1>2 DEF CacheInv, IndexedOnce
<1>4. refs' = [refs EXCEPT ![list[k].index] = @ - 1]
  BY DEF Dereference
<1> QED BY <1>1, <1>2, <1>3, <1>4 DEF Removed, CacheInv, TypeOK

LEMMA InvalidateRemoves ==
  ASSUME CacheInv, NEW i, InvalidateItem(i)
  PROVE  Removed(i)
<1>1. CASE Cached(i)
  <2>1. PICK k \in At(i) : list' = RemoveAt(list, k)
    BY <1>1 DEF InvalidateItem
  <2>2. k \in 1 .. Len(list) /\ list[k].index = i
    BY ListMembers DEF CacheInv, TypeOK
  <2>3. Dereference(list[k].index)
    BY <1>1, <2>2 DEF InvalidateItem
  <2> QED BY <2>1, <2>2, <2>3, RemovePosition
<1>2. CASE ~Cached(i)
  <2>1. UNCHANGED <<list, refs>>
    BY <1>2 DEF InvalidateItem
  <2>2. \A x \in Range(list) : x.index # i
    BY <1>2, ListMembers DEF CacheInv, TypeOK
  <2>3. Range(list) = {x \in Range(list) : x.index # i}
    BY <2>2
  <2> QED BY <1>2, <2>1, <2>3 DEF Removed, CacheInv, TypeOK, IndexedOnce
<1> QED BY <1>1, <1>2

LEMMA SweepRemoves ==
  ASSUME CacheInv, Sweep
  PROVE  Removed(Head(list).index)
<1>1. /\ list # <<>> /\ list' = Tail(list)
      /\ refs' = [refs EXCEPT ![Head(list).index] = @ - 1]
  BY DEF Sweep, Dereference
<1>2. /\ list' \in Seq(Items) /\ IsInjective(list') /\ Head(list) \in Range(list)
      /\ Range(list') = Range(list) \ {Head(list)}
  BY <1>1, RemoveHeadProperties DEF CacheInv, TypeOK, IndexedOnce
<1>3. Head(list) \in Items /\ Cached(Head(list).index)
  BY <1>2, ListMembers DEF CacheInv, TypeOK
<1>4. Range(list') = {x \in Range(list) : x.index # Head(list).index}
  BY <1>2 DEF CacheInv, IndexedOnce
<1> QED BY <1>1, <1>2, <1>3, <1>4 DEF Removed, CacheInv, TypeOK

LEMMA RemovedInv ==
  ASSUME CacheInv, NEW i, Removed(i), Unread, UNCHANGED last,
         stored' \in [Nodes -> 0 .. MaxIndex], \A n \in Nodes : stored'[n] \in {stored[n], 0}
  PROVE  CacheInv'
<1>0. last \in Nat /\ \A x \in Range(list) : x \in Items
  BY MetaCacheAssumption, ListMembers DEF CacheInv, TypeOK
<1>1. TypeOK'
  BY DEF CacheInv, TypeOK, Removed, Unread
<1>2. IndexedOnce'
  BY DEF CacheInv, IndexedOnce, Removed
<1>3. IndicesKnown'
  <2>1. \A j, n : Indexed(j, n) => Indexed(j, n)'
    BY DEF Removed, Indexed
  <2>2. \A n : Indexed(0, n)'
    BY <1>0 DEF Removed, Indexed, Items, Indices
  <2>3. ASSUME NEW n \in Nodes
        PROVE  Indexed(stored[n], n)'
    <3>1. PICK j : j = stored'[n]
      OBVIOUS
    <3>2. Indexed(j, n)'
      BY <2>1, <2>2, <3>1 DEF CacheInv, IndicesKnown
    <3> QED BY <3>1, <3>2
  <2>4. ASSUME NEW q \in Irps
        PROVE  /\ req'[q].pc # "idle" => req'[q].file \in Nodes
               /\ req'[q].index <= last
               /\ req'[q].pc \notin {"reading", "store"} => req'[q].index = 0
               /\ req'[q].pc = "reading" => req'[q].index \in Indices
    BY <1>0 DEF CacheInv, IndicesKnown, Unread
  <2>5. ASSUME NEW q \in Irps, req'[q].pc = "store"
        PROVE  Indexed(req[q].index, req[q].file)'
    <3>1. PICK j, n : j = req[q].index /\ n = req[q].file
      OBVIOUS
    <3>2. req'[q] = req[q] /\ Indexed(j, n)
      BY <2>5, <3>1 DEF CacheInv, IndicesKnown, Unread
    <3>3. Indexed(j, n)'
      BY <2>1, <3>2
    <3> QED BY <3>1, <3>2, <3>3
  <2> QED BY <2>3, <2>4, <2>5 DEF IndicesKnown
<1>4. Counted'
  <2>1. list' \in Seq(Items)
    BY DEF Removed
  <2>2. \A j : Cached(j)' <=> Cached(j) /\ j # i
    BY <2>1, CachedNext, ListMembers DEF CacheInv, TypeOK, Removed
  <2>3. ASSUME NEW j \in Indices
        PROVE  /\ IsFiniteSet(Readers(j)')
               /\ refs'[j] = (IF Cached(j)' THEN 1 ELSE 0) + Cardinality(Readers(j)')
    <3>1. Readers(j)' = Readers(j)
      BY UnreadReaders
    <3>2. /\ IsFiniteSet(Readers(j)) /\ Cardinality(Readers(j)) \in Nat
          /\ refs[j] = (IF Cached(j) THEN 1 ELSE 0) + Cardinality(Readers(j))
      BY CountsAreNumbers DEF CacheInv, Counted, RefsExact
    <3>3. refs'[j] = IF j = i /\ Cached(j) THEN refs[j] - 1 ELSE refs[j]
      BY DEF Removed
    <3> QED BY <2>2, <3>1, <3>2, <3>3
  <2> QED BY <2>3 DEF Counted, RefsExact
<1> QED BY <1>1, <1>2, <1>3, <1>4 DEF CacheInv

-----------------------------------------------------------------------------
(* Items are read, added, stored and expire. *)

LEMMA IdleRequest == Idle \in Requests /\ Idle.pc = "idle" /\ Idle.index = 0
<1>1. 0 \in Answers /\ 0 \in Seens /\ 0 \in 0 .. MaxIndex
  BY MetaCacheAssumption DEF Answers, Seens
<1> QED BY <1>1 DEF Idle, Requests, RequestPCs

LEMMA ReferenceInv ==
  ASSUME CacheInv, NEW q \in Irps, NEW n \in Nodes, Reference(q, n),
         req[q].pc # "reading", UNCHANGED <<list, last, stored>>
  PROVE  CacheInv'
<1>1. PICK i : i = stored[n]
  OBVIOUS
<1>2. i \in Indices /\ Cached(i)
  BY <1>1, ListMembers DEF CacheInv, TypeOK, Reference, Use, Items
<1>3. PICK r : r = [Idle EXCEPT !.pc = "reading", !.file = n, !.index = i]
  OBVIOUS
<1>4. /\ req' = [req EXCEPT ![q] = r] /\ r \in Requests
      /\ r.pc = "reading" /\ r.index = i /\ r.file = n
  <2>1. r \in Requests /\ r.pc = "reading" /\ r.index = i /\ r.file = n
    <3>1. 0 \in Answers /\ 0 \in Seens /\ i \in 0 .. MaxIndex
      BY <1>2, MetaCacheAssumption DEF Answers, Seens, Indices
    <3>2. r = [pc |-> "reading", file |-> n, answer |-> 0, seen |-> 0, index |-> i]
      BY <1>3 DEF Idle
    <3> QED BY <3>1, <3>2 DEF Requests, RequestPCs
  <2> QED BY <1>1, <1>3, <2>1 DEF Reference, Use
<1>5. /\ req' \in [Irps -> Requests] /\ req'[q] = r
      /\ \A p \in Irps \ {q} : req'[p] = req[p]
  BY <1>4 DEF CacheInv, TypeOK
<1>6. refs' = [refs EXCEPT ![i] = @ + 1]
  BY <1>1 DEF Reference
<1>7. TypeOK' /\ IndexedOnce'
  <2>1. refs' \in [Indices -> Int]
    BY <1>2, <1>6 DEF CacheInv, TypeOK
  <2> QED BY <1>5, <2>1 DEF CacheInv, TypeOK, IndexedOnce
<1>8. IndicesKnown'
  <2>1. \A m \in Nodes : Indexed(stored[m], m)'
    BY DEF CacheInv, IndicesKnown, Indexed
  <2>2. i <= last
    BY <1>1 DEF CacheInv, IndicesKnown, Indexed
  <2>3. ASSUME NEW p \in Irps
        PROVE  /\ req'[p].pc # "idle" => req'[p].file \in Nodes
               /\ req'[p].index <= last
               /\ req'[p].pc \notin {"reading", "store"} => req'[p].index = 0
               /\ req'[p].pc = "reading" => req'[p].index \in Indices
    BY <1>2, <1>4, <1>5, <2>2 DEF CacheInv, IndicesKnown
  <2>4. ASSUME NEW p \in Irps, req'[p].pc = "store"
        PROVE  Indexed(req[p].index, req[p].file)'
    BY <1>4, <1>5, <2>4 DEF CacheInv, IndicesKnown, Indexed
  <2> QED BY <2>1, <2>3, <2>4 DEF IndicesKnown
<1>9. Counted'
  <2>1. \A j : Cached(j)' = Cached(j)
    BY DEF Cached, At
  <2>2. ASSUME NEW j \in Indices
        PROVE  /\ IsFiniteSet(Readers(j)')
               /\ refs'[j] = (IF Cached(j)' THEN 1 ELSE 0) + Cardinality(Readers(j)')
    <3>1. /\ IsFiniteSet(Readers(j)) /\ Cardinality(Readers(j)) \in Nat
          /\ refs[j] = (IF Cached(j) THEN 1 ELSE 0) + Cardinality(Readers(j))
      BY CountsAreNumbers DEF CacheInv, Counted, RefsExact
    <3>2. CASE j = i
      <4>1. q \notin Readers(j) /\ Readers(j)' = Readers(j) \cup {q}
        BY <1>4, <1>5, <3>2 DEF Readers
      <4>2. /\ IsFiniteSet(Readers(j)')
            /\ Cardinality(Readers(j)') = Cardinality(Readers(j)) + 1
        BY <3>1, <4>1, FS_AddElement
      <4>3. refs'[j] = refs[j] + 1
        BY <1>6, <3>2 DEF CacheInv, TypeOK
      <4> QED BY <2>1, <3>1, <4>2, <4>3
    <3>3. CASE j # i
      <4>1. Readers(j)' = Readers(j) /\ refs'[j] = refs[j]
        BY <1>4, <1>5, <1>6, <3>3 DEF Readers, CacheInv, TypeOK
      <4> QED BY <2>1, <3>1, <4>1
    <3> QED BY <3>2, <3>3
  <2> QED BY <2>2 DEF Counted, RefsExact
<1> QED BY <1>7, <1>8, <1>9 DEF CacheInv

LEMMA ReadInv ==
  ASSUME CacheInv, NEW q \in Irps, Read(q)
  PROVE  CacheInv'
<1>1. PICK i : i = req[q].index
  OBVIOUS
<1>2. i \in Indices /\ req[q].pc = "reading"
  BY <1>1 DEF Read, CacheInv, IndicesKnown
<1>3. Idle \in Requests /\ Idle.pc = "idle" /\ Idle.index = 0
  BY IdleRequest
<1>4. /\ req' \in [Irps -> Requests] /\ req'[q] = Idle
      /\ \A p \in Irps \ {q} : req'[p] = req[p]
  BY <1>3 DEF Read, Finish, CacheInv, TypeOK
<1>5. refs' = [refs EXCEPT ![i] = @ - 1] /\ UNCHANGED <<list, last, stored>>
  BY <1>1 DEF Read, Dereference, nodeVars
<1>6. TypeOK' /\ IndexedOnce'
  <2>1. refs' \in [Indices -> Int]
    BY <1>2, <1>5 DEF CacheInv, TypeOK
  <2> QED BY <1>4, <1>5, <2>1 DEF CacheInv, TypeOK, IndexedOnce
<1>7. IndicesKnown'
  <2>1. last \in Nat
    BY MetaCacheAssumption DEF CacheInv, TypeOK
  <2>2. \A m \in Nodes : Indexed(stored[m], m)'
    BY <1>5 DEF CacheInv, IndicesKnown, Indexed
  <2>3. ASSUME NEW p \in Irps
        PROVE  /\ req'[p].pc # "idle" => req'[p].file \in Nodes
               /\ req'[p].index <= last
               /\ req'[p].pc \notin {"reading", "store"} => req'[p].index = 0
               /\ req'[p].pc = "reading" => req'[p].index \in Indices
    BY <1>3, <1>4, <2>1 DEF CacheInv, IndicesKnown
  <2>4. ASSUME NEW p \in Irps, req'[p].pc = "store"
        PROVE  Indexed(req[p].index, req[p].file)'
    BY <1>3, <1>4, <1>5, <2>4 DEF CacheInv, IndicesKnown, Indexed
  <2> QED BY <1>5, <2>2, <2>3, <2>4 DEF IndicesKnown
<1>8. Counted'
  <2>1. \A j : Cached(j)' = Cached(j)
    BY <1>5 DEF Cached, At
  <2>2. ASSUME NEW j \in Indices
        PROVE  /\ IsFiniteSet(Readers(j)')
               /\ refs'[j] = (IF Cached(j)' THEN 1 ELSE 0) + Cardinality(Readers(j)')
    <3>1. /\ IsFiniteSet(Readers(j)) /\ Cardinality(Readers(j)) \in Nat
          /\ refs[j] = (IF Cached(j) THEN 1 ELSE 0) + Cardinality(Readers(j))
      BY CountsAreNumbers DEF CacheInv, Counted, RefsExact
    <3>2. CASE j = i
      <4>1. q \in Readers(j) /\ Readers(j)' = Readers(j) \ {q}
        BY <1>1, <1>2, <1>3, <1>4, <3>2 DEF Readers
      <4>2. /\ IsFiniteSet(Readers(j)')
            /\ Cardinality(Readers(j)') = Cardinality(Readers(j)) - 1
        BY <3>1, <4>1, FS_RemoveElement
      <4>3. refs'[j] = refs[j] - 1
        BY <1>5, <3>2 DEF CacheInv, TypeOK
      <4> QED BY <2>1, <3>1, <4>2, <4>3
    <3>3. CASE j # i
      <4>1. Readers(j)' = Readers(j) /\ refs'[j] = refs[j]
        BY <1>1, <1>3, <1>4, <1>5, <3>3 DEF Readers, CacheInv, TypeOK
      <4> QED BY <2>1, <3>1, <4>1
    <3> QED BY <3>2, <3>3
  <2> QED BY <2>2 DEF Counted, RefsExact
<1> QED BY <1>6, <1>7, <1>8 DEF CacheInv

(* The list after an item was added: without the evicted one.              *)
LEMMA AddList ==
  ASSUME CacheInv, NEW n \in Nodes, NEW v \in Answers, AddItem(n, v)
  PROVE  LET x == [index |-> NextIndex, node |-> n, version |-> v, expired |-> FALSE]
         IN /\ list' \in Seq(Items) /\ IsInjective(list')
            /\ Range(list') = {y \in Range(list) : y.index \notin Evicted} \cup {x}
            /\ \A i \in Evicted : Cached(i)
<1> DEFINE kept == IF Full THEN Tail(list) ELSE list
<1>1. PICK x : x = [index |-> NextIndex, node |-> n, version |-> v, expired |-> FALSE]
  OBVIOUS
<1>2. x \in Items /\ x.index = NextIndex
  BY <1>1 DEF AddItem, Items
<1>3. list \in Seq(Items) /\ Len(list) \in Nat
  BY LenProperties DEF CacheInv, TypeOK
<1>4. /\ kept \in Seq(Items) /\ IsInjective(kept)
      /\ Range(kept) = {y \in Range(list) : y.index \notin Evicted}
      /\ \A i \in Evicted : Cached(i)
  <2>1. CASE Full
    <3>1. list # <<>>
      BY <1>3, <2>1, MetaCacheAssumption DEF Full
    <3>2. /\ kept \in Seq(Items) /\ IsInjective(kept) /\ Head(list) \in Range(list)
          /\ Range(kept) = Range(list) \ {Head(list)}
      BY <1>3, <2>1, <3>1, RemoveHeadProperties DEF CacheInv, IndexedOnce
    <3> HIDE DEF kept
    <3>3. Evicted = {Head(list).index}
      BY <2>1 DEF Evicted
    <3>4. Range(kept) = {y \in Range(list) : y.index \notin Evicted}
      BY <3>2, <3>3 DEF CacheInv, IndexedOnce
    <3> QED BY <1>3, <3>2, <3>3, <3>4, ListMembers
  <2>2. CASE ~Full
    <3>1. Evicted = {}
      BY <2>2 DEF Evicted
    <3> QED BY <1>3, <2>2, <3>1 DEF CacheInv, IndexedOnce
  <2> QED BY <2>1, <2>2
<1>5. list' = Append(kept, x)
  BY <1>1 DEF AddItem
<1> HIDE DEF kept
<1>6. x \notin Range(kept)
  <2>1. \A y \in Range(list) : y.index <= last /\ y.index # last + 1
    <3>1. last \in Nat /\ \A y \in Range(list) : y.index \in Nat /\ y.index <= last
      BY <1>3, ListMembers, MetaCacheAssumption
      DEF CacheInv, IndexedOnce, TypeOK, Items, Indices
    <3> QED BY <3>1
  <2> QED BY <1>2, <1>4, <2>1 DEF NextIndex
<1>7. /\ list' \in Seq(Items) /\ Range(list') = Range(kept) \cup {x} /\ IsInjective(list')
  BY <1>2, <1>4, <1>5, <1>6, InsertTailProperties
<1> QED BY <1>1, <1>4, <1>7

LEMMA AddInv ==
  ASSUME CacheInv, NEW q \in Irps, Add(q)
  PROVE  CacheInv'
<1>1. PICK n, v : n = req[q].file /\ v = req[q].answer
  OBVIOUS
<1>2. n \in Nodes /\ v \in Answers /\ req[q].pc = "add" /\ req[q].index = 0
  BY <1>1 DEF Add, CacheInv, TypeOK, IndicesKnown, Requests
<1>3. last \in Nat /\ \A y \in Range(list) : y \in Items /\ y.index \in Nat /\ y.index <= last
  BY ListMembers, MetaCacheAssumption DEF CacheInv, IndexedOnce, TypeOK, Items, Indices
<1>4. CASE AddItem(n, v)
            /\ req' = [req EXCEPT ![q].pc = "store", ![q].index = NextIndex]
  <2>1. PICK x : x = [index |-> NextIndex, node |-> n, version |-> v, expired |-> FALSE]
    OBVIOUS
  <2>2. /\ list' \in Seq(Items) /\ IsInjective(list')
        /\ Range(list') = {y \in Range(list) : y.index \notin Evicted} \cup {x}
        /\ \A i \in Evicted : Cached(i)
    BY <1>2, <1>4, <2>1, AddList
  <2>3. x.index = last + 1 /\ x.node = n
    BY <2>1 DEF NextIndex
  <2>4. /\ last' = last + 1 /\ last + 1 \in Indices /\ UNCHANGED stored
        /\ refs' = [i \in Indices |-> IF i = last + 1 THEN 1
                                      ELSE IF i \in Evicted THEN refs[i] - 1 ELSE refs[i]]
    BY <1>4 DEF AddItem, Add, NextIndex
  <2>5. PICK r : r = [req[q] EXCEPT !.pc = "store", !.index = last + 1]
    OBVIOUS
  <2>6. req' = [req EXCEPT ![q] = r]
    BY <1>4, <2>5 DEF NextIndex
  <2>7. /\ r \in Requests /\ r.pc = "store" /\ r.index = last + 1 /\ r.file = n
    <3>1. last + 1 \in 0 .. MaxIndex /\ req[q] \in Requests
      BY <1>3, <2>4, MetaCacheAssumption DEF CacheInv, TypeOK, Indices
    <3> QED BY <1>1, <2>5, <3>1 DEF Requests, RequestPCs
  <2>8. /\ req' \in [Irps -> Requests] /\ req'[q] = r
        /\ \A p \in Irps \ {q} : req'[p] = req[p]
    BY <2>6, <2>7 DEF CacheInv, TypeOK
  <2>9. TypeOK'
    <3>1. refs' \in [Indices -> Int]
      BY <2>4 DEF CacheInv, TypeOK
    <3>2. last' \in 0 .. MaxIndex
      BY <1>3, <2>4, MetaCacheAssumption DEF Indices
    <3> QED BY <2>2, <2>4, <2>8, <3>1, <3>2 DEF CacheInv, TypeOK
  <2>10. IndexedOnce'
    BY <1>3, <2>2, <2>3, <2>4 DEF CacheInv, IndexedOnce
  <2>11. \A i, m : Indexed(i, m) => Indexed(i, m)'
    <3>1. ASSUME NEW i, NEW m, Indexed(i, m)
          PROVE  i \in 0 .. last + 1 /\ \A y \in Range(list') : y.index = i => y.node = m
      <4>1. i \in 0 .. last /\ i # last + 1
        BY <1>3, <3>1 DEF Indexed
      <4> QED BY <1>3, <2>2, <2>3, <3>1, <4>1 DEF Indexed
    <3> QED BY <2>4, <3>1 DEF Indexed
  <2>12. IndicesKnown'
    <3>1. ASSUME NEW m \in Nodes
          PROVE  Indexed(stored[m], m)'
      <4>1. PICK i : i = stored[m]
        OBVIOUS
      <4>2. Indexed(i, m)'
        BY <2>11, <4>1 DEF CacheInv, IndicesKnown
      <4> QED BY <2>4, <4>1, <4>2
    <3>2. PICK k : k = last + 1 /\ Indexed(k, n)'
      <4>1. PICK i : i = last + 1
        OBVIOUS
      <4>2. \A y \in Range(list') : y.index = i => y.node = n
        BY <1>3, <2>2, <2>3, <4>1
      <4>3. Indexed(i, n)'
        BY <1>3, <2>4, <4>1, <4>2 DEF Indexed
      <4> QED BY <4>1, <4>3
    <3>3. ASSUME NEW p \in Irps
          PROVE  /\ req'[p].pc # "idle" => req'[p].file \in Nodes
                 /\ req'[p].index <= last'
                 /\ req'[p].pc \notin {"reading", "store"} => req'[p].index = 0
                 /\ req'[p].pc = "reading" => req'[p].index \in Indices
      <4>1. CASE p = q
        BY <1>2, <1>3, <2>4, <2>7, <2>8, <4>1
      <4>2. CASE p # q
        <5>1. req'[p] = req[p] /\ req[p].index \in Nat /\ req[p].index <= last
          BY <2>8, <4>2, MetaCacheAssumption DEF CacheInv, IndicesKnown, TypeOK, Requests
        <5> QED BY <1>3, <2>4, <5>1 DEF CacheInv, IndicesKnown
      <4> QED BY <4>1, <4>2
    <3>4. ASSUME NEW p \in Irps, req'[p].pc = "store"
          PROVE  Indexed(req[p].index, req[p].file)'
      <4>1. PICK i, m : i = req'[p].index /\ m = req'[p].file
        OBVIOUS
      <4>2. Indexed(i, m)'
        <5>1. CASE p = q
          BY <2>7, <2>8, <3>2, <4>1, <5>1
        <5>2. CASE p # q
          BY <2>8, <2>11, <3>4, <4>1, <5>2 DEF CacheInv, IndicesKnown
        <5> QED BY <5>1, <5>2
      <4> QED BY <4>1, <4>2
    <3> QED BY <3>1, <3>3, <3>4 DEF IndicesKnown
  <2>13. Counted'
    <3>1. \A j : Cached(j)' <=> j = last + 1 \/ (Cached(j) /\ j \notin Evicted)
      BY <2>2, <2>3, CachedNext, ListMembers DEF CacheInv, TypeOK
    <3>2. ~Cached(last + 1) /\ last + 1 \notin Evicted
      <4>1. \A y \in Range(list) : y.index # last + 1
        BY <1>3
      <4>2. ~Cached(last + 1)
        BY <4>1, ListMembers DEF CacheInv, TypeOK
      <4> QED BY <2>2, <4>2
    <3>3. ASSUME NEW j \in Indices
          PROVE  Readers(j)' = Readers(j) /\ (j = last + 1 => Readers(j) = {})
      <4>1. ASSUME NEW p \in Irps
            PROVE  (req'[p].pc = "reading" /\ req'[p].index = j)
                      <=> (req[p].pc = "reading" /\ req[p].index = j)
        BY <1>2, <2>7, <2>8
      <4>2. \A p \in Irps : req[p].index \in Nat /\ req[p].index <= last
        BY MetaCacheAssumption DEF CacheInv, IndicesKnown, TypeOK, Requests
      <4> QED BY <1>3, <4>1, <4>2 DEF Readers
    <3>4. ASSUME NEW j \in Indices
          PROVE  /\ IsFiniteSet(Readers(j)')
                 /\ refs'[j] = (IF Cached(j)' THEN 1 ELSE 0) + Cardinality(Readers(j)')
      <4>1. /\ IsFiniteSet(Readers(j)) /\ Cardinality(Readers(j)) \in Nat
            /\ refs[j] = (IF Cached(j) THEN 1 ELSE 0) + Cardinality(Readers(j))
        BY CountsAreNumbers DEF CacheInv, Counted, RefsExact
      <4>2. CASE j = last + 1
        BY <2>4, <3>1, <3>3, <4>1, <4>2, FS_EmptySet
      <4>3. CASE j # last + 1
        BY <2>2, <2>4, <3>1, <3>3, <4>1, <4>3
      <4> QED BY <4>2, <4>3
    <3> QED BY <3>4 DEF Counted, RefsExact
  <2> QED BY <2>9, <2>10, <2>12, <2>13 DEF CacheInv
<1>5. CASE req' = [req EXCEPT ![q].pc = "store"] /\ UNCHANGED cacheVars
  <2>1. PICK r : r = [req[q] EXCEPT !.pc = "store"]
    OBVIOUS
  <2>2. /\ r \in Requests /\ r.pc = "store" /\ r.index = 0 /\ r.file = n
    BY <1>1, <1>2, <2>1 DEF CacheInv, TypeOK, Requests, RequestPCs
  <2>3. /\ req' \in [Irps -> Requests] /\ req'[q] = r
        /\ \A p \in Irps \ {q} : req'[p] = req[p]
    BY <1>5, <2>1, <2>2 DEF CacheInv, TypeOK
  <2>4. UNCHANGED <<list, last, refs, stored>>
    BY <1>5 DEF Add, cacheVars
  <2>5. TypeOK' /\ IndexedOnce'
    BY <2>3, <2>4 DEF CacheInv, TypeOK, IndexedOnce
  <2>6. IndicesKnown'
    <3>1. \A i, m : Indexed(i, m)' = Indexed(i, m)
      BY <2>4 DEF Indexed
    <3>2. Indexed(0, n)
      BY <1>3 DEF Indexed, Items, Indices
    <3>3. ASSUME NEW p \in Irps
          PROVE  /\ req'[p].pc # "idle" => req'[p].file \in Nodes
                 /\ req'[p].index <= last'
                 /\ req'[p].pc \notin {"reading", "store"} => req'[p].index = 0
                 /\ req'[p].pc = "reading" => req'[p].index \in Indices
      BY <1>2, <1>3, <2>2, <2>3, <2>4 DEF CacheInv, IndicesKnown
    <3>4. ASSUME NEW p \in Irps, req'[p].pc = "store"
          PROVE  Indexed(req[p].index, req[p].file)'
      BY <2>2, <2>3, <2>4, <3>2, <3>4 DEF CacheInv, IndicesKnown, Indexed
    <3>5. \A m \in Nodes : Indexed(stored[m], m)'
      BY <2>4 DEF CacheInv, IndicesKnown, Indexed
    <3> QED BY <3>3, <3>4, <3>5 DEF IndicesKnown
  <2>7. Counted'
    <3>1. \A j : Cached(j)' = Cached(j) /\ Readers(j)' = Readers(j)
      BY <1>2, <2>2, <2>3, <2>4 DEF Cached, At, Readers
    <3> QED BY <2>4, <3>1 DEF CacheInv, Counted, RefsExact
  <2> QED BY <2>5, <2>6, <2>7 DEF CacheInv
<1> QED BY <1>1, <1>4, <1>5 DEF Add, AddAnswer

LEMMA StoreInv ==
  ASSUME CacheInv, NEW q \in Irps, Store(q)
  PROVE  CacheInv'
<1>1. PICK n, i : n = req[q].file /\ i = req[q].index
  OBVIOUS
<1>2. /\ n \in Nodes /\ i \in 0 .. MaxIndex /\ Indexed(i, n) /\ req[q].pc = "store"
      /\ stored' = [stored EXCEPT ![n] = i] /\ UNCHANGED <<list, last, refs>>
  BY <1>1 DEF Store, CacheInv, IndicesKnown, TypeOK, Requests, cacheVars
<1>3. PICK r \in Requests :
        /\ req' = [req EXCEPT ![q] = r]
        /\ r.index = 0 /\ r.pc \notin {"reading", "store"}
        /\ r.pc # "idle" => r.file \in Nodes
  <2>1. CASE Finish(q)
    BY <2>1, IdleRequest DEF Finish
  <2>2. CASE req' = [req EXCEPT ![q].pc = "stored", ![q].index = 0]
    <3>1. PICK r : r = [req[q] EXCEPT !.pc = "stored", !.index = 0]
      OBVIOUS
    <3>2. r \in Requests /\ r.index = 0 /\ r.pc = "stored" /\ r.file = n
      <4>1. req[q] \in Requests /\ 0 \in 0 .. MaxIndex
        BY MetaCacheAssumption DEF CacheInv, TypeOK
      <4> QED BY <1>1, <3>1, <4>1 DEF Requests, RequestPCs
    <3> QED BY <1>2, <2>2, <3>1, <3>2
  <2> QED BY <2>1, <2>2 DEF Store
<1>4. Unread
  <2>1. /\ req' \in [Irps -> Requests] /\ req'[q] = r
        /\ \A p \in Irps \ {q} : req'[p] = req[p]
    BY <1>3 DEF CacheInv, TypeOK
  <2>2. req[q].pc # "reading"
    BY <1>2
  <2> QED BY <1>3, <2>1, <2>2 DEF Unread
<1>5. TypeOK' /\ IndexedOnce'
  BY <1>2, <1>4 DEF CacheInv, TypeOK, IndexedOnce, Unread
<1>6. IndicesKnown'
  <2>1. last \in Nat
    BY MetaCacheAssumption DEF CacheInv, TypeOK
  <2>2. ASSUME NEW m \in Nodes
        PROVE  Indexed(stored[m], m)'
    BY <1>2 DEF CacheInv, TypeOK, IndicesKnown, Indexed
  <2>3. ASSUME NEW p \in Irps
        PROVE  /\ req'[p].pc # "idle" => req'[p].file \in Nodes
               /\ req'[p].index <= last
               /\ req'[p].pc \notin {"reading", "store"} => req'[p].index = 0
               /\ req'[p].pc = "reading" => req'[p].index \in Indices
    BY <1>4, <2>1 DEF CacheInv, IndicesKnown, Unread
  <2>4. ASSUME NEW p \in Irps, req'[p].pc = "store"
        PROVE  Indexed(req[p].index, req[p].file)'
    BY <1>2, <1>4, <2>4 DEF CacheInv, IndicesKnown, Unread, Indexed
  <2> QED BY <1>2, <2>2, <2>3, <2>4 DEF IndicesKnown
<1>7. Counted'
  <2>1. \A j : Cached(j)' = Cached(j)
    BY <1>2 DEF Cached, At
  <2> QED BY <1>2, <1>4, <2>1, UnreadReaders DEF CacheInv, Counted, RefsExact
<1> QED BY <1>5, <1>6, <1>7 DEF CacheInv

LEMMA ExpireList ==
  ASSUME list \in Seq(Items), NEW k \in 1 .. Len(list), Expire(k)
  PROVE  /\ list' \in Seq(Items) /\ Len(list') = Len(list)
         /\ \A j \in 1 .. Len(list) :
              /\ list'[j].index = list[j].index /\ list'[j].node = list[j].node
              /\ list'[j].version = list[j].version
<1>1. DOMAIN list = 1 .. Len(list) /\ \A j \in 1 .. Len(list) : list[j] \in Items
  BY LenProperties, ElementOfSeq
<1>2. PICK x : x = [list[k] EXCEPT !.expired = TRUE]
  OBVIOUS
<1>3. /\ x \in Items /\ x.index = list[k].index /\ x.node = list[k].node
      /\ x.version = list[k].version
  BY <1>1, <1>2 DEF Items
<1>4. list' = [list EXCEPT ![k] = x]
  BY <1>2 DEF Expire
<1>5. list' \in Seq(Items) /\ Len(list') = Len(list)
  BY <1>3, <1>4, ExceptSeq
<1>6. \A j \in 1 .. Len(list) : list'[j] = IF j = k THEN x ELSE list[j]
  BY <1>1, <1>4
<1> QED BY <1>3, <1>5, <1>6

LEMMA ExpireInv ==
  ASSUME CacheInv, NEW k \in 1 .. Len(list), Expire(k)
  PROVE  CacheInv'
<1>1. /\ list' \in Seq(Items) /\ Len(list') = Len(list)
      /\ \A j \in 1 .. Len(list) :
           list'[j].index = list[j].index /\ list'[j].node = list[j].node
  BY ExpireList DEF CacheInv, TypeOK
<1>2. UNCHANGED <<last, refs, stored, req>>
  BY DEF Expire, nodeVars
<1>3. /\ \A x \in Range(list') :
           \E y \in Range(list) : y.index = x.index /\ y.node = x.node
      /\ \A y \in Range(list) : \E x \in Range(list') : y.index = x.index
  <2>1. /\ Range(list') = {list'[j] : j \in 1 .. Len(list)}
        /\ Range(list) = {list[j] : j \in 1 .. Len(list)}
    BY <1>1, LenProperties DEF Range, CacheInv, TypeOK
  <2> QED BY <1>1, <2>1
<1>4. \A i, j \in 1 .. Len(list) : list[i].index = list[j].index => i = j
  <2>1. DOMAIN list = 1 .. Len(list)
    BY LenProperties DEF CacheInv, TypeOK
  <2> QED BY <2>1, ListMembers DEF CacheInv, TypeOK, IndexedOnce, IsInjective
<1>5. TypeOK'
  BY <1>1, <1>2 DEF CacheInv, TypeOK
<1>6. IndexedOnce'
  <2>1. DOMAIN list' = 1 .. Len(list)
    BY <1>1, LenProperties
  <2>2. IsInjective(list')
    BY <1>1, <1>4, <2>1 DEF IsInjective
  <2>3. ASSUME NEW x \in Range(list'), NEW y \in Range(list'), x.index = y.index
        PROVE  x = y
    <3>1. PICK i \in 1 .. Len(list), j \in 1 .. Len(list) : x = list'[i] /\ y = list'[j]
      BY <2>1 DEF Range
    <3> QED BY <1>1, <1>4, <2>3, <3>1
  <2>4. \A x \in Range(list') : x.index <= last'
    BY <1>2, <1>3 DEF CacheInv, IndexedOnce
  <2> QED BY <2>2, <2>3, <2>4 DEF IndexedOnce
<1>7. IndicesKnown'
  <2>1. \A i, n : Indexed(i, n) => Indexed(i, n)'
    BY <1>2, <1>3 DEF Indexed
  <2>2. ASSUME NEW n \in Nodes
        PROVE  Indexed(stored[n], n)'
    <3>1. PICK j : j = stored[n]
      OBVIOUS
    <3>2. Indexed(j, n)'
      BY <2>1, <3>1 DEF CacheInv, IndicesKnown
    <3> QED BY <1>2, <3>1, <3>2
  <2>3. ASSUME NEW q \in Irps, req[q].pc = "store"
        PROVE  Indexed(req[q].index, req[q].file)'
    <3>1. PICK j, n : j = req[q].index /\ n = req[q].file
      OBVIOUS
    <3>2. Indexed(j, n)'
      BY <2>1, <2>3, <3>1 DEF CacheInv, IndicesKnown
    <3> QED BY <1>2, <3>1, <3>2
  <2> QED BY <1>2, <2>2, <2>3 DEF CacheInv, IndicesKnown
<1>8. Counted'
  <2>1. list \in Seq(Items)
    BY DEF CacheInv, TypeOK
  <2>2. ASSUME NEW j PROVE Cached(j)' <=> Cached(j)
    <3>1. Cached(j)' <=> \E x \in Range(list') : x.index = j
      BY <1>1, CachedNext
    <3>2. Cached(j) <=> \E x \in Range(list) : x.index = j
      BY <2>1, ListMembers
    <3> QED BY <1>3, <3>1, <3>2
  <2>3. \A j : Readers(j)' = Readers(j)
    BY <1>2 DEF Readers
  <2> QED BY <1>2, <2>2, <2>3 DEF CacheInv, Counted, RefsExact
<1> QED BY <1>5, <1>6, <1>7, <1>8 DEF CacheInv

-----------------------------------------------------------------------------
(* The cache invariant is kept by every step. *)

LEMMA UnreadStep ==
  ASSUME CacheInv, NEW q \in Irps, NEW r \in Requests, req' = [req EXCEPT ![q] = r],
         req[q].pc # "reading", r.index = 0, r.pc \notin {"reading", "store"},
         r.pc # "idle" => r.file \in Nodes
  PROVE  Unread
<1>1. /\ req' \in [Irps -> Requests] /\ req'[q] = r
      /\ \A p \in Irps \ {q} : req'[p] = req[p]
  BY DEF CacheInv, TypeOK
<1> QED BY <1>1 DEF Unread

LEMMA FinishUnread ==
  ASSUME CacheInv, NEW q \in Irps, Finish(q), req[q].pc # "reading"
  PROVE  Unread
<1>1. PICK r : r = Idle
  OBVIOUS
<1>2. r \in Requests /\ r.pc = "idle" /\ r.index = 0
  BY <1>1, IdleRequest
<1>3. req' = [req EXCEPT ![q] = r]
  BY <1>1 DEF Finish
<1> QED BY <1>2, <1>3, UnreadStep

(* A request goes on with another answer or change number. *)
LEMMA OnwardUnread ==
  ASSUME CacheInv, NEW q \in Irps, NEW label \in RequestPCs \ {"reading", "store", "idle"},
         NEW n \in Nodes, NEW a \in Answers, NEW s \in Seens,
         req[q].pc \notin {"reading", "store"},
         req' = [req EXCEPT ![q] = [req[q] EXCEPT !.pc = label, !.file = n, !.answer = a,
                                                  !.seen = s]]
  PROVE  Unread
<1>1. req[q] \in Requests /\ req[q].index = 0
  BY DEF CacheInv, TypeOK, IndicesKnown
<1>2. PICK r : r = [req[q] EXCEPT !.pc = label, !.file = n, !.answer = a, !.seen = s]
  OBVIOUS
<1>3. r \in Requests /\ r.pc = label /\ r.file = n /\ r.index = 0
  BY <1>1, <1>2 DEF Requests
<1> QED BY <1>2, <1>3, UnreadStep

LEMMA RequestParts ==
  ASSUME CacheInv, NEW q \in Irps
  PROVE  /\ req[q].answer \in Answers /\ req[q].seen \in Seens
         /\ req[q].pc # "idle" => req[q].file \in Nodes
BY DEF CacheInv, TypeOK, Requests, IndicesKnown

LEMMA MetaUnread ==
  ASSUME CacheInv, NodeTypeOK, NEW q \in Irps,
         \/ \E n \in Nodes : Ask(q, n) \/ Change(q, n)
         \/ Answer(q) \/ Fail(q) \/ Complete(q) \/ Changed(q)
         \/ TrySet(q) \/ Reuse(q)
  PROVE  CacheInv'
<1>0. \A n \in Nodes : change[n] \in Seens /\ version[n] \in Answers /\ version[n] + 1 \in Answers
  BY DEF NodeTypeOK, Seens, Answers
<1>1. CASE \E n \in Nodes : Ask(q, n) \/ Change(q, n)
  <2>1. PICK n \in Nodes : Ask(q, n) \/ Change(q, n)
    BY <1>1
  <2>2. PICK label \in {"asked", "setting"} :
          req' = [req EXCEPT ![q] = [req[q] EXCEPT !.pc = label, !.file = n]]
    BY <2>1 DEF Ask, Change
  <2>3. req' = [req EXCEPT ![q] = [req[q] EXCEPT !.pc = label, !.file = n,
                  !.answer = req[q].answer, !.seen = req[q].seen]]
    BY <2>2, RequestParts
  <2>4. req[q].pc = "idle" /\ UNCHANGED <<list, last, refs, stored>>
    BY <2>1 DEF Ask, Change, MayLookup, cacheVars, nodeVars
  <2>5. Unread
    BY <2>3, <2>4, RequestParts, OnwardUnread DEF RequestPCs
  <2> QED BY <2>4, <2>5, QuietInv
<1>2. CASE Answer(q)
  <2>1. PICK n, a : n = req[q].file /\ a = version[n]
    OBVIOUS
  <2>2. req[q].pc = "asked" /\ UNCHANGED <<list, last, refs, stored>>
    BY <1>2 DEF Answer, cacheVars, nodeVars
  <2>3. n \in Nodes /\ a \in Answers
    BY <1>0, <2>1, <2>2, RequestParts
  <2>4. req' = [req EXCEPT ![q] = [req[q] EXCEPT !.pc = "answered", !.file = n, !.answer = a,
                  !.seen = req[q].seen]]
    BY <1>2, <2>1, RequestParts DEF Answer, CacheInv, TypeOK, Requests
  <2>5. Unread
    BY <2>2, <2>3, <2>4, RequestParts, OnwardUnread DEF RequestPCs
  <2> QED BY <2>2, <2>5, QuietInv
<1>3. CASE Fail(q)
  <2>1. req[q].pc # "reading" /\ Finish(q) /\ UNCHANGED <<list, last, refs, stored>>
    BY <1>3 DEF Fail, cacheVars, nodeVars
  <2> QED BY <2>1, FinishUnread, QuietInv
<1>4. CASE Complete(q)
  <2>1. PICK n, c : n = req[q].file /\ c = change[n]
    OBVIOUS
  <2>2. req[q].pc = "answered" /\ UNCHANGED <<list, last, refs, stored>>
    BY <1>4 DEF Complete, cacheVars, nodeVars
  <2>3. n \in Nodes /\ c \in Seens
    BY <1>0, <2>1, <2>2, RequestParts
  <2>4. req' = [req EXCEPT ![q] = [req[q] EXCEPT !.pc = "retry", !.file = n,
                  !.answer = req[q].answer, !.seen = c]]
    BY <1>4, <2>1, RequestParts DEF Complete, CacheInv, TypeOK, Requests
  <2>5. Unread
    BY <2>2, <2>3, <2>4, RequestParts, OnwardUnread DEF RequestPCs
  <2> QED BY <2>2, <2>5, QuietInv
<1>5. CASE Changed(q)
  <2>1. PICK n, a : n = req[q].file /\ a = version[n] + 1
    OBVIOUS
  <2>2. req[q].pc = "setting" /\ UNCHANGED <<list, last, refs, stored>>
    BY <1>5 DEF Changed, cacheVars, nodeVars
  <2>3. n \in Nodes /\ a \in Answers
    BY <1>0, <2>1, <2>2, RequestParts
  <2>4. CASE Finish(q)
    BY <2>2, <2>4, FinishUnread, QuietInv
  <2>5. CASE ~Finish(q)
    <3>1. req' = [req EXCEPT ![q].pc = "drop", ![q].answer = a]
      BY <1>5, <2>1, <2>5 DEF Changed
    <3>2. req' = [req EXCEPT ![q] = [req[q] EXCEPT !.pc = "drop", !.file = n, !.answer = a,
                    !.seen = req[q].seen]]
      BY <2>1, <3>1, RequestParts DEF CacheInv, TypeOK, Requests
    <3>3. Unread
      BY <2>2, <2>3, <3>2, RequestParts, OnwardUnread DEF RequestPCs
    <3> QED BY <2>2, <3>3, QuietInv
  <2> QED BY <2>4, <2>5
<1>6. CASE TrySet(q)
  <2>1. PICK n : n = req[q].file
    OBVIOUS
  <2>2. req[q].pc = "retry" /\ n \in Nodes /\ UNCHANGED <<list, last, stored>>
    BY <1>6, <2>1, RequestParts DEF TrySet, nodeVars
  <2>3. CASE req' = [req EXCEPT ![q].pc = "drop"] /\ UNCHANGED refs
    <3>1. req' = [req EXCEPT ![q] = [req[q] EXCEPT !.pc = "drop", !.file = n,
                    !.answer = req[q].answer, !.seen = req[q].seen]]
      BY <2>1, <2>3, RequestParts DEF CacheInv, TypeOK, Requests
    <3>2. Unread
      BY <2>2, <3>1, RequestParts, OnwardUnread DEF RequestPCs
    <3> QED BY <2>2, <2>3, <3>2, QuietInv
  <2>4. CASE Reference(q, n)
    BY <2>2, <2>4, ReferenceInv
  <2>5. CASE Finish(q) /\ UNCHANGED refs
    BY <2>2, <2>5, FinishUnread, QuietInv
  <2> QED BY <1>6, <2>1, <2>3, <2>4, <2>5 DEF TrySet
<1>7. CASE Reuse(q)
  <2>1. PICK n : n = req[q].file
    OBVIOUS
  <2>2. req[q].pc = "stored" /\ n \in Nodes /\ UNCHANGED <<list, last, stored>>
    BY <1>7, <2>1, RequestParts DEF Reuse, nodeVars
  <2>3. CASE Reference(q, n)
    BY <2>2, <2>3, ReferenceInv
  <2>4. CASE Finish(q) /\ UNCHANGED refs
    BY <2>2, <2>4, FinishUnread, QuietInv
  <2> QED BY <1>7, <2>1, <2>3, <2>4 DEF Reuse
<1> QED BY <1>1, <1>2, <1>3, <1>4, <1>5, <1>6, <1>7

(* Steps that take an item off the list. *)
LEMMA MetaRemoves ==
  ASSUME CacheInv,
         \/ Sweep \/ (\E q \in Irps : Drop(q)) \/ (\E v \in Invalidators : InvalidateEnd(v))
         \/ \E n \in Nodes : Forget(n)
  PROVE  CacheInv'
<1>0. UNCHANGED req => Unread
  BY DEF Unread, CacheInv, TypeOK
<1>1. UNCHANGED stored => stored' \in [Nodes -> 0 .. MaxIndex] /\
         \A n \in Nodes : stored'[n] \in {stored[n], 0}
  BY DEF CacheInv, TypeOK
<1>2. CASE Sweep
  <2>1. UNCHANGED <<last, stored, req>>
    BY <1>2 DEF Sweep, nodeVars
  <2> QED BY <1>0, <1>1, <1>2, <2>1, SweepRemoves, RemovedInv
<1>3. CASE \E q \in Irps : Drop(q)
  <2>1. PICK q \in Irps : Drop(q)
    BY <1>3
  <2>2. UNCHANGED <<last, stored>> /\ req[q].pc = "drop" /\ Removed(stored[req[q].file])
    BY <2>1, InvalidateRemoves DEF Drop, nodeVars
  <2>3. PICK n : n = req[q].file
    OBVIOUS
  <2>4. req' = [req EXCEPT ![q] = [req[q] EXCEPT !.pc = "add", !.file = n,
                  !.answer = req[q].answer, !.seen = req[q].seen]]
    BY <2>1, <2>3, RequestParts DEF Drop, CacheInv, TypeOK, Requests
  <2>5. Unread
    BY <2>2, <2>3, <2>4, RequestParts, OnwardUnread DEF RequestPCs
  <2> QED BY <1>1, <2>2, <2>5, RemovedInv
<1>4. CASE \E v \in Invalidators : InvalidateEnd(v)
  <2>1. PICK v \in Invalidators : InvalidateEnd(v)
    BY <1>4
  <2>2. UNCHANGED <<last, stored, req>> /\ Removed(inv[v].index)
    BY <2>1, InvalidateRemoves DEF InvalidateEnd, nodeVars
  <2> QED BY <1>0, <1>1, <2>2, RemovedInv
<1>5. CASE \E n \in Nodes : Forget(n)
  <2>1. PICK n \in Nodes : Forget(n)
    BY <1>5
  <2>2. UNCHANGED <<last, req>> /\ Removed(stored[n]) /\ stored' = [stored EXCEPT ![n] = 0]
    BY <2>1, InvalidateRemoves DEF Forget
  <2>3. stored' \in [Nodes -> 0 .. MaxIndex] /\ \A m \in Nodes : stored'[m] \in {stored[m], 0}
    BY <2>2, MetaCacheAssumption DEF CacheInv, TypeOK
  <2> QED BY <1>0, <2>2, <2>3, RemovedInv
<1> QED BY <1>2, <1>3, <1>4, <1>5

LEMMA NextCacheInv ==
  ASSUME CacheInv, NodeTypeOK, Next
  PROVE  CacheInv'
<1>0. ASSUME UNCHANGED <<list, last, refs, stored, req>>
      PROVE  CacheInv'
  BY <1>0, QuietInv DEF Unread, CacheInv, TypeOK
<1>1. CASE \E k \in 1 .. Len(list) : Expire(k)
  BY <1>1, ExpireInv
<1>2. CASE Sweep \/ (\E n \in Nodes : Forget(n))
  BY <1>2, MetaRemoves
<1>3. CASE \E q \in Queries, n \in Nodes : Lookup(q, n) \/ Ask(q, n) \/ AskFails(q, n)
  <2>1. PICK q \in Queries, n \in Nodes : Lookup(q, n) \/ Ask(q, n) \/ AskFails(q, n)
    BY <1>3
  <2>2. CASE Lookup(q, n)
    <3>1. req[q].pc # "reading" /\ Reference(q, n) /\ UNCHANGED <<list, last, stored>>
      BY <2>2 DEF Lookup, MayLookup, nodeVars
    <3> QED BY <3>1, ReferenceInv DEF Irps
  <2>3. CASE Ask(q, n)
    BY <2>3, MetaUnread DEF Irps
  <2>4. CASE AskFails(q, n)
    BY <1>0, <2>4 DEF AskFails, vars, cacheVars, nodeVars
  <2> QED BY <2>1, <2>2, <2>3, <2>4
<1>4. CASE \E q \in Setters, n \in Nodes : Change(q, n)
  BY <1>4, MetaUnread DEF Irps
<1>5. CASE \E q \in Irps : IrpStep(q)
  BY <1>5, MetaUnread, MetaRemoves, ReadInv, AddInv, StoreInv DEF IrpStep
<1>6. CASE \E v \in Invalidators :
             (\E n \in Nodes : ChildChanges(v, n)) \/ InvalidateBegin(v) \/ InvalidateEnd(v)
  <2>1. PICK v \in Invalidators :
          (\E n \in Nodes : ChildChanges(v, n)) \/ InvalidateBegin(v) \/ InvalidateEnd(v)
    BY <1>6
  <2>2. CASE (\E n \in Nodes : ChildChanges(v, n)) \/ InvalidateBegin(v)
    BY <1>0, <2>2 DEF ChildChanges, InvalidateBegin, cacheVars, nodeVars
  <2>3. CASE InvalidateEnd(v)
    BY <2>3, MetaRemoves
  <2> QED BY <2>1, <2>2, <2>3
<1> QED BY <1>1, <1>2, <1>3, <1>4, <1>5, <1>6 DEF Next

-----------------------------------------------------------------------------
(* Types of the rest, and the locks of the nodes. *)

LEMMA LockTypes ==
  ASSUME NodeTypeOK
  PROVE  /\ \A q \in Irps, n \in Nodes : Lock(n, q) => owner' \in [Nodes -> Irps \cup {None}]
         /\ \A q \in Irps : Unlock(q) => owner' \in [Nodes -> Irps \cup {None}]
         /\ \A q \in Irps, n \in Nodes : Share(n, q) => sharers' \in [Nodes -> SUBSET Irps]
         /\ \A q \in Irps : Unshare(q) => sharers' \in [Nodes -> SUBSET Irps]
BY DEF NodeTypeOK, Lock, Unlock, Share, Unshare

LEMMA ReferenceTypes ==
  ASSUME NodeTypeOK, NEW q \in Irps, NEW n \in Nodes, Reference(q, n)
  PROVE  owner' \in [Nodes -> Irps \cup {None}]
BY LockTypes DEF Reference, Use

LEMMA NextNodeType ==
  ASSUME CacheInv, NodeTypeOK, Next
  PROVE  NodeTypeOK'
<1>1. CASE \/ \E k \in 1 .. Len(list) : Expire(k)
           \/ Sweep \/ \E n \in Nodes : Forget(n)
  BY <1>1 DEF Expire, Sweep, Forget, NodeTypeOK, nodeVars, lockVars
<1>2. CASE \E q \in Queries, n \in Nodes : Lookup(q, n) \/ Ask(q, n) \/ AskFails(q, n)
  <2>1. PICK q \in Queries, n \in Nodes : Lookup(q, n) \/ Ask(q, n) \/ AskFails(q, n)
    BY <1>2
  <2>2. q \in Irps
    BY DEF Irps
  <2>3. CASE Lookup(q, n)
    BY <2>2, <2>3, ReferenceTypes DEF Lookup, NodeTypeOK, nodeVars
  <2>4. CASE Ask(q, n) \/ AskFails(q, n)
    BY <2>2, <2>4, LockTypes DEF Ask, AskFails, NodeTypeOK, nodeVars, lockVars, vars
  <2> QED BY <2>1, <2>3, <2>4
<1>3. CASE \E q \in Setters, n \in Nodes : Change(q, n)
  <2>1. PICK q \in Irps, n \in Nodes : Change(q, n)
    BY <1>3 DEF Irps
  <2> QED BY <2>1, LockTypes DEF Change, NodeTypeOK, nodeVars
<1>4. CASE \E q \in Irps : IrpStep(q)
  <2>1. PICK q \in Irps : IrpStep(q)
    BY <1>4
  <2>2. req[q].pc # "idle" => req[q].file \in Nodes
    BY RequestParts
  <2>3. CASE Read(q) \/ Answer(q) \/ Fail(q) \/ Complete(q) \/ Drop(q) \/ Store(q)
    BY <2>3, LockTypes
    DEF Read, Answer, Fail, Complete, Drop, Store, NodeTypeOK, nodeVars, lockVars
  <2>4. CASE TrySet(q)
    BY <2>2, <2>4, LockTypes, ReferenceTypes DEF TrySet, NodeTypeOK, nodeVars
  <2>5. CASE Changed(q)
    <3>1. /\ UNCHANGED <<change, sharers, inv>>
          /\ UNCHANGED owner \/ Unlock(q)
          /\ UNCHANGED version \/ version' = [version EXCEPT ![req[q].file] = @ + 1]
      BY <2>5 DEF Changed, nodeVars
    <3>2. version' \in [Nodes -> Nat]
      BY <3>1 DEF NodeTypeOK
    <3> QED BY <3>1, <3>2, LockTypes DEF NodeTypeOK
  <2>6. CASE Add(q)
    <3>1. change' \in [Nodes -> Nat]
      <4>1. PICK n : n = req[q].file
        OBVIOUS
      <4>2. change' = [change EXCEPT ![n] = @ + 1] /\ n \in Nodes
        BY <2>2, <2>6, <4>1 DEF Add
      <4> QED BY <4>2 DEF NodeTypeOK
    <3> QED BY <2>6, <3>1 DEF Add, NodeTypeOK, lockVars
  <2>7. CASE Reuse(q)
    BY <2>2, <2>7, LockTypes, ReferenceTypes DEF Reuse, NodeTypeOK, nodeVars
  <2> QED BY <2>1, <2>3, <2>4, <2>5, <2>6, <2>7 DEF IrpStep
<1>5. CASE \E v \in Invalidators :
             (\E n \in Nodes : ChildChanges(v, n)) \/ InvalidateBegin(v) \/ InvalidateEnd(v)
  <2>1. PICK v \in Invalidators :
          (\E n \in Nodes : ChildChanges(v, n)) \/ InvalidateBegin(v) \/ InvalidateEnd(v)
    BY <1>5
  <2>2. CASE \E n \in Nodes : ChildChanges(v, n)
    <3>1. PICK n \in Nodes : ChildChanges(v, n)
      BY <2>2
    <3>2. version' \in [Nodes -> Nat]
      BY <3>1 DEF ChildChanges, NodeTypeOK
    <3>3. /\ inv' \in [Invalidators -> [pc : {"idle", "changed", "remove"},
                                        file : Nodes \cup {None}, index : 0 .. MaxIndex]]
          /\ \A w \in Invalidators : inv'[w].pc # "idle" => inv'[w].file \in Nodes
      <4>1. inv' = [inv EXCEPT ![v].pc = "changed", ![v].file = n]
        BY <3>1 DEF ChildChanges
      <4> QED BY <4>1 DEF NodeTypeOK
    <3> QED BY <3>1, <3>2, <3>3 DEF ChildChanges, NodeTypeOK, nodeVars, lockVars
  <2>3. CASE InvalidateBegin(v)
    <3>1. inv[v].file \in Nodes /\ inv[v].pc = "changed"
      BY <2>3 DEF InvalidateBegin, NodeTypeOK
    <3>2. stored[inv[v].file] \in 0 .. MaxIndex
      BY <3>1 DEF CacheInv, TypeOK
    <3> QED BY <2>3, <3>2 DEF InvalidateBegin, NodeTypeOK, nodeVars, lockVars
  <2>4. CASE InvalidateEnd(v)
    BY <2>4, MetaCacheAssumption DEF InvalidateEnd, InvIdle, NodeTypeOK, nodeVars, lockVars
  <2> QED BY <2>1, <2>2, <2>3, <2>4
<1> QED BY <1>1, <1>2, <1>3, <1>4, <1>5 DEF Next

-----------------------------------------------------------------------------
(* Who holds a node. *)

(* Only the request q goes on. *)
Only(q) == \A p \in Irps \ {q} : req'[p] = req[p]
Owns(q) == \E n \in Nodes : owner[n] = q

LEMMA LockKept ==
  ASSUME LocksKnown, NodeTypeOK, NEW q \in Irps, Only(q), UNCHANGED lockVars,
         req'[q].pc \in Setting => owner[req'[q].file] = q,
         req'[q].pc \in Asking => q \in sharers[req'[q].file],
         Owns(q) => req'[q].file = req[q].file /\ req'[q].pc \in Setting \cup {"reading"}
  PROVE  LocksKnown'
BY DEF LocksKnown, Only, Owns, lockVars

(* The file of a request is known; this is a part of IndicesKnown.         *)
FilesKnown == \A q \in Irps : req[q].pc # "idle" => req[q].file \in Nodes

LEMMA LockTaken ==
  ASSUME LocksKnown, NodeTypeOK, FilesKnown, NEW q \in Irps, NEW n \in Nodes, Only(q),
         Lock(n, q), UNCHANGED sharers, Unowned(n) \/ owner[n] = q, Owns(q) => owner[n] = q,
         req'[q].pc \in Setting \cup {"reading"}, req'[q].file = n
  PROVE  LocksKnown'
<1>0. q # None /\ \A label \in Setting \cup Asking : label # "idle"
  BY MetaCacheAssumption DEF Setting, Asking
<1>1. /\ \A m \in Nodes : owner'[m] = IF m = n THEN q ELSE owner[m]
      /\ \A m \in Nodes : owner'[m] = q => m = n
  BY DEF Lock, NodeTypeOK, LocksKnown, Owns
<1>2. sharers[n] = {}
  BY <1>0 DEF Unowned, LocksKnown
<1>3. ASSUME NEW p \in Irps, p # q, req[p].pc \in Setting
      PROVE  req[p].file # n
  <2>1. owner[n] = None \/ owner[n] = q
    BY DEF Unowned
  <2>2. p # None /\ owner[req[p].file] = p
    BY <1>3, MetaCacheAssumption DEF LocksKnown
  <2> QED BY <1>3, <2>1, <2>2
<1>4. req'[q].pc \notin Asking
  BY DEF Setting, Asking
<1>5. ASSUME NEW p \in Irps, req'[p].pc \in Setting
      PROVE  owner'[req'[p].file] = p
  BY <1>0, <1>1, <1>3, <1>5 DEF LocksKnown, Only, FilesKnown
<1>6. ASSUME NEW p \in Irps, req'[p].pc \in Asking
      PROVE  p \in sharers'[req'[p].file]
  BY <1>4, <1>6 DEF LocksKnown, Only
<1>7. ASSUME NEW p \in Irps, NEW m \in Nodes, owner'[m] = p
      PROVE  req'[p].file = m /\ req'[p].pc \in Setting \cup {"reading"}
  BY <1>1, <1>7 DEF LocksKnown, Only
<1>8. \A m \in Nodes : sharers'[m] # {} => owner'[m] = None
  BY <1>1, <1>2 DEF LocksKnown
<1> QED BY <1>5, <1>6, <1>7, <1>8 DEF LocksKnown

LEMMA LockReturned ==
  ASSUME LocksKnown, NodeTypeOK, FilesKnown, NEW q \in Irps, Only(q), Unlock(q),
         UNCHANGED sharers, req'[q].pc \notin Setting \cup Asking
  PROVE  LocksKnown'
<1>0. q # None /\ \A label \in Setting \cup Asking : label # "idle"
  BY MetaCacheAssumption DEF Setting, Asking
<1>1. \A m \in Nodes : owner'[m] = IF owner[m] = q THEN None ELSE owner[m]
  BY DEF Unlock, NodeTypeOK
<1>2. \A p \in Irps : p # None
  BY MetaCacheAssumption
<1>3. ASSUME NEW p \in Irps, req'[p].pc \in Setting
      PROVE  owner'[req'[p].file] = p
  BY <1>0, <1>1, <1>3 DEF LocksKnown, Only, FilesKnown
<1>4. ASSUME NEW p \in Irps, req'[p].pc \in Asking
      PROVE  p \in sharers'[req'[p].file]
  BY <1>4 DEF LocksKnown, Only
<1>5. ASSUME NEW p \in Irps, NEW m \in Nodes, owner'[m] = p
      PROVE  req'[p].file = m /\ req'[p].pc \in Setting \cup {"reading"}
  BY <1>1, <1>2, <1>5 DEF LocksKnown, Only
<1>6. \A m \in Nodes : sharers'[m] # {} => owner'[m] = None
  BY <1>1 DEF LocksKnown
<1> QED BY <1>3, <1>4, <1>5, <1>6 DEF LocksKnown

(* Shared ownership begins and ends.                                       *)
LEMMA ShareTaken ==
  ASSUME LocksKnown, NodeTypeOK, FilesKnown, NEW q \in Irps, NEW n \in Nodes, Only(q),
         Share(n, q), UNCHANGED owner, owner[n] = None, ~Owns(q),
         req'[q].pc \in Asking, req'[q].file = n
  PROVE  LocksKnown'
<1>0. \A label \in Asking : label \notin Setting /\ label # "idle"
  BY DEF Setting, Asking
<1>1. \A m \in Nodes : sharers'[m] = IF m = n THEN sharers[m] \cup {q} ELSE sharers[m]
  BY DEF Share, NodeTypeOK
<1>2. ASSUME NEW p \in Irps, req'[p].pc \in Setting
      PROVE  owner'[req'[p].file] = p
  BY <1>0, <1>2 DEF LocksKnown, Only
<1>3. ASSUME NEW p \in Irps, req'[p].pc \in Asking
      PROVE  p \in sharers'[req'[p].file]
  <2>1. CASE p = q
    BY <1>1, <2>1
  <2>2. CASE p # q
    <3>1. req'[p] = req[p]
      BY <2>2 DEF Only
    <3>2. p \in sharers[req[p].file]
      BY <1>3, <3>1 DEF LocksKnown
    <3>3. req[p].file \in Nodes
      BY <1>0, <1>3, <3>1 DEF FilesKnown
    <3> QED BY <1>1, <3>1, <3>2, <3>3
  <2> QED BY <2>1, <2>2
<1>4. ASSUME NEW p \in Irps, NEW m \in Nodes, owner'[m] = p
      PROVE  req'[p].file = m /\ req'[p].pc \in Setting \cup {"reading"}
  BY <1>4 DEF LocksKnown, Only, Owns
<1>5. \A m \in Nodes : sharers'[m] # {} => owner'[m] = None
  BY <1>1 DEF LocksKnown
<1> QED BY <1>2, <1>3, <1>4, <1>5 DEF LocksKnown

LEMMA ShareReturned ==
  ASSUME LocksKnown, NodeTypeOK, FilesKnown, NEW q \in Irps, Only(q), Unshare(q),
         UNCHANGED owner, ~Owns(q), req'[q].pc \notin Setting \cup Asking
  PROVE  LocksKnown'
<1>0. \A label \in Asking : label # "idle"
  BY DEF Asking
<1>1. \A m \in Nodes : sharers'[m] = sharers[m] \ {q}
  BY DEF Unshare, NodeTypeOK
<1>2. ASSUME NEW p \in Irps, req'[p].pc \in Setting
      PROVE  owner'[req'[p].file] = p
  BY <1>2 DEF LocksKnown, Only
<1>3. ASSUME NEW p \in Irps, req'[p].pc \in Asking
      PROVE  p \in sharers'[req'[p].file]
  <2>1. p # q /\ req'[p] = req[p]
    BY <1>3 DEF Only
  <2>2. p \in sharers[req[p].file]
    BY <1>3, <2>1 DEF LocksKnown
  <2>3. req[p].file \in Nodes
    BY <1>0, <1>3, <2>1 DEF FilesKnown
  <2> QED BY <1>1, <2>1, <2>2, <2>3
<1>4. ASSUME NEW p \in Irps, NEW m \in Nodes, owner'[m] = p
      PROVE  req'[p].file = m /\ req'[p].pc \in Setting \cup {"reading"}
  BY <1>4 DEF LocksKnown, Only, Owns
<1>5. \A m \in Nodes : sharers'[m] # {} => owner'[m] = None
  BY <1>1 DEF LocksKnown
<1> QED BY <1>2, <1>3, <1>4, <1>5 DEF LocksKnown

-----------------------------------------------------------------------------
(* The steps of the file information do not touch the cache. *)

(* The rest of the types, that of the file information.                    *)
InfoTypeOK ==
  /\ basic \in Nat
  /\ size \in [Nodes -> Nat]
  /\ fileValid \in [Nodes -> BOOLEAN]
  /\ basicValid \in BOOLEAN

LEMMA ChangeNumbers ==
  ASSUME NodeTypeOK, NEW n \in Nodes
  PROVE  FileInfoChangeNumber(n) \in Seens
<1>1. /\ change[n] % MainModulus \in Nat /\ change[MainFile] % MainModulus \in Nat
      /\ change[n] % StreamModulus \in Nat
  BY FileInfoAssumption DEF NodeTypeOK
<1>2. CASE n = MainFile
  BY <1>1, <1>2 DEF FileInfoChangeNumber, Seens
<1>3. CASE n # MainFile
  BY <1>1, <1>3 DEF FileInfoChangeNumber, Seens
<1> QED BY <1>2, <1>3

LEMMA InfoUnread ==
  ASSUME CacheInv, NodeTypeOK, InfoTypeOK, NEW q \in Irps,
         \/ \E n \in Nodes : InfoAsk(q, n) \/ InfoChange(q, n)
         \/ InfoAnswer(q) \/ InfoComplete(q) \/ InfoTrySet(q) \/ InfoChanged(q)
  PROVE  Unread
<1>1. CASE \E n \in Nodes : InfoAsk(q, n) \/ InfoChange(q, n)
  <2>1. PICK n \in Nodes : InfoAsk(q, n) \/ InfoChange(q, n)
    BY <1>1
  <2>2. PICK label \in {"asked", "setting"} :
          req' = [req EXCEPT ![q] = [req[q] EXCEPT !.pc = label, !.file = n]]
    BY <2>1 DEF InfoAsk, InfoChange
  <2>3. req' = [req EXCEPT ![q] = [req[q] EXCEPT !.pc = label, !.file = n,
                  !.answer = req[q].answer, !.seen = req[q].seen]]
    BY <2>2, RequestParts
  <2>4. req[q].pc = "idle"
    BY <2>1 DEF InfoAsk, InfoChange
  <2> QED BY <2>3, <2>4, RequestParts, OnwardUnread DEF RequestPCs
<1>2. CASE InfoAnswer(q)
  <2>1. PICK n, a : n = req[q].file /\ a = <<version[n], basic>>
    OBVIOUS
  <2>2. req[q].pc = "asked" /\ n \in Nodes
    BY <1>2, <2>1, RequestParts DEF InfoAnswer
  <2>3. a \in Answers
    BY <2>1, <2>2 DEF NodeTypeOK, InfoTypeOK, Answers
  <2>4. req' = [req EXCEPT ![q] = [req[q] EXCEPT !.pc = "answered", !.file = n, !.answer = a,
                  !.seen = req[q].seen]]
    BY <1>2, <2>1, RequestParts DEF InfoAnswer, CacheInv, TypeOK, Requests
  <2> QED BY <2>2, <2>3, <2>4, RequestParts, OnwardUnread DEF RequestPCs
<1>3. CASE InfoComplete(q)
  <2>1. PICK n, c : n = req[q].file /\ c = FileInfoChangeNumber(n)
    OBVIOUS
  <2>2. req[q].pc = "answered" /\ n \in Nodes
    BY <1>3, <2>1, RequestParts DEF InfoComplete
  <2>3. c \in Seens
    BY <2>1, <2>2, ChangeNumbers
  <2>4. req' = [req EXCEPT ![q] = [req[q] EXCEPT !.pc = "retry", !.file = n,
                  !.answer = req[q].answer, !.seen = c]]
    BY <1>3, <2>1, RequestParts DEF InfoComplete, CacheInv, TypeOK, Requests
  <2> QED BY <2>2, <2>3, <2>4, RequestParts, OnwardUnread DEF RequestPCs
<1>4. CASE InfoTrySet(q) \/ InfoChanged(q)
  <2>1. Finish(q) /\ req[q].pc # "reading"
    BY <1>4 DEF InfoTrySet, InfoChanged
  <2> QED BY <2>1, FinishUnread
<1> QED BY <1>1, <1>2, <1>3, <1>4

(* Setting the file information, of a file node that a request has.        *)
LEMMA SetTypes ==
  ASSUME NodeTypeOK, InfoTypeOK, NEW n \in Nodes, NEW info, info[1] \in Nat,
         SetFileInfo(n, info)
  PROVE  /\ change' \in [Nodes -> Nat] /\ size' \in [Nodes -> Nat]
         /\ fileValid' \in [Nodes -> BOOLEAN] /\ basicValid' \in BOOLEAN
BY DEF SetFileInfo, NodeTypeOK, InfoTypeOK

(* The progress of the requests for file information.  What a request has  *)
(* been told is a size and basic information.                              *)
InfoRequests ==
  kind = "fileinfo" =>
    \A q \in Irps :
      /\ req[q].pc \in {"idle", "asked", "answered", "retry", "setting"}
      /\ req[q].pc \in {"answered", "retry"} => req[q].answer \in Nat \X Nat

InfoInv == CacheInv /\ NodeTypeOK /\ InfoTypeOK /\ InfoRequests

(* The steps of MetaCache that a request for file information can take.    *)
LEMMA NextForInfo ==
  ASSUME InfoInv, kind = "fileinfo", Next
  PROVE  /\ UNCHANGED <<kind, version, change>>
         /\ UNCHANGED <<req, lockVars>> \/ \E q \in Irps : Fail(q)
<1>1. kind \notin ItemKinds
  BY DEF ItemKinds
<1>2. \A q \in Irps : req[q].pc \in {"idle", "asked", "answered", "retry", "setting"}
  BY DEF InfoInv, InfoRequests
<1>3. ASSUME NEW q \in Irps
      PROVE  /\ \A n \in Nodes : ~Lookup(q, n) /\ ~Ask(q, n) /\ ~Change(q, n)
             /\ ~Read(q) /\ ~Answer(q) /\ ~Complete(q) /\ ~TrySet(q) /\ ~Changed(q)
             /\ ~Drop(q) /\ ~Add(q) /\ ~Store(q) /\ ~Reuse(q)
  BY <1>1, <1>2 DEF Lookup, MayLookup, Ask, Change, Read, Answer, Complete, TrySet, Changed,
                    Drop, Add, Store, Reuse
<1>4. \A v \in Invalidators, n \in Nodes : ~ChildChanges(v, n)
  BY DEF ChildChanges
<1>5. Queries \subseteq Irps /\ Setters \subseteq Irps
  BY DEF Irps
<1>6. CASE \E q \in Irps : Fail(q)
  BY <1>6 DEF Fail, nodeVars
<1>7. CASE ~\E q \in Irps : Fail(q)
  BY <1>3, <1>4, <1>5, <1>7
  DEF Next, IrpStep, Expire, Sweep, AskFails, vars, nodeVars, lockVars, InvalidateBegin,
      InvalidateEnd, Forget
<1> QED BY <1>6, <1>7

LEMMA NextInfoRequests ==
  ASSUME InfoInv, Next
  PROVE  InfoRequests'
<1>1. CASE kind # "fileinfo"
  <2>1. kind' = kind
    BY DEF Next, Expire, Sweep, Lookup, Ask, AskFails, Change, IrpStep, Read, Answer, Fail,
           Complete, TrySet, Changed, Drop, Add, Store, Reuse, ChildChanges, InvalidateBegin,
           InvalidateEnd, Forget, vars
  <2> QED BY <1>1, <2>1 DEF InfoRequests
<1>2. CASE kind = "fileinfo"
  <2>1. UNCHANGED req \/ \E q \in Irps : Fail(q)
    BY <1>2, NextForInfo
  <2>2. CASE UNCHANGED req
    BY <1>2, <2>2 DEF InfoInv, InfoRequests
  <2>3. CASE \E q \in Irps : Fail(q)
    <3>1. PICK q \in Irps : Fail(q)
      BY <2>3
    <3>2. req' = [req EXCEPT ![q] = Idle] /\ Idle.pc = "idle"
      BY <3>1, IdleRequest DEF Fail, Finish
    <3> QED BY <1>2, <3>2 DEF InfoInv, InfoRequests, CacheInv, TypeOK
  <2> QED BY <2>1, <2>2, <2>3
<1> QED BY <1>1, <1>2

(* What a step of a request for file information does to the types.        *)
LEMMA InfoStepTypes ==
  ASSUME InfoInv, NEW q \in Irps, InfoQuery(q) \/ InfoSetting(q)
  PROVE  NodeTypeOK' /\ InfoTypeOK'
<1>1. CASE \E n \in Nodes : InfoAsk(q, n) \/ InfoChange(q, n)
  <2>1. MainFile \in Nodes
    BY FileInfoAssumption
  <2> QED BY <1>1, <2>1, LockTypes
      DEF InfoAsk, InfoChange, itemVars, infoVars, InfoInv, NodeTypeOK, InfoTypeOK
<1>2. CASE InfoAnswer(q) \/ InfoComplete(q)
  BY <1>2, LockTypes
  DEF InfoAnswer, InfoComplete, itemVars, infoVars, lockVars, InfoInv, NodeTypeOK, InfoTypeOK
<1>3. CASE InfoTrySet(q)
  <2>1. PICK n, info : n = req[q].file /\ info = req[q].answer
    OBVIOUS
  <2>2. /\ n \in Nodes /\ info[1] \in Nat
        /\ \/ SetFileInfo(n, info)
           \/ UNCHANGED <<change, size, times, fileValid, basicValid>>
        /\ UNCHANGED <<version, lockVars, basic, inv>>
    BY <1>3, <2>1, RequestParts DEF InfoTrySet, itemVars, InfoInv, InfoRequests
  <2>3. /\ change' \in [Nodes -> Nat] /\ size' \in [Nodes -> Nat]
        /\ fileValid' \in [Nodes -> BOOLEAN] /\ basicValid' \in BOOLEAN
    BY <2>2, SetTypes DEF InfoInv, NodeTypeOK, InfoTypeOK
  <2> QED BY <2>2, <2>3 DEF lockVars, InfoInv, NodeTypeOK, InfoTypeOK
<1>4. CASE InfoChanged(q)
  <2>1. PICK n : n = req[q].file
    OBVIOUS
  <2>2. n \in Nodes /\ Unlock(q) /\ UNCHANGED <<sharers, inv>>
    BY <1>4, <2>1, RequestParts DEF InfoChanged, itemVars, InfoInv
  <2>3. /\ version' \in [Nodes -> Nat] /\ basic' \in Nat
        /\ change' \in [Nodes -> Nat] /\ size' \in [Nodes -> Nat]
        /\ fileValid' \in [Nodes -> BOOLEAN] /\ basicValid' \in BOOLEAN
    <3>1. CASE UNCHANGED <<version, change, infoVars>>
      BY <3>1 DEF infoVars, InfoInv, NodeTypeOK, InfoTypeOK
    <3>2. CASE /\ \/ version' = [version EXCEPT ![n] = @ + 1] /\ UNCHANGED basic
                  \/ basic' = basic + 1 /\ UNCHANGED version
               /\ SetFileInfo(n, <<version'[n], basic'>>)
      <4>1. version' \in [Nodes -> Nat] /\ basic' \in Nat
        BY <2>2, <3>2 DEF InfoInv, NodeTypeOK, InfoTypeOK
      <4>2. PICK info : info = <<version'[n], basic'>>
        OBVIOUS
      <4>3. info[1] \in Nat /\ SetFileInfo(n, info)
        BY <2>2, <3>2, <4>1, <4>2
      <4> QED BY <2>2, <4>1, <4>3, SetTypes DEF InfoInv
    <3> QED BY <1>4, <2>1, <3>1, <3>2 DEF InfoChanged
  <2>4. owner' \in [Nodes -> Irps \cup {None}]
    BY <2>2, LockTypes DEF InfoInv
  <2> QED BY <2>2, <2>3, <2>4 DEF InfoInv, NodeTypeOK, InfoTypeOK
<1> QED BY <1>1, <1>2, <1>3, <1>4 DEF InfoQuery, InfoSetting

LEMMA InfoStepRequests ==
  ASSUME InfoInv, NEW q \in Irps, InfoQuery(q) \/ InfoSetting(q)
  PROVE  InfoRequests'
<1>1. kind = "fileinfo" /\ kind' = kind
  BY DEF InfoQuery, InfoSetting, InfoAsk, InfoAnswer, InfoComplete, InfoTrySet, InfoChange,
         InfoChanged, itemVars
<1>2. ASSUME NEW r, req' = [req EXCEPT ![q] = r],
             r.pc \in {"idle", "asked", "answered", "retry", "setting"},
             r.pc \in {"answered", "retry"} => r.answer \in Nat \X Nat
      PROVE  InfoRequests'
  BY <1>1, <1>2 DEF InfoInv, InfoRequests, CacheInv, TypeOK
<1>3. req[q] \in Requests
  BY DEF InfoInv, CacheInv, TypeOK
<1>4. CASE \E n \in Nodes : InfoAsk(q, n) \/ InfoChange(q, n)
  <2>1. PICK n \in Nodes, label \in {"asked", "setting"} :
          req' = [req EXCEPT ![q] = [req[q] EXCEPT !.pc = label, !.file = n]]
    <3>1. PICK n \in Nodes, label \in {"asked", "setting"} :
            req' = [req EXCEPT ![q].pc = label, ![q].file = n]
      BY <1>4 DEF InfoAsk, InfoChange
    <3>2. req \in [Irps -> Requests]
      BY DEF InfoInv, CacheInv, TypeOK
    <3> QED BY <3>1, <3>2
  <2>2. PICK r : r = [req[q] EXCEPT !.pc = label, !.file = n]
    OBVIOUS
  <2>3. r.pc = label
    BY <1>3, <2>2 DEF Requests
  <2> QED BY <1>2, <2>1, <2>2, <2>3
<1>5. CASE InfoAnswer(q)
  <2>1. PICK n, a, r :
          n = req[q].file /\ a = <<version[n], basic>>
          /\ r = [req[q] EXCEPT !.pc = "answered", !.answer = a]
    OBVIOUS
  <2>2. req' = [req EXCEPT ![q] = r] /\ n \in Nodes
    BY <1>5, <2>1, RequestParts DEF InfoAnswer, InfoInv
  <2>3. r.pc = "answered" /\ r.answer = a /\ a \in Nat \X Nat
    BY <1>3, <2>1, <2>2 DEF Requests, InfoInv, NodeTypeOK, InfoTypeOK
  <2> QED BY <1>2, <2>2, <2>3
<1>6. CASE InfoComplete(q)
  <2>1. PICK c, r : c = FileInfoChangeNumber(req[q].file)
                    /\ r = [req[q] EXCEPT !.pc = "retry", !.seen = c]
    OBVIOUS
  <2>2. req' = [req EXCEPT ![q] = r] /\ req[q].pc = "answered"
    BY <1>6, <2>1 DEF InfoComplete
  <2>3. r.pc = "retry" /\ r.answer = req[q].answer
    BY <1>3, <2>1 DEF Requests
  <2>4. r.answer \in Nat \X Nat
    BY <1>1, <2>2, <2>3 DEF InfoInv, InfoRequests
  <2> QED BY <1>2, <2>2, <2>3, <2>4
<1>7. CASE InfoTrySet(q) \/ InfoChanged(q)
  <2>1. req' = [req EXCEPT ![q] = Idle] /\ Idle.pc = "idle"
    BY <1>7, IdleRequest DEF InfoTrySet, InfoChanged, Finish
  <2> QED BY <1>2, <2>1
<1> QED BY <1>4, <1>5, <1>6, <1>7 DEF InfoQuery, InfoSetting

LEMMA InfoNextInv ==
  ASSUME InfoInv, InfoNext
  PROVE  InfoInv'
<1>1. CASE Next /\ UNCHANGED infoVars
  BY <1>1, NextCacheInv, NextNodeType, NextInfoRequests DEF InfoInv, InfoTypeOK, infoVars
<1>2. ASSUME NEW q \in Irps, InfoQuery(q) \/ InfoSetting(q)
      PROVE  InfoInv'
  <2>1. Unread
    BY <1>2, InfoUnread DEF InfoInv, InfoQuery, InfoSetting
  <2>2. UNCHANGED <<list, last, refs, stored>>
    BY <1>2 DEF InfoQuery, InfoSetting, InfoAsk, InfoAnswer, InfoComplete, InfoTrySet,
                InfoChange, InfoChanged, itemVars, cacheVars
  <2> QED BY <1>2, <2>1, <2>2, QuietInv, InfoStepTypes, InfoStepRequests DEF InfoInv
<1>3. CASE (\E n \in Nodes : InvalidateFileInfo(n)) \/ InfoExpire
  <2>1. UNCHANGED vars /\ InfoTypeOK'
    BY <1>3 DEF InvalidateFileInfo, InfoExpire, InfoInv, InfoTypeOK
  <2>2. UNCHANGED <<list, last, refs, stored, req>>
    BY <2>1 DEF vars
  <2>3. Unread
    BY <2>2 DEF Unread, InfoInv, CacheInv, TypeOK
  <2> QED BY <2>1, <2>2, <2>3, QuietInv DEF vars, InfoInv, NodeTypeOK, InfoRequests
<1> QED BY <1>1, <1>2, <1>3 DEF InfoNext, Irps

-----------------------------------------------------------------------------
(* The locks are held as the progress of the requests says. *)

LEMMA OnlyOne ==
  ASSUME CacheInv, NEW q \in Irps, NEW r, req' = [req EXCEPT ![q] = r]
  PROVE  Only(q) /\ req'[q] = r
BY DEF CacheInv, TypeOK, Only

LEMMA OwnersKnown ==
  ASSUME CacheInv, LocksKnown, NEW q \in Irps
  PROVE  /\ FilesKnown
         /\ req[q].pc \notin Setting \cup {"reading"} => ~Owns(q)
         /\ req[q].pc \in Setting \cup Asking => req[q].file \in Nodes
         /\ Owns(q) => owner[req[q].file] = q
<1>1. \A label \in Setting \cup Asking : label # "idle"
  BY DEF Setting, Asking
<1> QED BY <1>1 DEF CacheInv, IndicesKnown, FilesKnown, LocksKnown, Owns

LEMMA ReferenceLocks ==
  ASSUME CacheInv, LocksKnown, NodeTypeOK, NEW q \in Irps, NEW n \in Nodes, Reference(q, n),
         UNCHANGED sharers, CopiesUnlocked \/ Unowned(n) \/ owner[n] = q,
         Owns(q) => owner[n] = q
  PROVE  LocksKnown'
<1>1. PICK r : r = [Idle EXCEPT !.pc = "reading", !.file = n, !.index = stored[n]]
  OBVIOUS
<1>2. r.pc = "reading" /\ r.file = n
  BY <1>1 DEF Idle
<1>3. Only(q) /\ req'[q] = r
  BY <1>1, OnlyOne DEF Reference, Use
<1>4. "reading" \notin Setting \cup Asking
  BY DEF Setting, Asking
<1>5. CASE CopiesUnlocked
  BY <1>2, <1>3, <1>4, <1>5, OwnersKnown, LockReturned DEF Reference, Use
<1>6. CASE ~CopiesUnlocked
  BY <1>2, <1>3, <1>6, OwnersKnown, LockTaken DEF Reference, Use
<1> QED BY <1>5, <1>6

LEMMA FinishLocks ==
  ASSUME CacheInv, LocksKnown, NodeTypeOK, NEW q \in Irps, Finish(q),
         \/ Unlock(q) /\ UNCHANGED sharers
         \/ Unshare(q) /\ UNCHANGED owner /\ req[q].pc \notin Setting \cup {"reading"}
         \/ UNCHANGED lockVars /\ req[q].pc \notin Setting \cup {"reading"}
  PROVE  LocksKnown'
<1>1. Only(q) /\ req'[q].pc = "idle"
  BY OnlyOne, IdleRequest DEF Finish
<1>2. "idle" \notin Setting \cup Asking
  BY DEF Setting, Asking
<1>3. CASE Unlock(q) /\ UNCHANGED sharers
  BY <1>1, <1>2, <1>3, OwnersKnown, LockReturned
<1>4. CASE Unshare(q) /\ UNCHANGED owner /\ req[q].pc \notin Setting \cup {"reading"}
  BY <1>1, <1>2, <1>4, OwnersKnown, ShareReturned
<1>5. CASE UNCHANGED lockVars /\ req[q].pc \notin Setting \cup {"reading"}
  BY <1>1, <1>2, <1>5, OwnersKnown, LockKept
<1> QED BY <1>3, <1>4, <1>5

(* A request goes on without a change of the locks.                        *)
LEMMA OnwardLocks ==
  ASSUME CacheInv, LocksKnown, NodeTypeOK, NEW q \in Irps, NEW r,
         req' = [req EXCEPT ![q] = r], r.file = req[q].file, UNCHANGED lockVars,
         r.pc \in Setting => req[q].pc \in Setting,
         r.pc \in Asking => req[q].pc \in Asking,
         req[q].pc \in Setting \cup {"reading"} => r.pc \in Setting \cup {"reading"}
  PROVE  LocksKnown'
<1>1. Only(q) /\ req'[q] = r
  BY OnlyOne
<1>2. /\ r.pc \in Setting => owner[r.file] = q
      /\ r.pc \in Asking => q \in sharers[r.file]
  BY DEF LocksKnown
<1>3. Owns(q) => r.file = req[q].file /\ r.pc \in Setting \cup {"reading"}
  BY OwnersKnown
<1> QED BY <1>1, <1>2, <1>3, LockKept

LEMMA StillLocked ==
  ASSUME LocksKnown, UNCHANGED <<req, lockVars>>
  PROVE  LocksKnown'
BY DEF LocksKnown, lockVars

LEMMA NextLocks ==
  ASSUME CacheInv, NodeTypeOK, LocksKnown, kind \in ItemKinds, Next
  PROVE  LocksKnown'
<1>0. /\ \A q \in Irps : req[q] \in Requests
      /\ {"idle", "reading", "asked", "answered", "retry"} \cap Setting = {}
      /\ {"asked", "answered"} = Asking
      /\ {"setting", "drop", "add", "store", "stored"} = Setting
  BY DEF CacheInv, TypeOK, Setting, Asking
<1>1. CASE UNCHANGED <<req, lockVars>>
  BY <1>1, StillLocked
<1>2. ASSUME NEW q \in Irps, NEW n \in Nodes, Lookup(q, n)
      PROVE  LocksKnown'
  <2>1. ~Owns(q)
    BY <1>0, <1>2, OwnersKnown DEF Lookup, MayLookup
  <2> QED BY <1>2, <2>1, ReferenceLocks DEF Lookup, MayLookup
<1>3. ASSUME NEW q \in Irps, NEW n \in Nodes, Ask(q, n)
      PROVE  LocksKnown'
  <2>1. ~Owns(q) /\ owner[n] = None
    BY <1>0, <1>3, OwnersKnown DEF Ask, MayLookup, Unowned
  <2>2. PICK r : r = [req[q] EXCEPT !.pc = "asked", !.file = n]
    OBVIOUS
  <2>3. r.pc \in Asking /\ r.file = n
    BY <1>0, <2>2 DEF Requests
  <2>4. Only(q) /\ req'[q] = r
    <3>1. req' = [req EXCEPT ![q] = r]
      BY <1>3, <2>2 DEF Ask
    <3> QED BY <3>1, OnlyOne
  <2> QED BY <1>3, <2>1, <2>3, <2>4, OwnersKnown, ShareTaken DEF Ask
<1>4. ASSUME NEW q \in Irps, NEW n \in Nodes, Change(q, n)
      PROVE  LocksKnown'
  <2>1. ~Owns(q)
    BY <1>0, <1>4, OwnersKnown DEF Change
  <2>2. PICK r : r = [req[q] EXCEPT !.pc = "setting", !.file = n]
    OBVIOUS
  <2>3. r.pc \in Setting /\ r.file = n
    BY <1>0, <2>2 DEF Requests
  <2>4. Only(q) /\ req'[q] = r
    <3>1. req' = [req EXCEPT ![q] = r]
      BY <1>4, <2>2 DEF Change
    <3> QED BY <3>1, OnlyOne
  <2> QED BY <1>4, <2>1, <2>3, <2>4, OwnersKnown, LockTaken DEF Change
<1>5. ASSUME NEW q \in Irps, Read(q) \/ Fail(q)
      PROVE  LocksKnown'
  BY <1>0, <1>5, FinishLocks DEF Read, Fail
<1>6. ASSUME NEW q \in Irps, Answer(q) \/ Drop(q) \/ Add(q)
      PROVE  LocksKnown'
  <2>1. PICK a, label : a = version[req[q].file]
                        /\ label = IF Answer(q) THEN "answered" ELSE IF Drop(q) THEN "add"
                                                                ELSE "store"
    OBVIOUS
  <2>2. PICK r : req' = [req EXCEPT ![q] = r] /\ r.file = req[q].file /\ r.pc = label
    <3>1. CASE Answer(q)
      <4>1. PICK r : r = [req[q] EXCEPT !.pc = "answered", !.answer = a]
        OBVIOUS
      <4>2. req' = [req EXCEPT ![q] = r]
        BY <2>1, <3>1, <4>1 DEF Answer
      <4>3. r.file = req[q].file /\ r.pc = label
        BY <1>0, <2>1, <3>1, <4>1 DEF Requests
      <4> QED BY <4>2, <4>3
    <3>2. CASE Drop(q) /\ ~Answer(q)
      <4>1. PICK r : r = [req[q] EXCEPT !.pc = "add"]
        OBVIOUS
      <4>2. req' = [req EXCEPT ![q] = r]
        BY <3>2, <4>1 DEF Drop
      <4>3. r.file = req[q].file /\ r.pc = label
        BY <1>0, <2>1, <3>2, <4>1 DEF Requests
      <4> QED BY <4>2, <4>3
    <3>3. CASE Add(q) /\ ~Answer(q) /\ ~Drop(q)
      <4>1. PICK i \in {req[q].index, NextIndex} :
              req' = [req EXCEPT ![q] = [req[q] EXCEPT !.pc = "store", !.index = i]]
        BY <1>0, <3>3 DEF Add, AddAnswer, Requests
      <4>2. PICK r : r = [req[q] EXCEPT !.pc = "store", !.index = i]
        OBVIOUS
      <4>3. r.file = req[q].file /\ r.pc = label
        BY <1>0, <2>1, <3>3, <4>2 DEF Requests
      <4> QED BY <4>1, <4>2, <4>3
    <3> QED BY <1>6, <3>1, <3>2, <3>3
  <2>3. /\ UNCHANGED lockVars
        /\ r.pc \in Setting => req[q].pc \in Setting
        /\ r.pc \in Asking => req[q].pc \in Asking
        /\ req[q].pc \in Setting \cup {"reading"} => r.pc \in Setting \cup {"reading"}
    BY <1>0, <1>6, <2>1, <2>2 DEF Answer, Drop, Add
  <2> QED BY <2>2, <2>3, OnwardLocks
<1>7. ASSUME NEW q \in Irps, Complete(q)
      PROVE  LocksKnown'
  <2>1. ~Owns(q)
    BY <1>0, <1>7, OwnersKnown DEF Complete
  <2>2. PICK r : r = [req[q] EXCEPT !.pc = "retry", !.seen = change[req[q].file]]
    OBVIOUS
  <2>3. r.pc \notin Setting \cup Asking
    BY <1>0, <2>2 DEF Requests
  <2>4. Only(q) /\ req'[q] = r
    <3>1. req' = [req EXCEPT ![q] = r]
      BY <1>7, <2>2 DEF Complete
    <3> QED BY <3>1, OnlyOne
  <2> QED BY <1>7, <2>1, <2>3, <2>4, OwnersKnown, ShareReturned DEF Complete
<1>8. ASSUME NEW q \in Irps, TrySet(q)
      PROVE  LocksKnown'
  <2>1. PICK n : n = req[q].file
    OBVIOUS
  <2>2. /\ req[q].pc = "retry" /\ n \in Nodes /\ Unowned(n) /\ ~Owns(q)
        /\ req[q].pc \notin Setting \cup {"reading"} /\ UNCHANGED sharers
    BY <1>0, <1>8, <2>1, RequestParts, OwnersKnown DEF TrySet
  <2>3. CASE Lock(n, q) /\ req' = [req EXCEPT ![q].pc = "drop"]
    <3>1. PICK r : r = [req[q] EXCEPT !.pc = "drop"]
      OBVIOUS
    <3>2. r.pc \in Setting /\ r.file = n
      BY <1>0, <2>1, <3>1 DEF Requests
    <3>3. Only(q) /\ req'[q] = r
      BY <2>3, <3>1, OnlyOne
    <3> QED BY <2>2, <2>3, <3>2, <3>3, OwnersKnown, LockTaken
  <2>4. CASE Reference(q, n)
    BY <2>2, <2>4, ReferenceLocks
  <2>5. CASE Finish(q) /\ UNCHANGED owner
    BY <2>2, <2>5, FinishLocks DEF lockVars
  <2> QED BY <1>8, <2>1, <2>3, <2>4, <2>5 DEF TrySet
<1>9. ASSUME NEW q \in Irps, Changed(q)
      PROVE  LocksKnown'
  <2>1. CASE UNCHANGED owner /\ ~Finish(q)
    <3>1. PICK r : r = [req[q] EXCEPT !.pc = "drop", !.answer = version[req[q].file] + 1]
      OBVIOUS
    <3>2. r.pc = "drop" /\ r.file = req[q].file
      BY <1>0, <3>1 DEF Requests
    <3>3. req' = [req EXCEPT ![q] = r] /\ UNCHANGED lockVars /\ req[q].pc = "setting"
      BY <1>9, <2>1, <3>1 DEF Changed, lockVars
    <3> QED BY <1>0, <3>2, <3>3, OnwardLocks
  <2>2. CASE Finish(q) /\ Unlock(q)
    BY <1>9, <2>2, FinishLocks DEF Changed
  <2>3. \/ UNCHANGED owner /\ req' = [req EXCEPT ![q].pc = "drop",
                                           ![q].answer = version[req[q].file] + 1]
        \/ Finish(q) /\ Unlock(q)
    BY <1>9 DEF Changed
  <2>4. req' = [req EXCEPT ![q].pc = "drop", ![q].answer = version[req[q].file] + 1] => ~Finish(q)
    BY <1>0, IdleRequest DEF Finish, CacheInv, TypeOK, Requests
  <2> QED BY <2>1, <2>2, <2>3, <2>4
<1>10. ASSUME NEW q \in Irps, Store(q)
       PROVE  LocksKnown'
  <2>1. CASE kind = "dirinfo"
    <3>1. PICK r : r = [req[q] EXCEPT !.pc = "stored", !.index = 0]
      OBVIOUS
    <3>2. r.pc = "stored" /\ r.file = req[q].file
      BY <1>0, <3>1 DEF Requests
    <3>3. req' = [req EXCEPT ![q] = r] /\ UNCHANGED lockVars /\ req[q].pc = "store"
      BY <1>10, <2>1, <3>1 DEF Store, lockVars
    <3> QED BY <1>0, <3>2, <3>3, OnwardLocks
  <2>2. CASE kind # "dirinfo"
    BY <1>10, <2>2, FinishLocks DEF Store
  <2> QED BY <2>1, <2>2
<1>11. ASSUME NEW q \in Irps, Reuse(q)
       PROVE  LocksKnown'
  <2>1. PICK n : n = req[q].file
    OBVIOUS
  <2>2. n \in Nodes /\ owner[n] = q /\ UNCHANGED sharers
    BY <1>0, <1>11, <2>1, RequestParts DEF Reuse, LocksKnown
  <2>3. CASE Reference(q, n)
    BY <2>2, <2>3, ReferenceLocks
  <2>4. CASE Finish(q) /\ Unlock(q)
    BY <2>2, <2>4, FinishLocks
  <2> QED BY <1>11, <2>1, <2>3, <2>4 DEF Reuse
<1>12. Queries \subseteq Irps /\ Setters \subseteq Irps
  BY DEF Irps
<1>13. CASE \/ \E k \in 1 .. Len(list) : Expire(k)
            \/ Sweep \/ \E n \in Nodes : Forget(n)
  BY <1>1, <1>13 DEF Expire, Sweep, Forget
<1>14. CASE \E q \in Irps : IrpStep(q)
  BY <1>5, <1>6, <1>7, <1>8, <1>9, <1>10, <1>11, <1>14 DEF IrpStep
<1>15. CASE \E v \in Invalidators :
              (\E n \in Nodes : ChildChanges(v, n)) \/ InvalidateBegin(v) \/ InvalidateEnd(v)
  BY <1>1, <1>15 DEF ChildChanges, InvalidateBegin, InvalidateEnd
<1>16. CASE \E q \in Queries, n \in Nodes : Lookup(q, n) \/ Ask(q, n) \/ AskFails(q, n)
  BY <1>1, <1>2, <1>3, <1>12, <1>16 DEF AskFails, vars, lockVars
<1>17. CASE \E q \in Setters, n \in Nodes : Change(q, n)
  BY <1>4, <1>12, <1>17
<1> QED BY <1>13, <1>14, <1>15, <1>16, <1>17 DEF Next

-----------------------------------------------------------------------------
(* What requests have been told, and what is stored, is what user mode has *)
(* (the security descriptors and the extended attributes).                 *)

(* Nothing under an index that a node or a request has is new.             *)
NothingNew == \A i, n : i = 0 \/ Current(i, n) => Current(i, n)'

LEMMA StillStored ==
  ASSUME AnswersCurrent, NothingNew, \A n \in Nodes : stored'[n] \in {stored[n], 0}
  PROVE  \A n \in Nodes : ~Unknown(n) => Current(stored[n], n)'
<1>1. ASSUME NEW n \in Nodes, ~Unknown(n)
      PROVE  Current(stored[n], n)'
  <2>1. PICK i : i = stored'[n]
    OBVIOUS
  <2>2. Current(i, n)'
    BY <1>1, <2>1 DEF AnswersCurrent, NothingNew
  <2> QED BY <2>1, <2>2 DEF Current
<1> QED BY <1>1

LEMMA StillAnswered ==
  ASSUME AnswersCurrent, NothingNew, NEW p \in Irps, req'[p] = req[p], UNCHANGED <<version, change>>,
         req[p].pc # "idle" => (Pending(req[p].file) => Pending(req[p].file)')
  PROVE  Answered(p)'
<1>1. Answered(p)
  BY DEF AnswersCurrent
<1>2. PICK i, n : i = req[p].index /\ n = req[p].file
  OBVIOUS
<1>3. Current(i, n) => Current(i, n)'
  BY DEF NothingNew
<1>4. req[p].pc = "store" => Current(req[p].index, req[p].file)'
  BY <1>1, <1>2, <1>3 DEF Answered, Current
<1>5. req[p].pc = "retry" /\ Pending(n) => Pending(req[p].file)'
  BY <1>2
<1> QED BY <1>1, <1>2, <1>4, <1>5 DEF Answered

(* A step that takes no request further. *)
LEMMA AnswersStay ==
  ASSUME AnswersCurrent, NothingNew, UNCHANGED <<version, change, req, owner>>,
         \A n \in Nodes : stored'[n] \in {stored[n], 0}
  PROVE  AnswersCurrent'
<1>1. \A n : (Unknown(n)' <=> Unknown(n)) /\ (Pending(n)' <=> Pending(n))
  BY DEF Unknown, Pending
<1>2. ASSUME NEW p \in Irps
      PROVE  Answered(p)'
  <2>1. Pending(req[p].file) => Pending(req[p].file)'
    BY DEF Pending
  <2> QED BY <2>1, StillAnswered
<1> QED BY <1>1, <1>2, StillStored DEF AnswersCurrent

(* A step of a request that does not set, or has not set yet.              *)
LEMMA AnswersKept ==
  ASSUME AnswersCurrent, FilesKnown, NothingNew, NEW q \in Irps, Only(q),
         UNCHANGED <<version, change, stored>>,
         \A n \in Nodes : owner'[n] = owner[n] \/ owner[n] \in {q, None},
         \/ req[q].pc \notin {"drop", "add", "store"}
         \/ UNCHANGED owner /\ req[q].pc = "drop" /\ req'[q].pc = "add",
         Answered(q)'
  PROVE  AnswersCurrent'
<1>1. ASSUME NEW n \in Nodes
      PROVE  (Unknown(n) => Unknown(n)') /\ (Pending(n) => Pending(n)')
  <2>1. ASSUME NEW p \in Irps, owner[n] = p, req[p].pc \in {"drop", "add", "store"}
        PROVE  /\ owner'[n] = p /\ req'[p].pc \in {"drop", "add", "store"}
               /\ req[p].pc \in {"drop", "add"} => req'[p].pc \in {"drop", "add"}
    <3>1. CASE p = q
      BY <2>1, <3>1
    <3>2. CASE p # q
      BY <2>1, <3>2, MetaCacheAssumption DEF Only
    <3> QED BY <3>1, <3>2
  <2>2. ASSUME Unknown(n) PROVE Unknown(n)'
    BY <2>1, <2>2 DEF Unknown
  <2>3. ASSUME Pending(n) PROVE Pending(n)'
    BY <2>1, <2>3 DEF Pending
  <2> QED BY <2>2, <2>3
<1>2. ASSUME NEW p \in Irps
      PROVE  Answered(p)'
  <2>1. CASE p = q
    BY <2>1
  <2>2. CASE p # q
    <3>1. PICK n : n = req[p].file
      OBVIOUS
    <3>2. req'[p] = req[p]
      BY <2>2 DEF Only
    <3>3. req[p].pc # "idle" => (Pending(n) => Pending(n)')
      BY <1>1, <3>1 DEF FilesKnown
    <3>4. req[p].pc # "idle" => (Pending(req[p].file) => Pending(req[p].file)')
      BY <3>1, <3>2, <3>3 DEF Pending
    <3> QED BY <3>2, <3>4, StillAnswered
  <2> QED BY <2>1, <2>2
<1>3. \A n \in Nodes : ~Unknown(n)' => Current(stored[n], n)'
  BY <1>1, StillStored
<1> QED BY <1>2, <1>3 DEF AnswersCurrent

LEMMA SameIsNotNew ==
  ASSUME CacheInv, UNCHANGED <<list, version>>
  PROVE  NothingNew
<1>1. \A x \in Range(list) : x.index # 0
  BY ListMembers DEF CacheInv, TypeOK, Items, Indices
<1> QED BY <1>1 DEF NothingNew, Current

LEMMA RemovedIsNotNew ==
  ASSUME CacheInv, NEW i, Removed(i), UNCHANGED version
  PROVE  NothingNew
<1>1. \A x \in Range(list) : x.index # 0
  BY ListMembers DEF CacheInv, TypeOK, Items, Indices
<1> QED BY <1>1 DEF NothingNew, Current, Removed

LEMMA ExpiredIsNotNew ==
  ASSUME CacheInv, NEW k \in 1 .. Len(list), Expire(k)
  PROVE  NothingNew
<1>1. /\ list' \in Seq(Items) /\ Len(list') = Len(list)
      /\ \A j \in 1 .. Len(list) :
           list'[j].index = list[j].index /\ list'[j].version = list[j].version
  BY ExpireList DEF CacheInv, TypeOK
<1>2. \A x \in Range(list') :
        \E y \in Range(list) : y.index = x.index /\ y.version = x.version
  <2>1. /\ Range(list') = {list'[j] : j \in 1 .. Len(list)}
        /\ Range(list) = {list[j] : j \in 1 .. Len(list)}
    BY <1>1, LenProperties DEF Range, CacheInv, TypeOK
  <2> QED BY <1>1, <2>1
<1>3. \A x \in Range(list) : x.index # 0
  BY ListMembers DEF CacheInv, TypeOK, Items, Indices
<1>4. UNCHANGED version
  BY DEF Expire
<1> QED BY <1>2, <1>3, <1>4 DEF NothingNew, Current

LEMMA ChangedAnswers ==
  ASSUME CacheInv, NodeTypeOK, LocksKnown, AnswersCurrent, NEW q \in Irps, NEW n \in Nodes,
         n = req[q].file, req[q].pc = "setting", UNCHANGED <<list, stored, change, lockVars>>,
         version' = [version EXCEPT ![n] = @ + 1],
         req' = [req EXCEPT ![q].pc = "drop", ![q].answer = version[n] + 1]
  PROVE  AnswersCurrent'
<1>1. PICK r : r = [req[q] EXCEPT !.pc = "drop", !.answer = version[n] + 1]
  OBVIOUS
<1>2. r.pc = "drop" /\ r.file = n /\ r.answer = version[n] + 1
  BY <1>1 DEF CacheInv, TypeOK, Requests
<1>3. Only(q) /\ req'[q] = r
  <2>1. req' = [req EXCEPT ![q] = r]
    BY <1>1
  <2> QED BY <2>1, OnlyOne
<1>4. owner[n] = q /\ sharers[n] = {} /\ \A m \in Nodes : owner[m] = q => m = n
  BY MetaCacheAssumption DEF LocksKnown, Setting
<1>5. /\ version'[n] = version[n] + 1
      /\ \A m \in Nodes \ {n} : version'[m] = version[m]
  BY DEF NodeTypeOK
<1>6. Pending(n)' /\ Unknown(n)'
  BY <1>2, <1>3, <1>4 DEF Pending, Unknown, lockVars
<1>7. \A m \in Nodes : (Unknown(m) => Unknown(m)') /\ (Pending(m) => Pending(m)')
  <2>1. \A p \in Irps : p # q => req'[p] = req[p]
    BY <1>3 DEF Only
  <2> QED BY <2>1 DEF Unknown, Pending, lockVars
<1>8. ASSUME NEW m \in Nodes, ~Unknown(m)'
      PROVE  Current(stored[m], m)'
  <2>1. m # n /\ Current(stored[m], m)
    BY <1>6, <1>7, <1>8 DEF AnswersCurrent
  <2> QED BY <1>5, <2>1 DEF Current
<1>9. ASSUME NEW p \in Irps
      PROVE  Answered(p)'
  <2>1. CASE p = q
    BY <1>2, <1>3, <1>5, <2>1 DEF Answered
  <2>2. CASE p # q
    <3>1. PICK m, i : m = req[p].file /\ i = req[p].index
      OBVIOUS
    <3>2. req'[p] = req[p] /\ Answered(p) /\ (req[p].pc # "idle" => m \in Nodes)
      BY <1>3, <2>2, <3>1, RequestParts DEF Only, AnswersCurrent
    <3>3. req[p].pc \in {"answered", "drop", "add", "store"} => m # n
      BY <1>4, <2>2, <3>1 DEF LocksKnown, Setting, Asking
    <3>4. req[p].pc \in {"answered", "drop", "add"} => req'[p].answer = version'[m]
      BY <1>5, <3>1, <3>2, <3>3 DEF Answered
    <3>5. req[p].pc = "store" => Current(i, m)'
      BY <1>5, <3>1, <3>2, <3>3 DEF Answered, Current
    <3>6. ASSUME req[p].pc = "retry"
          PROVE  /\ req[p].seen \in Nat /\ req[p].seen <= change'[m]
                 /\ req[p].seen = change'[m] => req[p].answer = version'[m] \/ Pending(m)'
      BY <1>5, <1>6, <1>7, <3>1, <3>2, <3>6 DEF Answered
    <3>7. req'[p].pc = "store" => Current(req[p].index, req[p].file)'
      BY <3>1, <3>2, <3>5 DEF Current
    <3>8. Pending(m)' => Pending(req[p].file)'
      BY <3>1, <3>2 DEF Pending
    <3> QED BY <3>1, <3>2, <3>4, <3>6, <3>7, <3>8 DEF Answered
  <2> QED BY <2>1, <2>2
<1> QED BY <1>8, <1>9 DEF AnswersCurrent

LEMMA StoreAnswers ==
  ASSUME CacheInv, NodeTypeOK, LocksKnown, AnswersCurrent, NEW q \in Irps, Store(q),
         kind # "dirinfo"
  PROVE  AnswersCurrent'
<1>1. PICK n, i : n = req[q].file /\ i = req[q].index
  OBVIOUS
<1>2. /\ req[q].pc = "store" /\ n \in Nodes /\ stored' = [stored EXCEPT ![n] = i]
      /\ Finish(q) /\ Unlock(q) /\ UNCHANGED <<list, change, version>>
  BY <1>1, RequestParts DEF Store, cacheVars
<1>3. Only(q) /\ req'[q].pc = "idle"
  BY <1>2, OnlyOne, IdleRequest DEF Finish
<1>4. /\ Current(i, n) /\ owner[n] = q /\ \A m \in Nodes : owner[m] = q => m = n
      /\ \A m \in Nodes : owner'[m] = IF owner[m] = q THEN None ELSE owner[m]
  BY <1>1, <1>2 DEF AnswersCurrent, Answered, LocksKnown, Setting, Unlock, NodeTypeOK
<1>5. \A j, m : Current(j, m) => Current(j, m)'
  BY <1>2 DEF Current
<1>6. ASSUME NEW m \in Nodes, m # n
      PROVE  (Unknown(m) => Unknown(m)') /\ (Pending(m) => Pending(m)')
  <2>1. \A p \in Irps : owner[m] = p => p # q /\ owner'[m] = p /\ req'[p] = req[p]
    BY <1>3, <1>4, <1>6 DEF Only
  <2> QED BY <2>1 DEF Unknown, Pending
<1>7. ASSUME NEW m \in Nodes, ~Unknown(m)'
      PROVE  Current(stored[m], m)'
  <2>1. PICK j : j = stored'[m]
    OBVIOUS
  <2>2. Current(j, m)
    BY <1>2, <1>4, <1>6, <1>7, <2>1 DEF AnswersCurrent, CacheInv, TypeOK
  <2> QED BY <1>5, <2>1, <2>2 DEF Current
<1>8. NothingNew
  BY <1>2, SameIsNotNew
<1>9. ~Pending(n)
  BY <1>2, <1>4 DEF Pending
<1>10. ASSUME NEW p \in Irps
       PROVE  Answered(p)'
  <2>1. CASE p = q
    BY <1>3, <2>1 DEF Answered
  <2>2. CASE p # q
    <3>1. PICK m : m = req[p].file
      OBVIOUS
    <3>2. req'[p] = req[p] /\ (req[p].pc # "idle" => m \in Nodes)
      BY <1>3, <2>2, <3>1, RequestParts DEF Only
    <3>3. req[p].pc # "idle" => (Pending(m) => Pending(m)')
      BY <1>6, <1>9, <3>2
    <3>4. req[p].pc # "idle" => (Pending(req[p].file) => Pending(req[p].file)')
      BY <3>1, <3>2, <3>3 DEF Pending
    <3> QED BY <1>2, <1>8, <3>2, <3>4, StillAnswered
  <2> QED BY <2>1, <2>2
<1> QED BY <1>7, <1>10 DEF AnswersCurrent

LEMMA AddAnswers ==
  ASSUME CacheInv, NodeTypeOK, LocksKnown, AnswersCurrent, NEW q \in Irps, Add(q)
  PROVE  AnswersCurrent'
<1>1. PICK n, v : n = req[q].file /\ v = req[q].answer
  OBVIOUS
<1>2. /\ req[q].pc = "add" /\ req[q].index = 0 /\ n \in Nodes /\ v \in Answers
      /\ change' = [change EXCEPT ![n] = @ + 1] /\ UNCHANGED <<stored, version, lockVars>>
  BY <1>1, RequestParts DEF Add, CacheInv, IndicesKnown
<1>3. v = version[n] /\ owner[n] = q /\ \A m \in Nodes : owner[m] = q => m = n
  BY <1>1, <1>2 DEF AnswersCurrent, Answered, LocksKnown, Setting
<1>4. last \in Nat /\ \A x \in Range(list) : x \in Items /\ x.index \in Nat \ {0}
  BY ListMembers, MetaCacheAssumption DEF CacheInv, TypeOK, Items, Indices
<1>5. PICK i \in {0, last + 1} :
        /\ req' = [req EXCEPT ![q] = [req[q] EXCEPT !.pc = "store", !.index = i]]
        /\ Current(i, n)'
        /\ \A j \in 0 .. last : \A m : j = 0 \/ Current(j, m) => Current(j, m)'
  <2>1. CASE AddItem(n, v)
               /\ req' = [req EXCEPT ![q].pc = "store", ![q].index = NextIndex]
    <3>1. PICK x : x = [index |-> NextIndex, node |-> n, version |-> v, expired |-> FALSE]
      OBVIOUS
    <3>2. Range(list') = {y \in Range(list) : y.index \notin Evicted} \cup {x}
      BY <1>2, <2>1, <3>1, AddList
    <3>3. x.index = last + 1 /\ x.version = version[n]
      BY <1>3, <3>1 DEF NextIndex
    <3>4. \A y \in Range(list) : y.index # last + 1
      BY <1>4 DEF CacheInv, IndexedOnce
    <3>5. \A y \in Range(list') : y.index = last + 1 => y.version = version[n]
      BY <3>2, <3>3, <3>4
    <3>6. PICK i : i = last + 1
      OBVIOUS
    <3>7. Current(i, n)'
      BY <1>2, <3>5, <3>6 DEF Current
    <3>8. \A j \in 0 .. last : \A m : j = 0 \/ Current(j, m) => Current(j, m)'
      BY <1>2, <1>4, <3>2, <3>3 DEF Current
    <3>9. req' = [req EXCEPT ![q] = [req[q] EXCEPT !.pc = "store", !.index = i]]
      BY <2>1, <3>6 DEF NextIndex
    <3> QED BY <3>6, <3>7, <3>8, <3>9
  <2>2. CASE req' = [req EXCEPT ![q].pc = "store"] /\ UNCHANGED cacheVars
    <3>1. \A j, m : j = 0 \/ Current(j, m) => Current(j, m)'
      BY <1>2, <1>4, <2>2 DEF Current, cacheVars
    <3>2. PICK i : i = 0
      OBVIOUS
    <3>3. req' = [req EXCEPT ![q] = [req[q] EXCEPT !.pc = "store", !.index = i]]
      BY <1>2, <2>2, <3>2 DEF CacheInv, TypeOK, Requests
    <3> QED BY <3>1, <3>2, <3>3
  <2> QED BY <1>1, <2>1, <2>2 DEF Add, AddAnswer
<1>6. PICK r : r = [req[q] EXCEPT !.pc = "store", !.index = i]
  OBVIOUS
<1>7. r.pc = "store" /\ r.file = n /\ r.index = i
  BY <1>1, <1>6 DEF CacheInv, TypeOK, Requests
<1>8. Only(q) /\ req'[q] = r
  BY <1>5, <1>6, OnlyOne
<1>9. Unknown(n)' /\ \A m \in Nodes : Unknown(m) => Unknown(m)'
  <2>1. \A p \in Irps : p # q => req'[p] = req[p]
    BY <1>8 DEF Only
  <2> QED BY <1>2, <1>3, <1>7, <1>8, <2>1 DEF Unknown, lockVars
<1>10. ASSUME NEW m \in Nodes, m # n
       PROVE  Pending(m) => Pending(m)'
  <2>1. \A p \in Irps : owner[m] = p => p # q /\ req'[p] = req[p]
    BY <1>3, <1>8, <1>10 DEF Only
  <2> QED BY <1>2, <2>1 DEF Pending, lockVars
<1>11. ASSUME NEW m \in Nodes, ~Unknown(m)'
       PROVE  Current(stored[m], m)'
  <2>1. PICK j : j = stored[m]
    OBVIOUS
  <2>2. j \in 0 .. last /\ Current(j, m)
    BY <1>9, <1>11, <2>1 DEF AnswersCurrent, CacheInv, IndicesKnown, Indexed
  <2>3. Current(j, m)'
    BY <1>5, <2>2
  <2> QED BY <1>2, <2>1, <2>3 DEF Current
<1>12. ASSUME NEW p \in Irps
       PROVE  Answered(p)'
  <2>1. CASE p = q
    BY <1>5, <1>7, <1>8, <2>1 DEF Answered, Current
  <2>2. CASE p # q
    <3>1. PICK m, j : m = req[p].file /\ j = req[p].index
      OBVIOUS
    <3>2. req'[p] = req[p] /\ Answered(p) /\ (req[p].pc # "idle" => m \in Nodes)
      BY <1>8, <2>2, <3>1, RequestParts DEF Only, AnswersCurrent
    <3>3. req[p].pc = "store" => Current(j, m)'
      <4>1. req[p].pc = "store" => j \in 0 .. last /\ Current(j, m)
        BY <3>1, <3>2 DEF CacheInv, IndicesKnown, Indexed, Answered
      <4> QED BY <1>5, <4>1
    <3>4. req'[p].pc = "store" => Current(req[p].index, req[p].file)'
      BY <3>1, <3>2, <3>3 DEF Current
    <3>5. ASSUME req[p].pc = "retry"
          PROVE  /\ req[p].seen \in Nat /\ req[p].seen <= change'[m]
                 /\ req[p].seen = change'[m] => req[p].answer = version[m] \/ Pending(m)'
      <4>1. /\ req[p].seen \in Nat /\ req[p].seen <= change[m]
            /\ req[p].seen = change[m] => req[p].answer = version[m] \/ Pending(m)
        BY <3>1, <3>2, <3>5 DEF Answered
      <4>2. m \in Nodes /\ change[m] \in Nat
        BY <3>2, <3>5 DEF NodeTypeOK
      <4>3. CASE m = n
        BY <1>2, <4>1, <4>2, <4>3 DEF NodeTypeOK
      <4>4. CASE m # n
        BY <1>2, <1>10, <4>1, <4>2, <4>4 DEF NodeTypeOK
      <4> QED BY <4>3, <4>4
    <3>6. Pending(m)' => Pending(req[p].file)'
      BY <3>1, <3>2 DEF Pending
    <3> QED BY <1>2, <3>1, <3>2, <3>4, <3>5, <3>6 DEF Answered
  <2> QED BY <2>1, <2>2
<1> QED BY <1>11, <1>12 DEF AnswersCurrent

(* A request that is done, or reads what is cached, has no answer.         *)
LEMMA DoneAnswers ==
  ASSUME CacheInv, AnswersCurrent, NEW q \in Irps, NEW r, req' = [req EXCEPT ![q] = r],
         r.pc \in {"idle", "reading", "asked", "setting"},
         req[q].pc \notin {"drop", "add", "store"},
         UNCHANGED <<list, version, change, stored>>,
         \A n \in Nodes : owner'[n] = owner[n] \/ owner[n] \in {q, None}
  PROVE  AnswersCurrent'
<1>1. Only(q) /\ req'[q] = r
  BY OnlyOne
<1>2. Answered(q)'
  BY <1>1 DEF Answered
<1>3. FilesKnown
  BY DEF FilesKnown, CacheInv, IndicesKnown
<1> QED BY <1>1, <1>2, <1>3, SameIsNotNew, AnswersKept

LEMMA OwnersChange ==
  ASSUME NodeTypeOK, NEW q \in Irps
  PROVE  /\ \A n \in Nodes : Lock(n, q) /\ (Unowned(n) \/ owner[n] = q) =>
              \A m \in Nodes : owner'[m] = owner[m] \/ owner[m] \in {q, None}
         /\ Unlock(q) => \A m \in Nodes : owner'[m] = owner[m] \/ owner[m] \in {q, None}
BY DEF NodeTypeOK, Lock, Unlock, Unowned

LEMMA ReferenceAnswers ==
  ASSUME CacheInv, NodeTypeOK, AnswersCurrent, NEW q \in Irps, NEW n \in Nodes,
         Reference(q, n), CopiesUnlocked \/ Unowned(n) \/ owner[n] = q,
         req[q].pc \notin {"drop", "add", "store"},
         UNCHANGED <<list, version, change, stored>>
  PROVE  AnswersCurrent'
<1>1. PICK r : r = [Idle EXCEPT !.pc = "reading", !.file = n, !.index = stored[n]]
  OBVIOUS
<1>2. r.pc = "reading" /\ req' = [req EXCEPT ![q] = r]
  BY <1>1 DEF Idle, Reference, Use
<1>3. \A m \in Nodes : owner'[m] = owner[m] \/ owner[m] \in {q, None}
  BY OwnersChange DEF Reference, Use
<1> QED BY <1>2, <1>3, DoneAnswers

LEMMA FinishAnswers ==
  ASSUME CacheInv, NodeTypeOK, AnswersCurrent, NEW q \in Irps, Finish(q),
         UNCHANGED owner \/ Unlock(q), req[q].pc \notin {"drop", "add", "store"},
         UNCHANGED <<list, version, change, stored>>
  PROVE  AnswersCurrent'
BY DoneAnswers, IdleRequest, OwnersChange DEF Finish

LEMMA NextAnswers ==
  ASSUME CacheInv, NodeTypeOK, LocksKnown, AnswersCurrent, kind \in {"security", "ea"}, Next
  PROVE  AnswersCurrent'
<1>0. /\ \A q \in Irps : req[q] \in Requests
      /\ \A q \in Irps : req[q].pc # "idle" => req[q].file \in Nodes
      /\ FilesKnown
  BY DEF CacheInv, TypeOK, IndicesKnown, FilesKnown
<1>1. CASE \E k \in 1 .. Len(list) : Expire(k)
  <2>1. PICK k \in 1 .. Len(list) : Expire(k)
    BY <1>1
  <2>2. UNCHANGED <<version, change, req, owner, stored>>
    BY <2>1 DEF Expire, nodeVars, lockVars
  <2> QED BY <2>1, <2>2, ExpiredIsNotNew, AnswersStay
<1>2. CASE Sweep
  <2>1. UNCHANGED <<version, change, req, owner, stored>>
    BY <1>2 DEF Sweep, nodeVars, lockVars
  <2>2. NothingNew
    BY <1>2, <2>1, SweepRemoves, RemovedIsNotNew
  <2> QED BY <2>1, <2>2, AnswersStay
<1>3. CASE \E q \in Queries, n \in Nodes : Lookup(q, n) \/ Ask(q, n) \/ AskFails(q, n)
  <2>1. PICK q \in Irps, n \in Nodes : Lookup(q, n) \/ Ask(q, n) \/ AskFails(q, n)
    BY <1>3 DEF Irps
  <2>2. CASE Lookup(q, n)
    BY <2>2, ReferenceAnswers DEF Lookup, MayLookup, nodeVars
  <2>3. CASE Ask(q, n)
    <3>1. PICK r : r = [req[q] EXCEPT !.pc = "asked", !.file = n]
      OBVIOUS
    <3>2. r.pc = "asked" /\ req' = [req EXCEPT ![q] = r]
      BY <1>0, <2>3, <3>1 DEF Ask, Requests
    <3>3. req[q].pc = "idle" /\ UNCHANGED <<list, version, change, stored, owner>>
      BY <2>3 DEF Ask, MayLookup, cacheVars, nodeVars
    <3> QED BY <3>2, <3>3, DoneAnswers
  <2>4. CASE AskFails(q, n)
    <3>1. UNCHANGED <<list, version, change, req, owner, stored>>
      BY <2>4 DEF AskFails, vars, cacheVars, nodeVars, lockVars
    <3> QED BY <3>1, SameIsNotNew, AnswersStay
  <2> QED BY <2>1, <2>2, <2>3, <2>4
<1>4. CASE \E q \in Setters, n \in Nodes : Change(q, n)
  <2>1. PICK q \in Irps, n \in Nodes : Change(q, n)
    BY <1>4 DEF Irps
  <2>2. PICK r : r = [req[q] EXCEPT !.pc = "setting", !.file = n]
    OBVIOUS
  <2>3. r.pc = "setting" /\ req' = [req EXCEPT ![q] = r]
    BY <1>0, <2>1, <2>2 DEF Change, Requests
  <2>4. /\ req[q].pc = "idle" /\ UNCHANGED <<list, version, change, stored>>
        /\ \A m \in Nodes : owner'[m] = owner[m] \/ owner[m] \in {q, None}
    BY <2>1, OwnersChange DEF Change, cacheVars, nodeVars
  <2> QED BY <2>3, <2>4, DoneAnswers
<1>5. ASSUME NEW q \in Irps, Read(q) \/ Fail(q)
      PROVE  AnswersCurrent'
  BY <1>5, FinishAnswers DEF Read, Fail, cacheVars, nodeVars
<1>6. ASSUME NEW q \in Irps, Answer(q)
      PROVE  AnswersCurrent'
  <2>1. PICK n, a, r : /\ n = req[q].file /\ a = version[n]
                       /\ r = [req[q] EXCEPT !.pc = "answered", !.answer = a]
    OBVIOUS
  <2>2. /\ r.pc = "answered" /\ r.file = n /\ r.answer = a
        /\ req' = [req EXCEPT ![q] = r]
    BY <1>0, <1>6, <2>1 DEF Answer, Requests
  <2>3. Only(q) /\ req'[q] = r
    BY <2>2, OnlyOne
  <2>4. req[q].pc = "asked" /\ UNCHANGED <<list, version, change, stored, owner>>
    BY <1>6 DEF Answer, cacheVars, nodeVars, lockVars
  <2>5. Answered(q)'
    BY <2>1, <2>2, <2>3, <2>4 DEF Answered
  <2> QED BY <1>0, <2>3, <2>4, <2>5, SameIsNotNew, AnswersKept
<1>7. ASSUME NEW q \in Irps, Complete(q)
      PROVE  AnswersCurrent'
  <2>1. PICK n, c, r : /\ n = req[q].file /\ c = change[n]
                       /\ r = [req[q] EXCEPT !.pc = "retry", !.seen = c]
    OBVIOUS
  <2>2. /\ r.pc = "retry" /\ r.file = n /\ r.seen = c /\ r.answer = req[q].answer
        /\ req' = [req EXCEPT ![q] = r]
    BY <1>0, <1>7, <2>1 DEF Complete, Requests
  <2>3. Only(q) /\ req'[q] = r
    BY <2>2, OnlyOne
  <2>4. req[q].pc = "answered" /\ UNCHANGED <<list, version, change, stored, owner>>
    BY <1>7 DEF Complete, cacheVars, nodeVars
  <2>5. n \in Nodes /\ c \in Nat /\ r.answer = version[n]
    BY <1>0, <2>1, <2>2, <2>4 DEF NodeTypeOK, AnswersCurrent, Answered
  <2>6. Answered(q)'
    BY <2>1, <2>2, <2>3, <2>4, <2>5 DEF Answered
  <2> QED BY <1>0, <2>3, <2>4, <2>6, SameIsNotNew, AnswersKept
<1>8. ASSUME NEW q \in Irps, TrySet(q)
      PROVE  AnswersCurrent'
  <2>1. PICK n : n = req[q].file
    OBVIOUS
  <2>2. /\ req[q].pc = "retry" /\ n \in Nodes /\ Unowned(n)
        /\ UNCHANGED <<list, version, change, stored>>
    BY <1>0, <1>8, <2>1 DEF TrySet, nodeVars
  <2>3. CASE /\ change[n] = req[q].seen
             /\ Lock(n, q) /\ req' = [req EXCEPT ![q].pc = "drop"]
    <3>1. PICK r : r = [req[q] EXCEPT !.pc = "drop"]
      OBVIOUS
    <3>2. /\ r.pc = "drop" /\ r.file = n /\ r.answer = req[q].answer
          /\ req' = [req EXCEPT ![q] = r]
      BY <1>0, <2>1, <2>3, <3>1 DEF Requests
    <3>3. Only(q) /\ req'[q] = r
      BY <3>2, OnlyOne
    <3>4. ~Pending(n)
      BY <2>2, MetaCacheAssumption DEF Pending, Unowned
    <3>5. r.answer = version[n]
      BY <2>1, <2>2, <2>3, <3>2, <3>4 DEF AnswersCurrent, Answered
    <3>6. Answered(q)'
      BY <2>2, <3>2, <3>3, <3>5 DEF Answered
    <3>7. \A m \in Nodes : owner'[m] = owner[m] \/ owner[m] \in {q, None}
      BY <2>2, <2>3, OwnersChange
    <3> QED BY <1>0, <2>2, <3>3, <3>6, <3>7, SameIsNotNew, AnswersKept
  <2>4. CASE Reference(q, n)
    BY <2>2, <2>4, ReferenceAnswers
  <2>5. CASE Finish(q) /\ UNCHANGED owner
    BY <2>2, <2>5, FinishAnswers
  <2> QED BY <1>8, <2>1, <2>3, <2>4, <2>5 DEF TrySet
<1>9. ASSUME NEW q \in Irps, Changed(q)
      PROVE  AnswersCurrent'
  <2>1. PICK n : n = req[q].file
    OBVIOUS
  <2>2. /\ req[q].pc = "setting" /\ n \in Nodes
        /\ UNCHANGED <<list, change, stored, sharers>>
    BY <1>0, <1>9, <2>1 DEF Changed, cacheVars, nodeVars
  <2>3. CASE /\ version' = [version EXCEPT ![n] = @ + 1]
             /\ req' = [req EXCEPT ![q].pc = "drop", ![q].answer = version[n] + 1]
             /\ UNCHANGED owner
    BY <2>1, <2>2, <2>3, ChangedAnswers DEF lockVars
  <2>4. CASE Unlock(q) /\ Finish(q) /\ UNCHANGED version
    BY <2>2, <2>4, FinishAnswers
  <2> QED BY <1>9, <2>1, <2>3, <2>4 DEF Changed
<1>10. ASSUME NEW q \in Irps, Drop(q)
       PROVE  AnswersCurrent'
  <2>1. PICK r : r = [req[q] EXCEPT !.pc = "add"]
    OBVIOUS
  <2>2. /\ r.pc = "add" /\ r.file = req[q].file /\ r.answer = req[q].answer
        /\ req' = [req EXCEPT ![q] = r]
    BY <1>0, <1>10, <2>1 DEF Drop, Requests
  <2>3. Only(q) /\ req'[q] = r
    BY <2>2, OnlyOne
  <2>4. /\ req[q].pc = "drop" /\ UNCHANGED <<version, change, stored, owner>>
        /\ Removed(stored[req[q].file])
    BY <1>10, InvalidateRemoves DEF Drop, nodeVars, lockVars
  <2>5. Answered(q)'
    BY <2>2, <2>3, <2>4 DEF AnswersCurrent, Answered
  <2> QED BY <1>0, <2>2, <2>3, <2>4, <2>5, RemovedIsNotNew, AnswersKept
<1>11. ASSUME NEW q \in Irps, Reuse(q)
       PROVE  AnswersCurrent'
  <2>1. PICK n : n = req[q].file
    OBVIOUS
  <2>2. /\ req[q].pc = "stored" /\ n \in Nodes /\ owner[n] = q
        /\ UNCHANGED <<list, version, change, stored>>
    BY <1>0, <1>11, <2>1 DEF Reuse, nodeVars, LocksKnown, Setting
  <2>3. CASE Reference(q, n)
    BY <2>2, <2>3, ReferenceAnswers
  <2>4. CASE Finish(q) /\ Unlock(q)
    BY <2>2, <2>4, FinishAnswers
  <2> QED BY <1>11, <2>1, <2>3, <2>4 DEF Reuse
<1>12. CASE \E q \in Irps : IrpStep(q)
  BY <1>5, <1>6, <1>7, <1>8, <1>9, <1>10, <1>11, <1>12, AddAnswers, StoreAnswers DEF IrpStep
<1>13. CASE \E v \in Invalidators :
              (\E n \in Nodes : ChildChanges(v, n)) \/ InvalidateBegin(v) \/ InvalidateEnd(v)
  <2>1. PICK v \in Invalidators :
          (\E n \in Nodes : ChildChanges(v, n)) \/ InvalidateBegin(v) \/ InvalidateEnd(v)
    BY <1>13
  <2>2. CASE InvalidateBegin(v)
    <3>1. UNCHANGED <<list, version, change, req, owner, stored>>
      BY <2>2 DEF InvalidateBegin, cacheVars, nodeVars, lockVars
    <3> QED BY <3>1, SameIsNotNew, AnswersStay
  <2>3. CASE InvalidateEnd(v)
    <3>1. UNCHANGED <<version, change, req, owner, stored>> /\ Removed(inv[v].index)
      BY <2>3, InvalidateRemoves DEF InvalidateEnd, nodeVars, lockVars
    <3> QED BY <3>1, RemovedIsNotNew, AnswersStay
  <2>4. \A n \in Nodes : ~ChildChanges(v, n)
    BY DEF ChildChanges
  <2> QED BY <2>1, <2>2, <2>3, <2>4
<1>14. CASE \E n \in Nodes : Forget(n)
  <2>1. PICK n \in Nodes : Forget(n)
    BY <1>14
  <2>2. /\ UNCHANGED <<version, change, req, owner>> /\ Removed(stored[n])
        /\ stored' = [stored EXCEPT ![n] = 0]
    BY <2>1, InvalidateRemoves DEF Forget, lockVars
  <2>3. \A m \in Nodes : stored'[m] \in {stored[m], 0}
    BY <2>2 DEF CacheInv, TypeOK
  <2> QED BY <2>2, <2>3, RemovedIsNotNew, AnswersStay
<1> QED BY <1>1, <1>2, <1>3, <1>4, <1>12, <1>13, <1>14 DEF Next

-----------------------------------------------------------------------------
(* The theorems about the caches. *)

(* The inductive invariant of InfoSpec.                                    *)
IInv == InfoInv /\ NodeInv

LEMMA InitInv ==
  ASSUME InfoInit
  PROVE  IInv
<1>0. /\ Idle \in Requests /\ Idle.pc = "idle" /\ Idle.index = 0
      /\ \A label \in Setting \cup Asking \cup {"reading"} : label # "idle"
  BY IdleRequest DEF Setting, Asking
<1>1. /\ list = <<>> /\ last = 0 /\ refs = [i \in Indices |-> 0]
      /\ stored = [n \in Nodes |-> 0] /\ req = [q \in Irps |-> Idle]
      /\ change = [n \in Nodes |-> 0] /\ version = [n \in Nodes |-> 0]
      /\ owner = [n \in Nodes |-> None] /\ sharers = [n \in Nodes |-> {}]
      /\ inv = [v \in Invalidators |-> InvIdle]
  BY DEF InfoInit, Init
<1>2. list \in Seq(Items) /\ IsInjective(list) /\ Range(list) = {}
  BY <1>1 DEF IsInjective, Range
<1>3. TypeOK
  BY <1>0, <1>1, <1>2, MetaCacheAssumption DEF TypeOK
<1>4. IndexedOnce
  BY <1>2 DEF IndexedOnce
<1>5. IndicesKnown
  BY <1>0, <1>1, <1>2, MetaCacheAssumption DEF IndicesKnown, Indexed
<1>6. Counted
  <2>1. \A i : Readers(i) = {} /\ ~Cached(i)
    BY <1>0, <1>1, <1>2, <1>3, ListMembers DEF Readers, TypeOK
  <2>2. ASSUME NEW i \in Indices
        PROVE  /\ IsFiniteSet(Readers(i))
               /\ refs[i] = (IF Cached(i) THEN 1 ELSE 0) + Cardinality(Readers(i))
    <3>1. IsFiniteSet({}) /\ Cardinality({}) = 0
      BY FS_EmptySet
    <3>2. Readers(i) = {} /\ ~Cached(i) /\ refs[i] = 0
      BY <1>1, <2>1
    <3> QED BY <3>1, <3>2
  <2> QED BY <2>2 DEF Counted, RefsExact
<1>7. NodeTypeOK
  BY <1>1, MetaCacheAssumption DEF NodeTypeOK, InvIdle
<1>8. InfoTypeOK /\ InfoRequests
  BY <1>0, <1>1 DEF InfoInit, InfoTypeOK, InfoRequests
<1>9. LocksKnown
  BY <1>0, <1>1, MetaCacheAssumption DEF LocksKnown
<1>10. AnswersCurrent
  BY <1>0, <1>1, <1>2 DEF AnswersCurrent, Answered, Current
<1> QED BY <1>3, <1>4, <1>5, <1>6, <1>7, <1>8, <1>9, <1>10
        DEF IInv, InfoInv, NodeInv, CacheInv

LEMMA StutterInv ==
  ASSUME IInv, UNCHANGED fileVars
  PROVE  IInv'
<1>1. UNCHANGED <<vars, basic, size, fileValid, basicValid>>
  BY DEF fileVars, infoVars
<1>2. UNCHANGED <<kind, list, last, refs, stored, change, version, owner, sharers, req, inv>>
  BY <1>1 DEF vars
<1>3. InfoInv'
  <2>1. CacheInv'
    <3>1. Unread
      BY <1>2 DEF Unread, IInv, InfoInv, CacheInv, TypeOK
    <3> QED BY <1>2, <3>1, QuietInv DEF IInv, InfoInv
  <2> QED BY <1>1, <1>2, <2>1 DEF IInv, InfoInv, NodeTypeOK, InfoTypeOK, InfoRequests
<1>4. kind \in ItemKinds => LocksKnown'
  BY <1>2, StillLocked DEF IInv, NodeInv, lockVars
<1>5. kind \in {"security", "ea"} => AnswersCurrent'
  BY <1>2, SameIsNotNew, AnswersStay DEF IInv, InfoInv, NodeInv
<1> QED BY <1>2, <1>3, <1>4, <1>5 DEF IInv, InfoInv, NodeInv

LEMMA StepInv ==
  ASSUME IInv, InfoNext
  PROVE  IInv'
<1>1. InfoInv'
  BY InfoNextInv DEF IInv
<1>2. CASE Next
  <2>1. kind' = kind
    BY <1>2
    DEF Next, Expire, Sweep, Lookup, Ask, AskFails, Change, IrpStep, Read, Answer, Fail,
        Complete, TrySet, Changed, Drop, Add, Store, Reuse, ChildChanges, InvalidateBegin,
        InvalidateEnd, Forget, vars
  <2>2. {"security", "ea"} \subseteq ItemKinds
    BY DEF ItemKinds
  <2> QED BY <1>1, <1>2, <2>1, <2>2, NextLocks, NextAnswers DEF IInv, InfoInv, NodeInv
<1>3. CASE ~Next
  <2>1. /\ kind' = kind
        /\ kind = "fileinfo" \/ UNCHANGED vars
    BY <1>3
    DEF InfoNext, InfoQuery, InfoSetting, InfoAsk, InfoAnswer, InfoComplete, InfoTrySet,
        InfoChange, InfoChanged, InvalidateFileInfo, InfoExpire, itemVars, vars
  <2>2. CASE kind = "fileinfo"
    BY <1>1, <2>1, <2>2 DEF IInv, InfoInv, NodeInv, ItemKinds
  <2>3. CASE UNCHANGED vars
    <3>1. UNCHANGED <<kind, list, stored, change, version, owner, sharers, req>>
      BY <2>3 DEF vars
    <3>2. kind \in ItemKinds => LocksKnown'
      BY <3>1, StillLocked DEF IInv, NodeInv, lockVars
    <3>3. kind \in {"security", "ea"} => AnswersCurrent'
      BY <3>1, SameIsNotNew, AnswersStay DEF IInv, InfoInv, NodeInv
    <3> QED BY <1>1, <3>1, <3>2, <3>3 DEF InfoInv, NodeInv, IInv
  <2> QED BY <2>1, <2>2, <2>3
<1> QED BY <1>2, <1>3

LEMMA CachesInv == InfoSpec => []IInv
<1>1. InfoInit => IInv
  BY InitInv
<1>2. IInv /\ [InfoNext]_fileVars => IInv'
  BY StepInv, StutterInv
<1> QED BY <1>1, <1>2, PTL DEF InfoSpec

(* The reference count of an item is one for the cache and one for each    *)
(* reader of its buffer (FspMetaCacheDereferenceItem).                     *)
THEOREM ReferencesExact == InfoSpec => []RefsExact
<1>1. IInv => RefsExact
  BY DEF IInv, InfoInv, CacheInv, Counted
<1> QED BY <1>1, CachesInv, PTL

(* An index, however stale, leads a file node to its own metadata only     *)
(* (FspMetaCacheAddItem never uses an index twice).                        *)
THEOREM IndexLeadsToOwnContent == InfoSpec => []OwnContent
<1>1. ASSUME IInv PROVE OwnContent
  <2>1. ASSUME NEW n \in Nodes, NEW k \in At(stored[n])
        PROVE  list[k].node = n
    <3>1. list[k] \in Range(list) /\ list[k].index = stored[n]
      BY <1>1, ListMembers DEF IInv, InfoInv, CacheInv, TypeOK
    <3> QED BY <1>1, <3>1 DEF IInv, InfoInv, CacheInv, IndicesKnown, Indexed
  <2> QED BY <2>1 DEF OwnContent
<1> QED BY <1>1, CachesInv, PTL

(* Security descriptors and extended attributes that a file node finds in  *)
(* its cache are those that user mode has, when no request holds the node  *)
(* (the change numbers of FspFileNodeTrySetSecurity etc.).                 *)
THEOREM CachedIsCurrent == InfoSpec => []Coherent
<1>1. ASSUME IInv PROVE Coherent
  <2>1. ASSUME kind \in {"security", "ea"}, NEW n \in Nodes, owner[n] = None,
               NEW k \in At(stored[n])
        PROVE  list[k].version = version[n]
    <3>1. list[k] \in Range(list) /\ list[k].index = stored[n]
      BY <1>1, ListMembers DEF IInv, InfoInv, CacheInv, TypeOK
    <3>2. ~Unknown(n)
      BY <2>1, MetaCacheAssumption DEF Unknown
    <3> QED BY <1>1, <2>1, <3>1, <3>2 DEF IInv, NodeInv, AnswersCurrent, Current
  <2> QED BY <2>1 DEF Coherent
<1> QED BY <1>1, CachesInv, PTL

-----------------------------------------------------------------------------
(* The file information.  The change numbers that FspFileNodeTrySetFileInfo*)
(* compares wrap around, so that the theorem has a hypothesis: while a     *)
(* request is between its completion and its retry, the information of the *)
(* main file is set less than 2^20 times.  What the change number of the   *)
(* main file was at the completion is history, which "noted" keeps.        *)
VARIABLE noted

Noting == noted' = [q \in Irps |-> IF InfoComplete(q) THEN change[MainFile] ELSE noted[q]]

InfoHistory == noted = [q \in Irps |-> 0] /\ [][Noting]_<<fileVars, noted>>

FewChanges ==
  \A q \in Irps : req[q].pc = "retry" => change[MainFile] - noted[q] < MainModulus

(* The resource of the main file is held by those who ask and set.         *)
InfoLocks ==
  /\ \A q \in Irps : req[q].pc = "setting" => owner[MainFile] = q
  /\ \A q \in Irps : req[q].pc \in Asking => q \in sharers[MainFile]
  /\ sharers[MainFile] # {} => owner[MainFile] = None

Correct(q) == req[q].answer = <<version[req[q].file], basic>>

(* An answer is correct until the node is let go of, and after that as     *)
(* long as the change number of the main file is the one that was noted.   *)
Told(q) ==
  /\ req[q].pc = "answered" => Correct(q)
  /\ req[q].pc = "retry" =>
       /\ noted[q] <= change[MainFile]
       /\ req[q].seen[1] = noted[q] % MainModulus
       /\ noted[q] = change[MainFile] => Correct(q)

Fresh ==
  /\ \A n \in Nodes : fileValid[n] => size[n] = version[n]
  /\ basicValid \/ fileValid[MainFile] => times = basic

InfoCurrent ==
  /\ noted \in [Irps -> Nat]
  /\ kind = "fileinfo" => InfoLocks /\ (\A q \in Irps : Told(q)) /\ Fresh

LEMMA Division ==
  ASSUME NEW m \in Nat \ {0}, NEW a \in Nat
  PROVE  a = m * (a \div m) + (a % m) /\ a \div m \in Nat
<1>1. a = m * (a \div m) + (a % m)
  OBVIOUS
<1>2. a \div m \in Nat
  OBVIOUS
<1> QED BY <1>1, <1>2

LEMMA NearMultiples ==
  ASSUME NEW m \in Nat \ {0}, NEW x \in Int, NEW y \in Int, 0 <= m * x - m * y,
         m * x - m * y < m
  PROVE  x = y
<1>1. m * x - m * y = m * (x - y)
  OBVIOUS
<1>2. CASE x > y
  <2>1. m * (x - y) >= m
    BY <1>2
  <2> QED BY <1>1, <2>1
<1>3. CASE x < y
  <2>1. m * (x - y) <= 0 - m
    BY <1>3
  <2> QED BY <1>1, <2>1
<1> QED BY <1>2, <1>3

(* Change numbers that are near and have the same bits are the same.       *)
LEMMA SameBits ==
  ASSUME NEW m \in Nat \ {0}, NEW a \in Nat, NEW b \in Nat, a <= b, b - a < m, a % m = b % m
  PROVE  a = b
<1>1. PICK x \in Int, y \in Int, k \in Int : a = m * x + k /\ b = m * y + k
  <2>1. /\ a = m * (a \div m) + (a % m) /\ a \div m \in Int
        /\ b = m * (b \div m) + (b % m) /\ b \div m \in Int /\ a % m \in Int
    BY Division
  <2> QED BY <2>1
<1>2. 0 <= m * y - m * x /\ m * y - m * x < m
  <2>1. m * y \in Int /\ m * x \in Int
    OBVIOUS
  <2> QED BY <1>1, <2>1
<1>3. x = y
  BY <1>2, NearMultiples
<1> QED BY <1>1, <1>3

(* A step that leaves what user mode has and the change numbers alone.     *)
LEMMA StillTold ==
  ASSUME NEW p \in Irps, Told(p), req'[p] = req[p], noted'[p] = noted[p],
         UNCHANGED <<version, basic, change>>
  PROVE  Told(p)'
BY DEF Told, Correct

(* A step in which a setter changes what user mode has, or a query sets    *)
(* what it was told, counts.                                               *)
LEMMA OvertakenTold ==
  ASSUME NEW p \in Irps, Told(p), req'[p] = req[p], noted'[p] = noted[p],
         req[p].pc # "answered", noted[p] \in Nat, change[MainFile] \in Nat,
         change'[MainFile] = change[MainFile] + 1
  PROVE  Told(p)'
BY DEF Told

LEMMA SetInfo ==
  ASSUME InfoInv, Fresh, NEW n \in Nodes, NEW info, SetFileInfo(n, info),
         version' \in [Nodes -> Nat], \A m \in Nodes \ {n} : version'[m] = version[m],
         info[1] = version'[n], info[2] = basic'
  PROVE  Fresh' /\ change'[MainFile] = change[MainFile] + 1
<1>1. change'[MainFile] = change[MainFile] + 1
  BY FileInfoAssumption DEF SetFileInfo
<1>2. /\ times' = basic'
      /\ \A m \in Nodes : size'[m] = IF m = n THEN info[1] ELSE size[m]
      /\ \A m \in Nodes : fileValid'[m] = IF m = n THEN TRUE ELSE fileValid[m]
  BY DEF SetFileInfo, InfoInv, InfoTypeOK
<1>3. \A m \in Nodes : fileValid'[m] => size'[m] = version'[m]
  BY <1>2 DEF Fresh
<1> QED BY <1>1, <1>2, <1>3 DEF Fresh

LEMMA NotCompleted ==
  ASSUME CacheInv, NEW p \in Irps, req'[p] = req[p] \/ req'[p].pc # "retry"
  PROVE  ~InfoComplete(p)
<1>1. SUFFICES ASSUME InfoComplete(p)
               PROVE  FALSE
  OBVIOUS
<1>2. PICK r : r = [req[p] EXCEPT !.pc = "retry", !.seen = FileInfoChangeNumber(req[p].file)]
  OBVIOUS
<1>3. r.pc = "retry"
  BY <1>2 DEF CacheInv, TypeOK, Requests
<1>4. req' = [req EXCEPT ![p] = r] /\ req[p].pc = "answered"
  BY <1>1, <1>2 DEF InfoComplete
<1> QED BY <1>3, <1>4, OnlyOne

LEMMA FailCurrent ==
  ASSUME InfoInv, InfoCurrent, kind = "fileinfo", NEW q \in Irps, Fail(q), Noting,
         UNCHANGED infoVars
  PROVE  InfoLocks' /\ (\A p \in Irps : Told(p)') /\ Fresh'
<1>1. /\ req[q].pc \in {"asked", "answered", "retry"} /\ Only(q) /\ req'[q].pc = "idle"
      /\ Unshare(q) /\ UNCHANGED <<version, change, owner, basic, size, times, fileValid, basicValid>>
  BY OnlyOne, IdleRequest DEF Fail, Finish, InfoInv, nodeVars, infoVars
<1>2. sharers'[MainFile] = sharers[MainFile] \ {q}
  BY <1>1, FileInfoAssumption DEF Unshare, InfoInv, NodeTypeOK
<1>3. InfoLocks'
  BY <1>1, <1>2 DEF InfoLocks, InfoCurrent, Only, Asking
<1>4. ASSUME NEW p \in Irps
      PROVE  Told(p)'
  <2>1. CASE p = q
    BY <1>1, <2>1 DEF Told
  <2>2. CASE p # q
    <3>1. req'[p] = req[p]
      BY <1>1, <2>2 DEF Only
    <3>2. noted'[p] = noted[p]
      BY <3>1, NotCompleted DEF Noting, InfoInv
    <3> QED BY <1>1, <3>1, <3>2, StillTold DEF InfoCurrent
  <2> QED BY <2>1, <2>2
<1> QED BY <1>1, <1>3, <1>4 DEF Fresh, InfoCurrent

(* A step of a request that keeps its answer, asks, or is answered.        *)
LEMMA QuietCurrent ==
  ASSUME InfoInv, InfoCurrent, kind = "fileinfo", NEW q \in Irps, Only(q), Noting,
         UNCHANGED <<version, change, infoVars>>, Told(q)', InfoLocks'
  PROVE  InfoLocks' /\ (\A p \in Irps : Told(p)') /\ Fresh'
<1>1. ASSUME NEW p \in Irps, p # q
      PROVE  Told(p)'
  <2>1. req'[p] = req[p]
    BY <1>1 DEF Only
  <2>2. noted'[p] = noted[p]
    BY <2>1, NotCompleted DEF Noting, InfoInv
  <2> QED BY <2>1, <2>2, StillTold DEF InfoCurrent, infoVars
<1> QED BY <1>1 DEF Fresh, InfoCurrent, infoVars

LEMMA ChangeNumberOfMain ==
  ASSUME NEW n \in Nodes
  PROVE  FileInfoChangeNumber(n)[1] = change[MainFile] % MainModulus
BY DEF FileInfoChangeNumber

LEMMA InfoQuietSteps ==
  ASSUME InfoInv, InfoCurrent, NEW q \in Irps, Noting,
         \/ \E n \in Nodes : InfoAsk(q, n) \/ InfoChange(q, n)
         \/ InfoAnswer(q) \/ InfoComplete(q)
  PROVE  InfoLocks' /\ (\A p \in Irps : Told(p)') /\ Fresh'
<1>0. /\ kind = "fileinfo" /\ InfoLocks /\ Told(q) /\ req[q] \in Requests
      /\ UNCHANGED <<version, change, infoVars>> /\ MainFile \in Nodes /\ q # None
  BY FileInfoAssumption, MetaCacheAssumption
  DEF InfoAsk, InfoChange, InfoAnswer, InfoComplete, InfoCurrent, InfoInv, CacheInv, TypeOK
<1>1. ASSUME NEW n \in Nodes, InfoAsk(q, n)
      PROVE  InfoLocks' /\ (\A p \in Irps : Told(p)') /\ Fresh'
  <2>1. PICK r : r = [req[q] EXCEPT !.pc = "asked", !.file = n]
    OBVIOUS
  <2>2. r.pc = "asked" /\ req' = [req EXCEPT ![q] = r]
    BY <1>0, <1>1, <2>1 DEF InfoAsk, Requests
  <2>3. Only(q) /\ req'[q] = r
    BY <2>2, OnlyOne DEF InfoInv
  <2>4. owner[MainFile] = None /\ owner' = owner
        /\ sharers'[MainFile] = sharers[MainFile] \cup {q}
    BY <1>0, <1>1 DEF InfoAsk, Share, InfoInv, NodeTypeOK
  <2>5. InfoLocks'
    BY <1>0, <2>2, <2>3, <2>4 DEF InfoLocks, Only, Asking
  <2>6. Told(q)'
    BY <2>2, <2>3 DEF Told
  <2> QED BY <1>0, <2>3, <2>5, <2>6, QuietCurrent
<1>2. ASSUME NEW n \in Nodes, InfoChange(q, n)
      PROVE  InfoLocks' /\ (\A p \in Irps : Told(p)') /\ Fresh'
  <2>1. PICK r : r = [req[q] EXCEPT !.pc = "setting", !.file = n]
    OBVIOUS
  <2>2. r.pc = "setting" /\ req' = [req EXCEPT ![q] = r]
    BY <1>0, <1>2, <2>1 DEF InfoChange, Requests
  <2>3. Only(q) /\ req'[q] = r
    BY <2>2, OnlyOne DEF InfoInv
  <2>4. /\ owner[MainFile] = None /\ sharers[MainFile] = {} /\ sharers' = sharers
        /\ owner'[MainFile] = q
    BY <1>0, <1>2 DEF InfoChange, InfoUnowned, Unowned, Lock, InfoInv, NodeTypeOK
  <2>5. \A p \in Irps : p # q => req'[p] = req[p] /\ req[p].pc # "setting"
    BY <1>0, <2>3, <2>4, MetaCacheAssumption DEF InfoLocks, Only
  <2>6. InfoLocks'
    BY <1>0, <2>2, <2>3, <2>4, <2>5 DEF InfoLocks, Asking
  <2>7. Told(q)'
    BY <2>2, <2>3 DEF Told
  <2> QED BY <1>0, <2>3, <2>6, <2>7, QuietCurrent
<1>3. CASE InfoAnswer(q)
  <2>1. PICK n, a, r : /\ n = req[q].file /\ a = <<version[n], basic>>
                       /\ r = [req[q] EXCEPT !.pc = "answered", !.answer = a]
    OBVIOUS
  <2>2. /\ r.pc = "answered" /\ r.file = n /\ r.answer = a /\ req' = [req EXCEPT ![q] = r]
    BY <1>0, <1>3, <2>1 DEF InfoAnswer, Requests
  <2>3. Only(q) /\ req'[q] = r
    BY <2>2, OnlyOne DEF InfoInv
  <2>4. req[q].pc = "asked" /\ UNCHANGED lockVars
    BY <1>3 DEF InfoAnswer
  <2>5. InfoLocks'
    BY <1>0, <2>2, <2>3, <2>4 DEF InfoLocks, Only, Asking, lockVars
  <2>6. Told(q)'
    BY <1>0, <2>1, <2>2, <2>3 DEF Told, Correct, infoVars
  <2> QED BY <1>0, <2>3, <2>5, <2>6, QuietCurrent
<1>4. CASE InfoComplete(q)
  <2>1. PICK n, c, r : /\ n = req[q].file /\ c = FileInfoChangeNumber(n)
                       /\ r = [req[q] EXCEPT !.pc = "retry", !.seen = c]
    OBVIOUS
  <2>2. /\ r.pc = "retry" /\ r.file = n /\ r.seen = c /\ r.answer = req[q].answer
        /\ req' = [req EXCEPT ![q] = r]
    BY <1>0, <1>4, <2>1 DEF InfoComplete, Requests
  <2>3. Only(q) /\ req'[q] = r
    BY <2>2, OnlyOne DEF InfoInv
  <2>4. req[q].pc = "answered" /\ Unshare(q) /\ owner' = owner /\ n \in Nodes
    BY <1>4, <2>1, RequestParts DEF InfoComplete, InfoInv
  <2>5. sharers'[MainFile] = sharers[MainFile] \ {q}
    BY <1>0, <2>4 DEF Unshare, InfoInv, NodeTypeOK
  <2>6. InfoLocks'
    BY <1>0, <2>2, <2>3, <2>4, <2>5 DEF InfoLocks, Only, Asking
  <2>7. noted'[q] = change[MainFile] /\ c[1] = change[MainFile] % MainModulus
    BY <1>4, <2>1, <2>4, ChangeNumberOfMain DEF Noting
  <2>8. change[MainFile] \in Nat
    BY <1>0 DEF InfoInv, NodeTypeOK
  <2>9. r.answer = <<version[n], basic>>
    BY <1>0, <2>1, <2>2, <2>4 DEF Told, Correct
  <2>10. Told(q)'
    BY <1>0, <2>2, <2>3, <2>7, <2>8, <2>9 DEF Told, Correct, infoVars
  <2> QED BY <1>0, <2>3, <2>6, <2>10, QuietCurrent
<1> QED BY <1>1, <1>2, <1>3, <1>4

(* The information is set: requests that were told earlier are overtaken.  *)
LEMMA SetCurrent ==
  ASSUME InfoInv, InfoCurrent, kind = "fileinfo", NEW q \in Irps, Finish(q), Noting,
         NEW n \in Nodes, NEW info, SetFileInfo(n, info),
         version' \in [Nodes -> Nat], \A m \in Nodes \ {n} : version'[m] = version[m],
         info[1] = version'[n], info[2] = basic', sharers[MainFile] = {}
  PROVE  (\A p \in Irps : Told(p)') /\ Fresh'
<1>1. Only(q) /\ req'[q].pc = "idle"
  BY OnlyOne, IdleRequest DEF Finish, InfoInv
<1>2. Fresh' /\ change'[MainFile] = change[MainFile] + 1
  BY SetInfo DEF InfoCurrent
<1>3. ASSUME NEW p \in Irps
      PROVE  Told(p)'
  <2>1. CASE p = q
    BY <1>1, <2>1 DEF Told
  <2>2. CASE p # q
    <3>1. req'[p] = req[p]
      BY <1>1, <2>2 DEF Only
    <3>2. noted'[p] = noted[p] /\ noted[p] \in Nat /\ change[MainFile] \in Nat
      BY <3>1, NotCompleted, FileInfoAssumption DEF Noting, InfoInv, InfoCurrent, NodeTypeOK
    <3>3. req[p].pc # "answered" /\ Told(p)
      BY DEF InfoCurrent, InfoLocks, Asking
    <3> QED BY <1>2, <3>1, <3>2, <3>3, OvertakenTold
  <2> QED BY <2>1, <2>2
<1> QED BY <1>2, <1>3

LEMMA TrySetCurrent ==
  ASSUME InfoInv, InfoCurrent, FewChanges, NEW q \in Irps, InfoTrySet(q), Noting
  PROVE  InfoLocks' /\ (\A p \in Irps : Told(p)') /\ Fresh'
<1>1. PICK n, info : n = req[q].file /\ info = req[q].answer
  OBVIOUS
<1>2. /\ kind = "fileinfo" /\ req[q].pc = "retry" /\ n \in Nodes /\ Finish(q)
      /\ sharers[MainFile] = {} /\ UNCHANGED <<version, lockVars, basic>>
  BY <1>1, RequestParts DEF InfoTrySet, InfoUnowned, Unowned, InfoInv
<1>3. Only(q) /\ req'[q].pc = "idle"
  BY <1>2, OnlyOne, IdleRequest DEF Finish, InfoInv
<1>4. InfoLocks'
  BY <1>2, <1>3 DEF InfoLocks, InfoCurrent, Only, Asking, lockVars
<1>5. CASE FileInfoChangeNumber(n) = req[q].seen
  <2>1. change[MainFile] % MainModulus = noted[q] % MainModulus
    BY <1>2, <1>5, ChangeNumberOfMain DEF InfoCurrent, Told
  <2>2. /\ MainModulus \in Nat \ {0} /\ noted[q] \in Nat /\ change[MainFile] \in Nat
        /\ noted[q] <= change[MainFile] /\ change[MainFile] - noted[q] < MainModulus
    BY <1>2, FileInfoAssumption DEF InfoCurrent, Told, InfoInv, NodeTypeOK, FewChanges
  <2>3. noted[q] = change[MainFile]
    BY <2>1, <2>2, SameBits
  <2>4. info = <<version[n], basic>>
    BY <1>1, <1>2, <2>3 DEF InfoCurrent, Told, Correct
  <2>5. SetFileInfo(n, info)
    BY <1>1, <1>5 DEF InfoTrySet
  <2>6. version' \in [Nodes -> Nat]
    BY <1>2 DEF InfoInv, NodeTypeOK
  <2> QED BY <1>2, <1>4, <2>4, <2>5, <2>6, SetCurrent
<1>6. CASE FileInfoChangeNumber(n) # req[q].seen
  <2>1. UNCHANGED <<version, change, infoVars>>
    BY <1>1, <1>2, <1>6 DEF InfoTrySet, infoVars
  <2>2. Told(q)'
    BY <1>3 DEF Told
  <2> QED BY <1>2, <1>3, <1>4, <2>1, <2>2, QuietCurrent
<1> QED BY <1>5, <1>6

LEMMA ChangedCurrent ==
  ASSUME InfoInv, InfoCurrent, NEW q \in Irps, InfoChanged(q), Noting
  PROVE  InfoLocks' /\ (\A p \in Irps : Told(p)') /\ Fresh'
<1>1. PICK n : n = req[q].file
  OBVIOUS
<1>2. /\ kind = "fileinfo" /\ req[q].pc = "setting" /\ n \in Nodes /\ Finish(q) /\ Unlock(q)
      /\ sharers' = sharers
  BY <1>1, RequestParts DEF InfoChanged, InfoInv
<1>3. Only(q) /\ req'[q].pc = "idle"
  BY <1>2, OnlyOne, IdleRequest DEF Finish, InfoInv
<1>4. owner[MainFile] = q /\ q # None /\ sharers[MainFile] = {}
  BY <1>2, MetaCacheAssumption DEF InfoCurrent, InfoLocks
<1>5. InfoLocks'
  <2>1. \A p \in Irps : p # q => req'[p] = req[p] /\ req[p].pc # "setting"
    BY <1>2, <1>3, <1>4 DEF InfoCurrent, InfoLocks, Only
  <2> QED BY <1>2, <1>3, <1>4, <2>1 DEF InfoCurrent, InfoLocks, Asking
<1>6. CASE UNCHANGED <<version, change, infoVars>>
  <2>1. Told(q)'
    BY <1>3 DEF Told
  <2> QED BY <1>2, <1>3, <1>5, <1>6, <2>1, QuietCurrent
<1>7. CASE /\ \/ version' = [version EXCEPT ![n] = @ + 1] /\ UNCHANGED basic
              \/ basic' = basic + 1 /\ UNCHANGED version
           /\ SetFileInfo(n, <<version'[n], basic'>>)
  <2>1. PICK info : info = <<version'[n], basic'>>
    OBVIOUS
  <2>2. SetFileInfo(n, info) /\ info[1] = version'[n] /\ info[2] = basic'
    BY <1>7, <2>1
  <2>3. version' \in [Nodes -> Nat] /\ \A m \in Nodes \ {n} : version'[m] = version[m]
    BY <1>2, <1>7 DEF InfoInv, NodeTypeOK
  <2> QED BY <1>2, <1>4, <1>5, <2>2, <2>3, SetCurrent
<1> QED BY <1>1, <1>6, <1>7 DEF InfoChanged

LEMMA NextCurrent ==
  ASSUME InfoInv, InfoCurrent, FewChanges, InfoNext, Noting
  PROVE  InfoCurrent'
<1>1. noted' \in [Irps -> Nat]
  BY FileInfoAssumption DEF Noting, InfoCurrent, InfoInv, NodeTypeOK
<1>2. ASSUME UNCHANGED vars, UNCHANGED basic, kind = "fileinfo", Fresh'
      PROVE  InfoLocks' /\ (\A p \in Irps : Told(p)') /\ Fresh'
  <2>1. UNCHANGED <<version, change, req, owner, sharers>>
    BY <1>2 DEF vars
  <2>2. \A p \in Irps : noted'[p] = noted[p]
    BY <2>1, NotCompleted DEF Noting, InfoInv
  <2>3. \A p \in Irps : Told(p)'
    BY <1>2, <2>1, <2>2, StillTold DEF InfoCurrent
  <2>4. InfoLocks'
    BY <1>2, <2>1 DEF InfoLocks, InfoCurrent
  <2> QED BY <1>2, <2>3, <2>4
<1>3. CASE kind # "fileinfo"
  <2>1. kind' = kind
    BY <1>3
    DEF InfoNext, InfoQuery, InfoSetting, InfoAsk, InfoAnswer, InfoComplete, InfoTrySet,
        InfoChange, InfoChanged, InvalidateFileInfo, InfoExpire, itemVars, vars,
        Next, Expire, Sweep, Lookup, Ask, AskFails, Change, IrpStep, Read, Answer, Fail,
        Complete, TrySet, Changed, Drop, Add, Store, Reuse, ChildChanges, InvalidateBegin,
        InvalidateEnd, Forget
  <2> QED BY <1>1, <1>3, <2>1 DEF InfoCurrent
<1>4. CASE kind = "fileinfo"
  <2>1. Fresh /\ InfoLocks /\ \A p \in Irps : Told(p)
    BY <1>4 DEF InfoCurrent
  <2>2. CASE Next /\ UNCHANGED infoVars
    <3>1. CASE \E q \in Irps : Fail(q)
      BY <1>1, <1>4, <2>2, <3>1, FailCurrent DEF InfoCurrent
    <3>2. CASE UNCHANGED <<req, lockVars>>
      <4>1. UNCHANGED <<version, change>> /\ UNCHANGED <<basic, size, times, fileValid, basicValid>>
        BY <1>4, <2>2, NextForInfo DEF infoVars
      <4>2. \A p \in Irps : noted'[p] = noted[p]
        BY <3>2, NotCompleted DEF Noting, InfoInv
      <4>3. \A p \in Irps : Told(p)'
        BY <2>1, <3>2, <4>1, <4>2, StillTold
      <4>4. InfoLocks' /\ Fresh'
        BY <2>1, <3>2, <4>1 DEF InfoLocks, Fresh, lockVars
      <4> QED BY <1>1, <4>3, <4>4 DEF InfoCurrent
    <3> QED BY <1>4, <2>2, <3>1, <3>2, NextForInfo
  <2>3. CASE \E q \in Irps : InfoQuery(q) \/ InfoSetting(q)
    BY <1>1, <2>3, InfoQuietSteps, TrySetCurrent, ChangedCurrent
    DEF InfoQuery, InfoSetting, InfoCurrent
  <2>4. CASE (\E n \in Nodes : InvalidateFileInfo(n)) \/ InfoExpire
    <3>1. UNCHANGED vars /\ UNCHANGED <<basic, size, times>>
      BY <2>4 DEF InvalidateFileInfo, InfoExpire
    <3>2. UNCHANGED version
      BY <3>1 DEF vars
    <3>3. /\ \A m \in Nodes : fileValid'[m] => fileValid[m]
          /\ basicValid' => basicValid
      BY <2>4 DEF InvalidateFileInfo, InfoExpire, InfoInv, InfoTypeOK
    <3>4. Fresh'
      BY <2>1, <3>1, <3>2, <3>3, FileInfoAssumption DEF Fresh
    <3> QED BY <1>1, <1>2, <1>4, <3>1, <3>4 DEF InfoCurrent
  <2> QED BY <2>2, <2>3, <2>4 DEF InfoNext, Irps
<1> QED BY <1>3, <1>4

LEMMA InitCurrent ==
  ASSUME InfoInit, noted = [q \in Irps |-> 0]
  PROVE  InfoCurrent
<1>1. \A q \in Irps : req[q].pc = "idle"
  BY IdleRequest DEF InfoInit, Init
<1>2. sharers[MainFile] = {}
  BY FileInfoAssumption DEF InfoInit, Init
<1> QED BY <1>1, <1>2 DEF InfoCurrent, InfoInit, InfoLocks, Asking, Told, Fresh

(* What applications are told of a file without asking user mode is what   *)
(* user mode has: an answer that was overtaken is dropped, however often a *)
(* stream's 12 bits of the change number wrap around meanwhile, as long as *)
(* the 20 bits of the main file do not (FspFileNodeFileInfoChangeNumber).  *)
THEOREM FileInfoIsCurrent == InfoSpec /\ InfoHistory /\ []FewChanges => []InfoCoherent
<1>1. InfoInit /\ noted = [q \in Irps |-> 0] => InfoCurrent
  BY InitCurrent
<1>2. ASSUME IInv, InfoCurrent, FewChanges, [InfoNext]_fileVars, [Noting]_<<fileVars, noted>>
      PROVE  InfoCurrent'
  <2>1. CASE InfoNext /\ Noting
    BY <1>2, <2>1, NextCurrent DEF IInv
  <2>2. CASE UNCHANGED <<fileVars, noted>>
    <3>1. UNCHANGED <<noted, kind, version, change, req, owner, sharers, basic, size, times,
                      fileValid, basicValid>>
      BY <2>2 DEF fileVars, vars, infoVars
    <3> QED BY <1>2, <3>1 DEF InfoCurrent, InfoLocks, Told, Correct, Fresh
  <2>3. CASE UNCHANGED fileVars /\ Noting
    <3>1. UNCHANGED <<kind, version, change, req, owner, sharers, basic, size, times,
                      fileValid, basicValid>>
      BY <2>3 DEF fileVars, vars, infoVars
    <3>2. noted' = noted
      BY <1>2, <2>3, <3>1, NotCompleted DEF Noting, IInv, InfoInv, InfoCurrent
    <3> QED BY <1>2, <3>1, <3>2 DEF InfoCurrent, InfoLocks, Told, Correct, Fresh
  <2>4. CASE InfoNext /\ UNCHANGED <<fileVars, noted>>
    BY <2>2, <2>4
  <2> QED BY <1>2, <2>1, <2>2, <2>3
<1>3. InfoCurrent => InfoCoherent
  BY FileInfoAssumption DEF InfoCurrent, InfoCoherent, InfoCached, Fresh
<1> QED BY <1>1, <1>2, <1>3, CachesInv, PTL DEF InfoSpec, InfoHistory
=============================================================================
