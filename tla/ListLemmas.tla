----------------------------- MODULE ListLemmas -----------------------------
(***************************************************************************)
(* What the list operations of the driver do to a list without duplicates: *)
(* the LIST_ENTRYs of the I/O queue and the BufferList of a process.       *)
(***************************************************************************)
EXTENDS Integers, Sequences, SequencesExt, SequenceTheorems, TLAPS

(* Taking an entry out of a list (RemoveEntryList) removes exactly that    *)
(* entry.                                                                  *)
LEMMA RemoveAtProperties ==
  ASSUME NEW S, NEW s \in Seq(S), NEW k \in 1 .. Len(s), IsInjective(s)
  PROVE  /\ RemoveAt(s, k) \in Seq(S)
         /\ Range(RemoveAt(s, k)) = Range(s) \ {s[k]}
         /\ IsInjective(RemoveAt(s, k))
<1> DEFINE front == SubSeq(s, 1, k - 1)
           back == SubSeq(s, k + 1, Len(s))
           r == RemoveAt(s, k)
<1>1. Len(s) \in Nat /\ DOMAIN s = 1 .. Len(s) /\ \A j \in 1 .. Len(s) : s[j] \in S
  BY LenProperties, ElementOfSeq
<1>2. /\ front \in Seq(S) /\ Len(front) = k - 1
      /\ \A j \in 1 .. (k - 1) : front[j] = s[j]
  <2>1. \A j \in 1 .. (k - 1) : s[j] \in S
    BY <1>1
  <2> QED BY <1>1, <2>1, SubSeqProperties
<1>3. /\ back \in Seq(S) /\ Len(back) = Len(s) - k
      /\ \A j \in 1 .. (Len(s) - k) : back[j] = s[k + j]
  <2>1. \A j \in (k + 1) .. Len(s) : s[j] \in S
    BY <1>1
  <2>2. k + 1 \in Int /\ Len(s) \in Int
    BY <1>1
  <2> DEFINE m == k + 1
             n == Len(s)
  <2>3. m \in Int /\ n \in Int /\ \A j \in m .. n : s[j] \in S
    BY <2>1, <2>2
  <2>4. /\ n - m + 1 = Len(s) - k
        /\ m <= n \/ Len(s) - k = 0
    <3> DEFINE L == Len(s)
    <3>1. L \in Nat /\ k \in 1 .. L
      BY <1>1
    <3> HIDE DEF L
    <3>2. L - (k + 1) + 1 = L - k /\ (k + 1 <= L \/ L - k = 0)
      BY <3>1
    <3> QED BY <3>2 DEF L
  <2>5. \A j \in 1 .. (Len(s) - k) : m + j - 1 = k + j
    BY <1>1
  <2>6. back = SubSeq(s, m, n)
    OBVIOUS
  <2> HIDE DEF back, m, n
  <2>7. /\ SubSeq(s, m, n) \in Seq(S)
        /\ Len(SubSeq(s, m, n)) = IF m <= n THEN n - m + 1 ELSE 0
        /\ \A j \in 1 .. n - m + 1 : SubSeq(s, m, n)[j] = s[m + j - 1]
    BY <2>3, SubSeqProperties
  <2>8. \A j \in 1 .. (Len(s) - k) : back[j] = s[m + j - 1]
    BY <2>4, <2>6, <2>7
  <2> QED BY <2>4, <2>5, <2>6, <2>7, <2>8
<1>4. /\ r \in Seq(S) /\ Len(r) = Len(s) - 1
      /\ \A j \in 1 .. (Len(s) - 1) : r[j] = IF j < k THEN s[j] ELSE s[j + 1]
  <2>1. r = front \o back
    BY DEF RemoveAt
  <2> HIDE DEF front, back, r
  <2>2. /\ front \o back \in Seq(S)
        /\ Len(front \o back) = Len(front) + Len(back)
        /\ \A j \in 1 .. Len(front) + Len(back) : (front \o back)[j] =
             IF j <= Len(front) THEN front[j] ELSE back[j - Len(front)]
    BY <1>2, <1>3, ConcatProperties
  <2>3. ASSUME NEW j \in 1 .. (Len(s) - 1)
        PROVE  r[j] = IF j < k THEN s[j] ELSE s[j + 1]
    <3>1. CASE j < k
      BY <1>1, <1>2, <1>3, <2>1, <2>2, <3>1
    <3>2. CASE ~(j < k)
      <4>1. j - (k - 1) \in 1 .. (Len(s) - k) /\ k + (j - (k - 1)) = j + 1
        BY <1>1, <3>2
      <4>2. r[j] = back[j - (k - 1)]
        BY <1>1, <1>2, <1>3, <2>1, <2>2, <3>2
      <4> QED BY <1>3, <3>2, <4>1, <4>2
    <3> QED BY <3>1, <3>2
  <2> QED BY <1>1, <1>2, <1>3, <2>1, <2>2, <2>3
<1>5. DOMAIN r = 1 .. (Len(s) - 1)
  BY <1>4, LenProperties
<1> HIDE DEF r
<1>6. Range(r) = Range(s) \ {s[k]}
  <2>1. ASSUME NEW j \in DOMAIN r PROVE r[j] \in Range(s) \ {s[k]}
    BY <1>1, <1>4, <1>5 DEF Range, IsInjective
  <2>2. ASSUME NEW j \in DOMAIN s, j # k PROVE s[j] \in Range(r)
    <3>1. CASE j < k
      <4>1. j \in DOMAIN r /\ r[j] = s[j]
        BY <1>1, <1>4, <1>5, <3>1
      <4> QED BY <4>1 DEF Range
    <3>2. CASE j > k
      <4>1. j - 1 \in DOMAIN r /\ r[j - 1] = s[j]
        BY <1>1, <1>4, <1>5, <3>2
      <4> QED BY <4>1 DEF Range
    <3> QED BY <1>1, <2>2, <3>1, <3>2
  <2> QED BY <2>1, <2>2 DEF Range
<1>7. IsInjective(r)
  <2> SUFFICES ASSUME NEW a \in DOMAIN r, NEW b \in DOMAIN r, r[a] = r[b]
               PROVE  a = b
    BY DEF IsInjective
  <2> DEFINE from(j) == IF j < k THEN j ELSE j + 1
  <2>1. \A j \in DOMAIN r : from(j) \in DOMAIN s /\ r[j] = s[from(j)]
    BY <1>1, <1>4, <1>5
  <2>2. from(a) = from(b)
    <3> HIDE DEF from
    <3> QED BY <2>1 DEF IsInjective
  <2> QED BY <1>1, <1>5, <2>2
<1> QED BY <1>4, <1>6, <1>7 DEF r

(* Inserting a new entry at the tail of a list (InsertTailList). *)
LEMMA InsertTailProperties ==
  ASSUME NEW S, NEW s \in Seq(S), NEW x \in S
  PROVE  /\ Append(s, x) \in Seq(S)
         /\ Range(Append(s, x)) = Range(s) \union {x}
         /\ IsInjective(s) /\ x \notin Range(s) => IsInjective(Append(s, x))
<1> DEFINE r == Append(s, x)
           L == Len(s)
<1>1. /\ L \in Nat /\ DOMAIN s = 1 .. L
      /\ r \in Seq(S) /\ DOMAIN r = 1 .. (L + 1)
      /\ \A j \in 1 .. L : r[j] = s[j]
      /\ r[L + 1] = x
  BY AppendProperties, LenProperties
<1> HIDE DEF r, L
<1>2. Range(r) = Range(s) \union {x}
  <2>1. ASSUME NEW j \in DOMAIN r PROVE r[j] \in Range(s) \union {x}
    <3>1. j \in DOMAIN s \/ j = L + 1
      BY <1>1
    <3> QED BY <1>1, <3>1 DEF Range
  <2>2. ASSUME NEW j \in DOMAIN s PROVE s[j] \in Range(r)
    <3>1. j \in DOMAIN r /\ r[j] = s[j]
      BY <1>1
    <3> QED BY <3>1 DEF Range
  <2>3. x \in Range(r)
    <3>1. L + 1 \in DOMAIN r
      BY <1>1
    <3> QED BY <1>1, <3>1 DEF Range
  <2> QED BY <2>1, <2>2, <2>3 DEF Range
<1>3. ASSUME IsInjective(s), x \notin Range(s), NEW a \in DOMAIN r,
             NEW b \in DOMAIN r, r[a] = r[b]
      PROVE  a = b
  <2>1. \A j \in 1 .. L : s[j] # x
    BY <1>1, <1>3 DEF Range
  <2> QED BY <1>1, <1>3, <2>1 DEF IsInjective
<1> QED BY <1>1, <1>2, <1>3 DEF IsInjective, r

(* Taking the entry at the head of a list. *)
LEMMA RemoveHeadProperties ==
  ASSUME NEW S, NEW s \in Seq(S), s # <<>>, IsInjective(s)
  PROVE  /\ Head(s) \in Range(s)
         /\ Tail(s) \in Seq(S) /\ Len(s) = Len(Tail(s)) + 1
         /\ Range(Tail(s)) = Range(s) \ {Head(s)}
         /\ IsInjective(Tail(s))
<1> DEFINE r == Tail(s)
           L == Len(s)
<1>1. /\ L \in Nat /\ 1 <= L /\ DOMAIN s = 1 .. L /\ Head(s) = s[1]
      /\ r \in Seq(S) /\ DOMAIN r = 1 .. (L - 1)
      /\ \A j \in 1 .. (L - 1) : r[j] = s[j + 1]
  BY HeadTailProperties, LenProperties, EmptySeq
<1> HIDE DEF r, L
<1>2. Range(r) = Range(s) \ {Head(s)}
  <2>1. ASSUME NEW j \in DOMAIN r PROVE r[j] \in Range(s) \ {s[1]}
    <3>1. j + 1 \in DOMAIN s /\ j + 1 # 1 /\ r[j] = s[j + 1] /\ 1 \in DOMAIN s
      BY <1>1
    <3> QED BY <3>1 DEF Range, IsInjective
  <2>2. ASSUME NEW j \in DOMAIN s, j # 1 PROVE s[j] \in Range(r)
    <3>1. j - 1 \in DOMAIN r /\ r[j - 1] = s[j]
      BY <1>1, <2>2
    <3> QED BY <3>1 DEF Range
  <2> QED BY <1>1, <2>1, <2>2 DEF Range
<1>3. ASSUME NEW a \in DOMAIN r, NEW b \in DOMAIN r, r[a] = r[b]
      PROVE  a = b
  BY <1>1, <1>3 DEF IsInjective
<1>4. Head(s) \in Range(s)
  BY <1>1 DEF Range
<1>5. Len(s) = Len(Tail(s)) + 1
  BY HeadTailProperties, LenProperties, EmptySeq
<1> QED BY <1>1, <1>2, <1>3, <1>4, <1>5 DEF IsInjective, r

(* Putting a new entry at the head of a list. *)
LEMMA InsertHeadProperties ==
  ASSUME NEW S, NEW s \in Seq(S), NEW x \in S
  PROVE  /\ <<x>> \o s \in Seq(S)
         /\ Len(<<x>> \o s) = Len(s) + 1
         /\ Range(<<x>> \o s) = Range(s) \union {x}
         /\ IsInjective(s) /\ x \notin Range(s) => IsInjective(<<x>> \o s)
<1> DEFINE r == <<x>> \o s
           L == Len(s)
<1>1. /\ <<x>> \in Seq(S) /\ Len(<<x>>) = 1 /\ <<x>>[1] = x
  OBVIOUS
<1>2. /\ L \in Nat /\ DOMAIN s = 1 .. L
      /\ r \in Seq(S) /\ Len(r) = L + 1
      /\ \A j \in 1 .. (L + 1) : r[j] = IF j <= 1 THEN <<x>>[j] ELSE s[j - 1]
  BY <1>1, ConcatProperties, LenProperties
<1>3. DOMAIN r = 1 .. (L + 1)
  BY <1>2, LenProperties
<1> HIDE DEF r, L
<1>4. r[1] = x /\ \A j \in 1 .. L : r[j + 1] = s[j]
  BY <1>1, <1>2
<1>5. Range(r) = Range(s) \union {x}
  <2>1. ASSUME NEW j \in DOMAIN r PROVE r[j] \in Range(s) \union {x}
    <3>1. CASE j = 1
      BY <1>4, <3>1
    <3>2. CASE j # 1
      <4>1. j - 1 \in DOMAIN s /\ r[j] = s[j - 1]
        BY <1>2, <1>3, <3>2
      <4> QED BY <4>1 DEF Range
    <3> QED BY <3>1, <3>2
  <2>2. ASSUME NEW j \in DOMAIN s PROVE s[j] \in Range(r)
    <3>1. j + 1 \in DOMAIN r /\ r[j + 1] = s[j]
      BY <1>2, <1>3, <1>4
    <3> QED BY <3>1 DEF Range
  <2>3. x \in Range(r)
    <3>1. 1 \in DOMAIN r
      BY <1>2, <1>3
    <3> QED BY <1>4, <3>1 DEF Range
  <2> QED BY <2>1, <2>2, <2>3 DEF Range
<1>6. ASSUME IsInjective(s), x \notin Range(s), NEW a \in DOMAIN r,
             NEW b \in DOMAIN r, r[a] = r[b]
      PROVE  a = b
  <2>1. \A j \in 1 .. L : s[j] # x
    BY <1>2, <1>6 DEF Range
  <2>2. \A j \in DOMAIN r : j = 1 \/ (j - 1 \in 1 .. L /\ r[j] = s[j - 1])
    BY <1>2, <1>3
  <2>3. CASE a = 1 \/ b = 1
    BY <1>4, <1>6, <2>1, <2>2, <2>3
  <2>4. CASE a # 1 /\ b # 1
    <3>1. a - 1 \in DOMAIN s /\ b - 1 \in DOMAIN s /\ s[a - 1] = s[b - 1]
      BY <1>2, <1>6, <2>2, <2>4
    <3>2. a - 1 = b - 1
      BY <1>6, <3>1 DEF IsInjective
    <3>3. a \in Int /\ b \in Int
      BY <1>3
    <3> QED BY <3>2, <3>3
  <2> QED BY <2>3, <2>4
<1> QED BY <1>2, <1>5, <1>6 DEF IsInjective, r

=============================================================================
