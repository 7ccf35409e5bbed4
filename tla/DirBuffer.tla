----------------------------- MODULE DirBuffer -----------------------------
(***************************************************************************)
(* The directory buffer of src/dll/dirbuf.c, in which a file system puts   *)
(* the entries of a directory in the order it finds them and from which    *)
(* they are read in order, some at a time, each read continuing after the  *)
(* last name of the one before; and its use by the FUSE layer.  The module *)
(* has no variables: a buffer is a value, its operations are operators.    *)
(*                                                                         *)
(* Memory is counted in words of 4 bytes, an index entry.  The entries     *)
(* grow from the start of the buffer to lo, the index from its end down;   *)
(* it holds the place of each entry, which stands for its name here, a     *)
(* sequence of code points.                                                *)
(***************************************************************************)
EXTENDS Integers, Sequences, FiniteSets, SequencesExt

CONSTANTS
  Names,           \* the names of the directories that are tried
  MaxEntries,      \* entries of a directory
  SortLength,      \* entries of the indices that are sorted
  InitialCapacity, HiBound, LoFactor, HiFactor  \* the sizes of buffers, in words

ASSUME SizesAssumption ==
  /\ InitialCapacity \in Nat \ {0} /\ HiBound \in Nat
  /\ LoFactor \in Nat \ {0, 1} /\ HiFactor \in Nat \ {0, 1}

Dot    == <<46>>
DotDot == <<46, 46>>

\* A directory entry has a fixed part and its name, and is aligned to two words.
Width(name) == 2 + 2 * ((Len(name) + 1) \div 2)

(***************************************************************************)
(* The order of names: the dot entries are first.                          *)
(***************************************************************************)
SortKey(name) == IF name = Dot THEN <<1>> ELSE IF name = DotDot THEN <<1, 1>> ELSE name

Differences(x, y) == {i \in DOMAIN x \intersect DOMAIN y : x[i] # y[i]}
Compare(x, y) ==
  IF Differences(x, y) = {} THEN Len(x) - Len(y)
  ELSE x[Min(Differences(x, y))] - y[Min(Differences(x, y))]
FileNameCmp(a, b) == Compare(SortKey(a), SortKey(b))

(***************************************************************************)
(* The sort of an index by the names: quicksort with a median of three,    *)
(* the larger part on a stack.                                             *)
(***************************************************************************)
Less(x, y) == FileNameCmp(x, y) < 0
Exch(ix, a, b) == [ix EXCEPT ![a] = ix[b], ![b] = ix[a]]
CompExch(ix, a, b) == IF Less(ix[b], ix[a]) THEN Exch(ix, a, b) ELSE ix

\* Up from i to the next that is not less than the pivot, ix[r], which stops it.
ScanUp(ix, i, r) ==
  CHOOSE k \in i + 1 .. r : /\ ~Less(ix[k], ix[r])
                            /\ \A n \in i + 1 .. k - 1 : Less(ix[n], ix[r])
\* Down from j to the next that the pivot is not less than, or to l.
ScanDown(ix, j, l, r) ==
  CHOOSE k \in l .. j - 1 : /\ k = l \/ ~Less(ix[r], ix[k])
                            /\ \A n \in k + 1 .. j - 1 : Less(ix[r], ix[n])

\* From the places i and j where the scans have stopped.
RECURSIVE PartitionFrom(_, _, _, _, _)
PartitionFrom(ix, i, j, l, r) ==
  IF i >= j THEN [ix |-> Exch(ix, i, r), at |-> i]
  ELSE LET next == Exch(ix, i, j)
       IN  PartitionFrom(next, ScanUp(next, i, r), ScanDown(next, j, l, r), l, r)
Partition(ix, l, r) == PartitionFrom(ix, ScanUp(ix, l - 1, r), ScanDown(ix, r, l, r), l, r)

MedianOfThree(ix, l, r) ==
  CompExch(CompExch(CompExch(Exch(ix, (l + r) \div 2, r - 1), l, r - 1), l, r), r - 1, r)

\* The part of s from l to r has been partitioned at p; depth is that of the
\* stack, at its deepest, in bounds pushed.
Split(s, p) ==
  LET left  == p.at - s.l > s.r - p.at
      stack == Append(s.stack, IF left THEN <<s.l, p.at - 1>> ELSE <<p.at + 1, s.r>>)
  IN  [ix |-> p.ix, stack |-> stack,
       l |-> IF left THEN p.at + 1 ELSE s.l, r |-> IF left THEN s.r ELSE p.at - 1,
       depth |-> IF 2 * Len(stack) > s.depth THEN 2 * Len(stack) ELSE s.depth]

SortStep(s) ==
  IF s.r <= s.l
  THEN [s EXCEPT !.l = Last(s.stack)[1], !.r = Last(s.stack)[2], !.stack = Front(@)]
  ELSE LET m == MedianOfThree(s.ix, s.l, s.r)
       IN  IF s.r - 1 <= s.l + 1 THEN [s EXCEPT !.ix = m, !.r = s.l]
           ELSE Split(s, Partition(m, s.l + 1, s.r - 1))

RECURSIVE QSortFrom(_)
QSortFrom(s) == IF s.r <= s.l /\ s.stack = <<>> THEN s ELSE QSortFrom(SortStep(s))
QSort(ix) == QSortFrom([ix |-> ix, l |-> 1, r |-> Len(ix), stack |-> <<>>, depth |-> 0])

(***************************************************************************)
(* The buffer.                                                             *)
(***************************************************************************)
NoBuffer == [capacity |-> 0, lo |-> 0, index |-> <<>>]
Hi(b) == b.capacity - Len(b.index)

\* In the index: an entry that is left out, and one that the index overwrote.
Invalid == <<>>
Clobbered == <<0>>

(* FspFileSystemAddDirInfo: the entry is put at lo if it fits.             *)
Fits(length, lo, name) == lo + Width(name) <= length

(* Mutant: there need not be room for the entry of the index.              *)
RoomFor_Entries(b) == Hi(b)
RoomFor(b) == IF Hi(b) > 1 THEN Hi(b) - 1 ELSE Hi(b)

\* The index keeps its place at the end.
Grown(b) ==
  [b EXCEPT !.capacity = IF @ = 0 THEN InitialCapacity
                         ELSE @ * IF HiBound > @ THEN LoFactor ELSE HiFactor]

\* What is at lo when the index has its entry, one word below.
Stored(b, name) == IF b.lo + Width(name) < Hi(b) THEN name ELSE Clobbered

RECURSIVE FillDirectoryBuffer(_, _)
FillDirectoryBuffer(b, name) ==
  IF Fits(RoomFor(b), b.lo, name)
  THEN [b EXCEPT !.lo = @ + Width(name), !.index = <<Stored(b, name)>> \o @]
  ELSE FillDirectoryBuffer(Grown(b), name)

(* FspFileSystemAcquireDirectoryBuffer: a listing from the start empties   *)
(* the buffer and keeps its memory.                                        *)
Reset(b) == [b EXCEPT !.lo = 0, !.index = <<>>]

(* The FUSE layer asks for the attributes that were not given with the     *)
(* entries, and leaves out an entry whose attributes it cannot get.        *)
FixDirInfo(b, given, failing) ==
  [b EXCEPT !.index = [i \in DOMAIN @ |-> IF @[i] \in failing \ given THEN Invalid ELSE @[i]]]

(* FspFileSystemReleaseDirectoryBuffer: invalid entries leave the index,   *)
(* which is then sorted.                                                   *)
ReleaseDirectoryBuffer(b) ==
  [b EXCEPT !.index = QSort(SelectSeq(@, LAMBDA name : name # Invalid)).ix]

(* The binary search: where the marker is, or the last that is before it.  *)
RECURSIVE SearchFrom(_, _, _, _)
SearchFrom(index, marker, lo, hi) ==
  LET mi  == (lo + hi) \div 2
      cmp == FileNameCmp(index[mi], marker)
  IN  CASE lo > hi  -> hi
        [] lo <= hi /\ cmp < 0 -> SearchFrom(index, marker, mi + 1, hi)
        [] lo <= hi /\ cmp > 0 -> SearchFrom(index, marker, lo, mi - 1)
        [] OTHER    -> mi
Search(b, marker) == SearchFrom(b.index, marker, 1, Len(b.index))

\* The first entry of a read after a marker, <<>> for a read from the start.
FirstAfter(b, marker) == IF marker = <<>> THEN 1 ELSE Search(b, marker) + 1

\* The entries from the n-th that fit, and the end if that fits too.
RECURSIVE ReadFrom(_, _, _, _)
ReadFrom(b, n, length, lo) ==
  IF n > Len(b.index) THEN [names |-> <<>>, end |-> lo < length]
  ELSE IF ~Fits(length, lo, b.index[n]) THEN [names |-> <<>>, end |-> FALSE]
  ELSE LET rest == ReadFrom(b, n + 1, length, lo + Width(b.index[n]))
       IN  [rest EXCEPT !.names = <<b.index[n]>> \o @]
ReadDirectoryBuffer(b, marker, length) == ReadFrom(b, FirstAfter(b, marker), length, 0)

(* The entries the FUSE layer puts into the buffer: none of the dot        *)
(* entries for the root of the volume.                                     *)
Added(b, name, isRoot) ==
  IF isRoot /\ name \in {Dot, DotDot} THEN b ELSE FillDirectoryBuffer(b, name)
Filled(b, names, isRoot) == FoldLeft(LAMBDA x, n : Added(x, n, isRoot), b, names)

-----------------------------------------------------------------------------
(* What the driver makes of it: it reads again after the last name until   *)
(* the end is told.  More reads than there are entries are not made.       *)
RECURSIVE Listing(_, _, _, _)
Listing(b, marker, length, reads) ==
  LET got == ReadDirectoryBuffer(b, marker, length)
  IN  IF got.end \/ got.names = <<>> \/ reads = 0 THEN got.names
      ELSE got.names \o Listing(b, Last(got.names), length, reads - 1)

(* The reference: the names in their order, the dot entries first.         *)
Precedes(a, b) ==
  CASE a = b      -> FALSE
    [] a = Dot    -> TRUE
    [] b = Dot /\ a # b -> FALSE
    [] a = DotDot /\ b # Dot -> TRUE
    [] b = DotDot /\ a \notin {b, Dot} -> FALSE
    [] OTHER      ->
         \/ IsStrictPrefix(a, b)
         \/ \E i \in DOMAIN a \intersect DOMAIN b :
              a[i] < b[i] /\ \A j \in 1 .. i - 1 : a[j] = b[j]
InOrder(set) == SetToSortSeq(set, Precedes)

LongestWidth == Width(CHOOSE n \in Names : \A m \in Names : Len(m) <= Len(n))
Directories == {s \in UNION {[1..n -> Names] : n \in 0 .. MaxEntries} : IsInjective(s)}

Listed(b, valid, reads) ==
  /\ \A length \in {LongestWidth, 2 * LongestWidth + 1} :
       Listing(b, <<>>, length, reads) = InOrder(valid)
  /\ \A marker \in Names :
       ReadDirectoryBuffer(b, marker, 1000).names = InOrder({n \in valid : Precedes(marker, n)})

(* A directory that was filled in any order, whatever was in the buffer    *)
(* before and whichever of its entries failed, is listed completely: each  *)
(* valid entry once and in order, however few entries a read returns, and  *)
(* a read after any name, there or not, continues with the next one.       *)
ListingExact(names, failing, given) ==
  \A isRoot, again \in BOOLEAN :
    LET before == IF again THEN Filled(NoBuffer, Reverse(names), FALSE) ELSE NoBuffer
        filled == FixDirInfo(Filled(Reset(before), names, isRoot), given, failing)
        left   == (failing \ given) \union (IF isRoot THEN {Dot, DotDot} ELSE {})
    IN  Listed(ReleaseDirectoryBuffer(filled), Range(names) \ left, Len(names) + 1)

(* The sort orders every index, also with equal values, and its stack does *)
(* not need more than two places for each halving.                         *)
Halvings(n) == CHOOSE d \in 0 .. n : 2 ^ d <= n /\ n < 2 ^ (d + 1)
Sorted(q, ix) ==
  /\ \A i \in 1 .. Len(ix) - 1 : ~Less(q.ix[i + 1], q.ix[i])
  /\ \A v \in Range(ix) : Cardinality({i \in DOMAIN ix : ix[i] = v})
                            = Cardinality({i \in DOMAIN ix : q.ix[i] = v})
  /\ ix # <<>> => q.depth <= 2 * Halvings(Len(ix))
SortExact(ix) == Sorted(QSort(ix), ix)

(* A listing of a directory returns what is in it, and its sort is exact:  *)
(* the room for the index, the partition and its sentinels, the stack of   *)
(* 64 places, the search between two entries and the removal of entries    *)
(* all meet at bounds (dirbuf.c, fsp_fuse_intf_FixDirInfo).                *)
ListingsExact ==
  /\ \A names \in Directories :
       \A failing, given \in SUBSET Range(names) :
         Cardinality(failing) <= 2 => ListingExact(names, failing, given \intersect failing)
  /\ \A n \in 0 .. SortLength : \A ix \in [1 .. n -> {<<v>> : v \in 1 .. 4}] : SortExact(ix)
=============================================================================
