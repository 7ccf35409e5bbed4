------------------------------ MODULE MetaCache ------------------------------
(***************************************************************************)
(* A meta cache of a volume (src/src/sys/meta.c) and its users: the file   *)
(* nodes that keep the index of their item (src/src/sys/file.c), the       *)
(* queries that fill the cache, the requests that change the metadata, the *)
(* invalidations that come without a lock, and the expiration routine of   *)
(* the device (src/src/sys/device.c).                                      *)
(*                                                                         *)
(* A volume has four such caches: SecurityCache, DirInfoCache,             *)
(* StreamInfoCache and EaCache.  They differ in who changes and who        *)
(* invalidates what they hold; a behaviour is about one of them.  The      *)
(* content of an item is the version of the metadata that user mode        *)
(* returned.  Every action is one critical section of a spin lock, or a    *)
(* step under the lock of the file node.                                   *)
(***************************************************************************)
EXTENDS Naturals, Sequences, SequencesExt, FiniteSets

CONSTANTS
  Kinds,         \* the caches to look at
  Nodes,         \* file nodes
  Queries,       \* requests that query metadata
  Setters,       \* requests that set metadata
  Invalidators,  \* threads that invalidate after a change
  MetaCapacity,  \* MetaCache->MetaCapacity
  MaxIndex,      \* bound: items ever added
  MaxVersion,    \* bound: changes of the metadata of a file
  MaxChange,     \* bound: change number up to which user mode is asked
  None           \* no lock owner, no file node

ItemKinds == {"security", "dirinfo", "streaminfo", "ea"}

Irps == Queries \union Setters

ASSUME MetaCacheAssumption ==
  /\ MetaCapacity \in Nat \ {0}
  /\ MaxIndex \in Nat
  /\ MaxVersion \in Nat
  /\ MaxChange \in Nat
  /\ Queries \intersect Setters = {}
  /\ None \notin Irps \union Invalidators \union Nodes

VARIABLES
  kind,     \* the cache
  list,     \* MetaCache->ItemList, oldest first: index, file, content, and
            \* whether the expiration time has passed
  last,     \* MetaCache->ItemIndex
  refs,     \* Item->RefCount of each item ever added
  stored,   \* FileNode->NonPaged->Security, ->DirInfo, ->StreamInfo, ->Ea
  change,   \* FileNode->SecurityChangeNumber etc.
  version,  \* the metadata of the file, as user mode has it
  owner,    \* owner of the file node's resource, exclusive
  sharers,  \* owners of the file node's resource, shared
  req,      \* progress of each request, its file node, the answer it has,
            \* the change number and the item it saw
  inv       \* progress of each invalidator, its file node and its item

cacheVars == <<list, last, refs>>
nodeVars == <<stored, change>>
lockVars == <<owner, sharers>>
vars == <<kind, list, last, refs, stored, change, version, owner, sharers,
          req, inv>>

Indices == 1 .. MaxIndex
Idle == [pc |-> "idle", file |-> None, answer |-> 0, seen |-> 0, index |-> 0]
InvIdle == [pc |-> "idle", file |-> None, index |-> 0]

Init ==
  /\ kind \in Kinds
  /\ list = <<>>
  /\ last = 0
  /\ refs = [i \in Indices |-> 0]
  /\ stored = [n \in Nodes |-> 0]
  /\ change = [n \in Nodes |-> 0]
  /\ version = [n \in Nodes |-> 0]
  /\ owner = [n \in Nodes |-> None]
  /\ sharers = [n \in Nodes |-> {}]
  /\ req = [q \in Irps |-> Idle]
  /\ inv = [v \in Invalidators |-> InvIdle]

-----------------------------------------------------------------------------
(* The cache. *)

(* FspMetaCacheLookupIndexedItemAtDpcLevel: positions of an index.         *)
At(i) == {k \in 1 .. Len(list) : list[k].index = i}
Cached(i) == At(i) # {}

(* FspMetaCacheDereferenceItem, at the end of each removal.                *)
Dereference(i) == refs' = [refs EXCEPT ![i] = @ - 1]

(* FspMetaCacheInvalidateItem. *)
InvalidateItem(i) ==
  IF Cached(i)
  THEN /\ \E k \in At(i) : list' = RemoveAt(list, k)
       /\ Dereference(i)
  ELSE UNCHANGED <<list, refs>>

(* Mutant: the number of items serves as index.                            *)
NextIndexOfCount == Len(list) + 1

(* FspMetaCacheAddItem: a full cache makes room with its oldest item.      *)
Full == Len(list) >= MetaCapacity
Evicted == IF Full THEN {Head(list).index} ELSE {}
NextIndex == last + 1

AddItem(n, v) ==
  /\ NextIndex \in Indices
  /\ last' = NextIndex
  /\ list' = Append(IF Full THEN Tail(list) ELSE list,
                    [index |-> NextIndex, node |-> n, version |-> v,
                     expired |-> FALSE])
  /\ refs' = [i \in Indices |->
                IF i = NextIndex THEN 1
                ELSE IF i \in Evicted THEN refs[i] - 1 ELSE refs[i]]

(* The expiration time of an item passes.  It is computed ahead of the     *)
(* lock, so that items may expire in an order other than that of the list. *)
Expire(k) ==
  /\ ~list[k].expired
  /\ list' = [list EXCEPT ![k].expired = TRUE]
  /\ UNCHANGED <<kind, last, refs, nodeVars, version, lockVars, req, inv>>

(* The caches that FspFsvolDeviceExpirationRoutine looks at.               *)
SweptKinds == {"security", "dirinfo", "streaminfo"}

(* Mutant: the loop ends before the last item.                             *)
SweepNotLast ==
  /\ kind \in SweptKinds
  /\ Len(list) > 1
  /\ Head(list).expired
  /\ list' = Tail(list)
  /\ Dereference(Head(list).index)
  /\ UNCHANGED <<kind, last, nodeVars, version, lockVars, req, inv>>

(* FspMetaCacheInvalidateExpired, one turn of its loop.                    *)
Sweep ==
  /\ kind \in SweptKinds
  /\ list # <<>>
  /\ Head(list).expired
  /\ list' = Tail(list)
  /\ Dereference(Head(list).index)
  /\ UNCHANGED <<kind, last, nodeVars, version, lockVars, req, inv>>

-----------------------------------------------------------------------------
(* Queries: FspFsvolQuerySecurity, FspFsvolQueryDirectory etc. *)

Finish(q) == req' = [req EXCEPT ![q] = Idle]

Unowned(n) == owner[n] = None /\ sharers[n] = {}

Lock(n, q) == owner' = [owner EXCEPT ![n] = q]
Unlock(q) == owner' = [n \in DOMAIN owner |-> IF owner[n] = q THEN None ELSE owner[n]]
Share(n, q) == sharers' = [sharers EXCEPT ![n] = @ \union {q}]
Unshare(q) == sharers' = [n \in DOMAIN sharers |-> sharers[n] \ {q}]

(* Two of the queries look for their item under a shared lock and copy it  *)
(* without, the others keep the node exclusive until they have copied it.  *)
CopiesUnlocked == kind \in {"security", "streaminfo"}

Use(q, n) ==
  /\ Cached(stored[n])
  /\ IF CopiesUnlocked THEN Unlock(q) ELSE Lock(n, q)
  /\ req' = [req EXCEPT ![q] = [Idle EXCEPT !.pc = "reading", !.file = n,
                                            !.index = stored[n]]]

(* Mutant: the buffer is used without a reference to its item.             *)
ReferenceUncounted(q, n) == Use(q, n) /\ UNCHANGED refs

(* FspMetaCacheReferenceItemBuffer. *)
Reference(q, n) == Use(q, n) /\ refs' = [refs EXCEPT ![stored[n]] = @ + 1]

MayLookup(q, n) ==
  /\ kind \in ItemKinds
  /\ req[q].pc = "idle"
  /\ IF CopiesUnlocked THEN owner[n] = None ELSE Unowned(n)

(* The query looks for the item of its file node, ...                      *)
Lookup(q, n) ==
  /\ MayLookup(q, n)
  /\ Reference(q, n)
  /\ UNCHANGED <<kind, list, last, nodeVars, version, sharers, inv>>

(* ... or goes to user mode and keeps the node shared, ...                 *)
Ask(q, n) ==
  /\ MayLookup(q, n)
  /\ ~Cached(stored[n])
  /\ change[n] < MaxChange
  /\ Share(n, q)
  /\ req' = [req EXCEPT ![q].pc = "asked", ![q].file = n]
  /\ UNCHANGED <<kind, cacheVars, nodeVars, version, owner, inv>>

(* ... or fails at once, for lack of memory, and unlocks the node.         *)
AskFails(q, n) ==
  /\ MayLookup(q, n)
  /\ ~Cached(stored[n])
  /\ UNCHANGED vars

(* FspMetaCacheDereferenceItemBuffer. *)
Read(q) ==
  /\ req[q].pc = "reading"
  /\ Dereference(req[q].index)
  /\ Unlock(q)
  /\ Finish(q)
  /\ UNCHANGED <<kind, list, last, nodeVars, version, sharers, inv>>

(* User mode reads the metadata of the file.                               *)
Answer(q) ==
  /\ kind \in ItemKinds
  /\ req[q].pc = "asked"
  /\ req' = [req EXCEPT ![q].pc = "answered", ![q].answer = version[req[q].file]]
  /\ UNCHANGED <<kind, cacheVars, nodeVars, version, lockVars, inv>>

(* The request fails, expires or is cancelled: its Fini unlocks the node.  *)
Fail(q) ==
  /\ req[q].pc \in {"asked", "answered", "retry"}
  /\ Unshare(q)
  /\ Finish(q)
  /\ UNCHANGED <<kind, cacheVars, nodeVars, version, owner, inv>>

(* The completion notes the change number and unlocks the node...          *)
Complete(q) ==
  /\ kind \in ItemKinds
  /\ req[q].pc = "answered"
  /\ Unshare(q)
  /\ req' = [req EXCEPT ![q].pc = "retry", ![q].seen = change[req[q].file]]
  /\ UNCHANGED <<kind, cacheVars, nodeVars, version, owner, inv>>

(* ... and locks it again, at once or when it is retried: the answer is    *)
(* cached unless metadata were set in between, FspFileNodeTrySetEa etc.    *)
(* In this case the query prefers what is cached by now, except that a     *)
(* listing of a directory is returned as it was answered; so is one that   *)
(* is not cached because it has a pattern or continues an earlier one.     *)
TrySet(q) ==
  LET n == req[q].file
      overtaken == change[n] # req[q].seen
  IN  /\ kind \in ItemKinds
      /\ req[q].pc = "retry"
      /\ Unowned(n)
      /\ \/ /\ ~overtaken
            /\ Lock(n, q)
            /\ req' = [req EXCEPT ![q].pc = "drop"]
            /\ UNCHANGED refs
         \/ overtaken /\ kind # "dirinfo" /\ Reference(q, n)
         \/ /\ kind = "dirinfo" \/ (overtaken /\ ~Cached(stored[n]))
            /\ Finish(q)
            /\ UNCHANGED <<owner, refs>>
      /\ UNCHANGED <<kind, list, last, nodeVars, version, sharers, inv>>

-----------------------------------------------------------------------------
(* FspFileNodeSetEa etc., under the exclusive lock of the node. *)

(* A request sets the metadata: FspFsvolSetEa, an overwrite, and           *)
(* FspFsvolSetSecurity; directory and stream information have none.  User  *)
(* mode may fail it.                                                       *)
Change(q, n) ==
  /\ kind \in {"security", "ea"}
  /\ req[q].pc = "idle"
  /\ Unowned(n)
  /\ Lock(n, q)
  /\ req' = [req EXCEPT ![q].pc = "setting", ![q].file = n]
  /\ UNCHANGED <<kind, cacheVars, nodeVars, version, sharers, inv>>

Changed(q) ==
  LET n == req[q].file
  IN  /\ kind \in ItemKinds
      /\ req[q].pc = "setting"
      /\ \/ /\ version[n] < MaxVersion
            /\ version' = [version EXCEPT ![n] = @ + 1]
            /\ req' = [req EXCEPT ![q].pc = "drop", ![q].answer = version[n] + 1]
            /\ UNCHANGED owner
         \/ Unlock(q) /\ Finish(q) /\ UNCHANGED version
      /\ UNCHANGED <<kind, cacheVars, nodeVars, sharers, inv>>

Drop(q) ==
  /\ req[q].pc = "drop"
  /\ InvalidateItem(stored[req[q].file])
  /\ req' = [req EXCEPT ![q].pc = "add"]
  /\ UNCHANGED <<kind, last, nodeVars, version, lockVars, inv>>

(* The answer may be too large, or a SetEa have none.                      *)
AddAnswer(q) ==
  \/ /\ AddItem(req[q].file, req[q].answer)
     /\ req' = [req EXCEPT ![q].pc = "store", ![q].index = NextIndex]
  \/ /\ req' = [req EXCEPT ![q].pc = "store"]
     /\ UNCHANGED cacheVars

(* Mutant: the change number is not counted.                               *)
AddUncounted(q) ==
  /\ req[q].pc = "add"
  /\ AddAnswer(q)
  /\ UNCHANGED <<kind, nodeVars, version, lockVars, inv>>

Add(q) ==
  /\ req[q].pc = "add"
  /\ AddAnswer(q)
  /\ change' = [change EXCEPT ![req[q].file] = @ + 1]
  /\ UNCHANGED <<kind, stored, version, lockVars, inv>>

(* NpInfoSpinLock. A listing that was cached is returned from the cache.   *)
Store(q) ==
  /\ req[q].pc = "store"
  /\ stored' = [stored EXCEPT ![req[q].file] = req[q].index]
  /\ IF kind = "dirinfo"
     THEN req' = [req EXCEPT ![q].pc = "stored", ![q].index = 0] /\ UNCHANGED owner
     ELSE Finish(q) /\ Unlock(q)
  /\ UNCHANGED <<kind, cacheVars, change, version, sharers, inv>>

Reuse(q) ==
  /\ req[q].pc = "stored"
  /\ \/ Reference(q, req[q].file)
     \/ /\ ~Cached(stored[req[q].file])
        /\ Unlock(q)
        /\ Finish(q)
        /\ UNCHANGED refs
  /\ UNCHANGED <<kind, list, last, nodeVars, version, sharers, inv>>

-----------------------------------------------------------------------------
(* Changes that do not go through the file node, and their invalidations. *)

(* A file of the directory, or a stream of the file, is created, deleted   *)
(* or changed: user mode has changed the directory or stream information   *)
(* by the time the request completes.                                      *)
ChildChanges(v, n) ==
  /\ kind \in {"dirinfo", "streaminfo"}
  /\ inv[v].pc = "idle"
  /\ version[n] < MaxVersion
  /\ version' = [version EXCEPT ![n] = @ + 1]
  /\ inv' = [inv EXCEPT ![v].pc = "changed", ![v].file = n]
  /\ UNCHANGED <<kind, cacheVars, nodeVars, lockVars, req>>

(* FspFileNodeInvalidateDirInfo etc. read the index under NpInfoSpinLock   *)
(* and without the lock of the node, ...                                   *)
InvalidateBegin(v) ==
  /\ inv[v].pc = "changed"
  /\ inv' = [inv EXCEPT ![v].pc = "remove", ![v].index = stored[inv[v].file]]
  /\ UNCHANGED <<kind, cacheVars, nodeVars, version, lockVars, req>>

(* ... and leave the index and the change number as they are.              *)
InvalidateEnd(v) ==
  /\ inv[v].pc = "remove"
  /\ InvalidateItem(inv[v].index)
  /\ inv' = [inv EXCEPT ![v] = InvIdle]
  /\ UNCHANGED <<kind, last, nodeVars, version, lockVars, req>>

(* FspFileNodeDelete: the last reference to the node goes; the node is new *)
(* when the file is opened again.                                          *)
Forget(n) ==
  /\ Unowned(n)
  /\ \A q \in Irps : req[q].file # n
  /\ \A v \in Invalidators : inv[v].file # n
  /\ stored[n] # 0
  /\ InvalidateItem(stored[n])
  /\ stored' = [stored EXCEPT ![n] = 0]
  /\ UNCHANGED <<kind, last, change, version, lockVars, req, inv>>

-----------------------------------------------------------------------------
IrpStep(q) ==
  \/ Read(q) \/ Answer(q) \/ Fail(q) \/ Complete(q) \/ TrySet(q)
  \/ Changed(q) \/ Drop(q) \/ Add(q) \/ Store(q) \/ Reuse(q)

Next ==
  \/ \E k \in 1 .. Len(list) : Expire(k)
  \/ Sweep
  \/ \E q \in Queries, n \in Nodes : Lookup(q, n) \/ Ask(q, n) \/ AskFails(q, n)
  \/ \E q \in Setters, n \in Nodes : Change(q, n)
  \/ \E q \in Irps : IrpStep(q)
  \/ \E v \in Invalidators :
       (\E n \in Nodes : ChildChanges(v, n)) \/ InvalidateBegin(v) \/ InvalidateEnd(v)
  \/ \E n \in Nodes : Forget(n)

Spec == Init /\ [][Next]_vars

(* The timer of the device runs the expiration routine, and time passes.   *)
FairSpec ==
  /\ Spec
  /\ WF_vars(Sweep)
  /\ WF_vars(\E k \in 1 .. Len(list) : Expire(k))

-----------------------------------------------------------------------------
(* Properties. *)

Readers(i) == {q \in Irps : req[q].pc = "reading" /\ req[q].index = i}

(* The reference count of an item is one for the cache plus one for each   *)
(* query that copies its buffer: the buffer is freed when the last of them *)
(* is done, neither earlier, while a query reads it outside of the locks,  *)
(* nor never (FspMetaCacheDereferenceItem).                                *)
RefsExact ==
  \A i \in Indices :
    refs[i] = (IF Cached(i) THEN 1 ELSE 0) + Cardinality(Readers(i))

(* What a file node finds under the index it keeps, however stale, is its  *)
(* own metadata and never that of another file: an index is not used twice *)
(* (FspMetaCacheAddItem).                                                  *)
OwnContent ==
  \A n \in Nodes : \A k \in At(stored[n]) : list[k].node = n

(* Security descriptors and extended attributes change under the lock of   *)
(* the file node only.  When nobody holds it exclusive to set them, what   *)
(* the node has cached is what user mode has: an answer that was overtaken *)
(* by a set is not cached (the change numbers).                            *)
Coherent ==
  kind \in {"security", "ea"} =>
    \A n \in Nodes :
      owner[n] = None => \A k \in At(stored[n]) : list[k].version = version[n]

(* What is cached is forgotten in the end, so that a change that came      *)
(* without a notification is seen: the expiration routine removes the      *)
(* items that have expired, in whatever order they did.  The EA cache is   *)
(* not swept.                                                              *)
ItemsLeave == \A i \in Indices : kind # "ea" /\ Cached(i) ~> ~Cached(i)

=============================================================================
