---------------------------- MODULE ProcessBuffer ----------------------------
(***************************************************************************)
(* The transfer buffers that the driver keeps in the address space of a    *)
(* file system process (src/src/sys/psbuffer.c).                           *)
(*                                                                         *)
(* A dispatcher thread acquires a buffer when it prepares a request, and   *)
(* whoever finishes the request releases it, attached to the process or    *)
(* not.  Up to a limit the buffers are kept on a list of their process and *)
(* are used again.  When the last thread of a process has ended the driver *)
(* forgets the list; requests that are still under way release later.      *)
(* ProcessBufferLock protects the table of the processes and the lists, it *)
(* is not held over the allocations in between.                            *)
(***************************************************************************)
EXTENDS Naturals, Sequences, SequencesExt, FiniteSets

CONSTANTS
  Processes,  \* file system processes
  Requests,   \* requests that need a buffer
  Entries,    \* FSP_PROCESS_BUFFER_LIST_ENTRY allocations
  CountMax,   \* FspProcessBufferCountMax
  None        \* no entry

ASSUME ProcessBufferAssumption ==
  /\ IsFiniteSet(Requests)
  /\ CountMax \in Nat \ {0}
  /\ None \notin Entries

VARIABLES
  alive,   \* processes that have not ended
  known,   \* processes with an FSP_PROCESS_BUFFER_ITEM
  list,    \* Item->BufferList, the entry used last first
  count,   \* Item->BufferCount
  exist,   \* entries that are allocated
  backed,  \* entries with a Buffer
  pc, proc, entry \* progress of each request, the process in whose context
                  \* it is, and the entry it has

itemVars == <<known, list, count>>
entryVars == <<exist, backed>>
vars == <<alive, known, list, count, exist, backed, pc, proc, entry>>

(* "insert": the entry is allocated, "back": it is off the list or counted *)
(* but may lack its Buffer, "busy": the buffer is in use, "plain": one is  *)
(* in use that has no entry and is freed afterwards.                       *)
PCs == {"idle", "alloc", "insert", "back", "busy", "plain"}

Init ==
  /\ alive = Processes
  /\ known = {}
  /\ list = [p \in Processes |-> <<>>]
  /\ count = [p \in Processes |-> 0]
  /\ exist = {} /\ backed = {}
  /\ pc = [r \in Requests |-> "idle"]
  /\ proc \in [Requests -> Processes]
  /\ entry = [r \in Requests |-> None]

-----------------------------------------------------------------------------
To(r, label) == pc' = [pc EXCEPT ![r] = label]
Take(r, e) == entry' = [entry EXCEPT ![r] = e]

(* Mutant: the entry stays on the list while it is in use.                 *)
AcquirePeeked(r, p) ==
  /\ pc[r] = "idle"
  /\ p \in alive
  /\ list[p] # <<>>
  /\ Take(r, Head(list[p]))
  /\ proc' = [proc EXCEPT ![r] = p]
  /\ To(r, "back")
  /\ UNCHANGED <<alive, itemVars, entryVars>>

(* FspProcessBufferAcquire, by a thread of the process.  A request that is *)
(* larger than FspProcessBufferSizeMax never looks at the list.  The first *)
(* look under the lock takes an entry, ...                                 *)
AcquireListed(r, p) ==
  /\ pc[r] = "idle"
  /\ p \in alive
  /\ list[p] # <<>>
  /\ list' = [list EXCEPT ![p] = Tail(@)]
  /\ Take(r, Head(list[p]))
  /\ proc' = [proc EXCEPT ![r] = p]
  /\ To(r, "back")
  /\ UNCHANGED <<alive, known, count, entryVars>>

(* ... finds that there are enough, so that the buffer will not be kept    *)
(* (when it cannot be allocated it is as if it were released at once), ... *)
AcquirePlain(r, p) ==
  /\ pc[r] = "idle"
  /\ p \in alive
  /\ proc' = [proc EXCEPT ![r] = p]
  /\ To(r, "plain")
  /\ UNCHANGED <<alive, itemVars, entryVars, entry>>

(* ... or finds that the list is to grow.                                  *)
AcquireNew(r, p) ==
  /\ pc[r] = "idle"
  /\ p \in alive
  /\ list[p] = <<>>
  /\ p \in known => count[p] < CountMax
  /\ proc' = [proc EXCEPT ![r] = p]
  /\ To(r, "alloc")
  /\ UNCHANGED <<alive, itemVars, entryVars, entry>>

(* The entry and the item are allocated, or one of them cannot be.         *)
Alloc(r) ==
  /\ pc[r] = "alloc"
  /\ \/ \E e \in Entries \ exist :
          /\ exist' = exist \union {e}
          /\ Take(r, e)
          /\ To(r, "insert")
     \/ /\ To(r, "idle")
        /\ UNCHANGED <<exist, entry>>
  /\ UNCHANGED <<alive, itemVars, backed, proc>>

(* The second look under the lock: another thread may have added the item, *)
(* and as many buffers as there may be.                                    *)
Insert(r) ==
  LET p == proc[r] IN
  /\ pc[r] = "insert"
  /\ known' = known \union {p}
  /\ \/ /\ p \notin known
        /\ count' = [count EXCEPT ![p] = 1]
        /\ To(r, "back")
        /\ UNCHANGED <<exist, entry>>
     \/ /\ p \in known /\ count[p] < CountMax
        /\ count' = [count EXCEPT ![p] = @ + 1]
        /\ To(r, "back")
        /\ UNCHANGED <<exist, entry>>
     \/ /\ p \in known /\ count[p] >= CountMax
        /\ exist' = exist \ {entry[r]}
        /\ Take(r, None)
        /\ To(r, "plain")
        /\ UNCHANGED count
  /\ UNCHANGED <<alive, list, backed, proc>>

(* Mutant: the entry of a process that has ended is forgotten.             *)
ReuseEntryLeaking(p, e) ==
  /\ list' = IF p \in known THEN [list EXCEPT ![p] = <<e>> \o @] ELSE list
  /\ UNCHANGED entryVars

(* FspProcessBufferReuseEntry: the entry goes back to the list, or, when   *)
(* the process has ended, it and its Buffer are freed.                     *)
ReuseEntry(p, e) ==
  IF p \in known
  THEN /\ list' = [list EXCEPT ![p] = <<e>> \o @]
       /\ UNCHANGED entryVars
  ELSE /\ exist' = exist \ {e}
       /\ backed' = backed \ {e}
       /\ UNCHANGED list

(* Mutant: the entry that gets no Buffer is freed and stays counted.       *)
BackFreed(r) ==
  /\ pc[r] = "back"
  /\ \/ /\ backed' = backed \union {entry[r]}
        /\ To(r, "busy")
        /\ UNCHANGED <<exist, entry>>
     \/ /\ entry[r] \notin backed
        /\ exist' = exist \ {entry[r]}
        /\ Take(r, None)
        /\ To(r, "idle")
        /\ UNCHANGED backed
  /\ UNCHANGED <<alive, itemVars, proc>>

(* An entry without a Buffer gets one; when there is no address space for  *)
(* it the entry stays as it is, counted and on the list.                   *)
Back(r) ==
  /\ pc[r] = "back"
  /\ \/ /\ backed' = backed \union {entry[r]}
        /\ To(r, "busy")
        /\ UNCHANGED <<list, exist, entry>>
     \/ /\ entry[r] \notin backed
        /\ ReuseEntry(proc[r], entry[r])
        /\ Take(r, None)
        /\ To(r, "idle")
  /\ UNCHANGED <<alive, known, count, proc>>

(* FspProcessBufferRelease. *)
Release(r) ==
  /\ pc[r] \in {"busy", "plain"}
  /\ IF entry[r] = None
     THEN UNCHANGED <<list, entryVars>>
     ELSE ReuseEntry(proc[r], entry[r])
  /\ Take(r, None)
  /\ To(r, "idle")
  /\ UNCHANGED <<alive, known, count, proc>>

(* FspProcessBufferNotifyRoutine and FspProcessBufferCollect: the last     *)
(* thread of the process has ended, so that none is about to acquire; the  *)
(* buffers go with the address space.                                      *)
Exit(p) ==
  /\ p \in alive
  /\ \A r \in Requests :
       proc[r] = p => pc[r] \notin {"alloc", "insert", "back"}
  /\ alive' = alive \ {p}
  /\ known' = known \ {p}
  /\ exist' = exist \ Range(list[p])
  /\ backed' = backed \ Range(list[p])
  /\ list' = [list EXCEPT ![p] = <<>>]
  /\ count' = [count EXCEPT ![p] = 0]
  /\ UNCHANGED <<pc, proc, entry>>

(* Another process gets the id of one that has ended, not before the       *)
(* requests that hold a reference to that one have released theirs.        *)
Start(p) ==
  /\ p \notin alive
  /\ \A r \in Requests : proc[r] = p => pc[r] = "idle"
  /\ alive' = alive \union {p}
  /\ UNCHANGED <<itemVars, entryVars, pc, proc, entry>>

Next ==
  \/ \E r \in Requests :
       \/ \E p \in Processes :
            AcquireListed(r, p) \/ AcquirePlain(r, p) \/ AcquireNew(r, p)
       \/ Alloc(r) \/ Insert(r) \/ Back(r) \/ Release(r)
  \/ \E p \in Processes : Exit(p) \/ Start(p)

Spec == Init /\ [][Next]_vars

-----------------------------------------------------------------------------
(* Properties. *)

TypeOK ==
  /\ alive \subseteq Processes /\ known \subseteq alive
  /\ list \in [Processes -> Seq(Entries)]
  /\ count \in [Processes -> 0 .. CountMax]
  /\ backed \subseteq exist /\ exist \subseteq Entries
  /\ pc \in [Requests -> PCs]
  /\ proc \in [Requests -> Processes]
  /\ entry \in [Requests -> Entries \union {None}]

(* Requests with an entry that counts.                                     *)
Holders(p) ==
  {r \in Requests :
     proc[r] = p /\ pc[r] \in {"back", "busy"} /\ entry[r] # None}

(* A buffer is used by one request at a time, in the process it belongs    *)
(* to: an entry is with one request or on one list, there once, and is not *)
(* freed as long as it is (a second user would overwrite the data of the   *)
(* first).                                                                 *)
OneUser ==
  /\ \A r, s \in Requests : entry[r] # None /\ entry[r] = entry[s] => r = s
  /\ \A p \in Processes :
       /\ IsInjective(list[p])
       /\ \A r \in Requests : entry[r] \notin Range(list[p])
       /\ \A q \in Processes \ {p} : Range(list[p]) \intersect Range(list[q]) = {}

(* The number of buffers of a process is that of the entries on its list   *)
(* and in use, however the two looks under the lock, failed allocations    *)
(* and releases interleave: the limit neither leaks nor is passed.         *)
CountExact ==
  \A p \in known : count[p] = Len(list[p]) + Cardinality(Holders(p))

(* No entry is lost, and none is used after it was freed: what is          *)
(* allocated is on a list or with a request, and the requests that outlive *)
(* their process free theirs.                                              *)
NothingLost ==
  exist = (UNION {Range(list[p]) : p \in Processes}) \union
          {entry[r] : r \in {x \in Requests : entry[x] # None}}

=============================================================================
