------------------------- MODULE FileNodeInvariant -------------------------
(***************************************************************************)
(* What is always true of the file nodes: the inductive invariants of the  *)
(* theorems in FileNodeProofs, and the operators that say what a step of   *)
(* one file object changes.                                                *)
(*                                                                         *)
(* IInv is about contexts, of one file object at a time.  InOrder is about *)
(* all file objects together, on a volume without POSIX deletes and        *)
(* renames: the accounts of the nodes (Whole), what handles, deletes,      *)
(* renames and streams require of each other (Plain), and the main file    *)
(* nodes of streams (Mains).  Fair adds the share access.                  *)
(***************************************************************************)
EXTENDS FileNode

-----------------------------------------------------------------------------
(* The contexts of user mode. *)

(* The fields of a file object, and what the file system holds for it.     *)
Fields == {"pc", "name", "mode", "node", "extra", "reason", "main", "posix", "delete",
           "overwrite", "to", "opened", "cleanups", "closes"}

(* Before the file system has answered, while the context is open, and     *)
(* from Cleanup to Close.                                                  *)
Unanswered == {"new", "main", "create"}
InUse == {"answered", "violation", "waiting", "again", "refused", "tryopen", "parked",
          "overwrite", "overwriting", "open", "dispose", "rename"}
Cleaning == {"cleanup", "cleaned"}

(* What can be told of a file object from its progress.                    *)
Tracked(r) ==
  /\ DOMAIN r = Fields
  /\ r.pc \in Unanswered => ~r.opened /\ r.closes = 0 /\ r.cleanups = 0
  /\ r.pc \in InUse => r.opened /\ r.closes = 0 /\ r.cleanups = 0
  /\ r.pc \in Cleaning => r.opened /\ r.closes = 0 /\ r.cleanups \in {0, 1}
  /\ r.pc \notin Unanswered \cup InUse \cup Cleaning =>
       /\ r.pc = "done" /\ r.cleanups = 0
       /\ r.closes = 0 \/ (r.closes = 1 /\ r.opened)

(* Only a file object that ends after the volume was stopped keeps its     *)
(* context.                                                                *)
Returned(r) == r.pc = "done" /\ r.opened /\ ~stopped => r.closes = 1

(* The inductive invariant of the theorems about contexts.                 *)
IInv ==
  /\ file = [f \in Files |-> file[f]]
  /\ \A f \in Files : Tracked(file[f]) /\ Returned(file[f])

(* The context of a file object as its record shows it. *)
View(r) ==
  CASE ~r.opened -> "none"
    [] r.closes > 1 \/ (r.closes = 1 /\ r.pc # "done") -> "error"
    [] r.closes = 1 -> "closed"
    [] r.cleanups > 0 -> "cleaned"
    [] OTHER -> "open"

(* What the file system may see of a step. *)
Follows(a, b) ==
  \/ a = b
  \/ a = "none" /\ b = "open"
  \/ a = "open" /\ b = "cleaned"
  \/ a \in {"open", "cleaned"} /\ b = "closed"

(* The step of one file object. *)
Steps(f, r) ==
  /\ file' = [file EXCEPT ![f] = r]
  /\ UNCHANGED stopped
  /\ Tracked(r) /\ Returned(r)
  /\ Follows(View(file[f]), View(r))

(* The contexts of all file objects, as FileContexts has them.             *)
context == [f \in Files |-> ContextOf(f)]

(* A step that the file system does not see, within one of the stages.     *)
Onward(f, r) ==
  /\ file' = [file EXCEPT ![f] = r] /\ UNCHANGED stopped
  /\ DOMAIN r = DOMAIN file[f]
  /\ r.opened = file[f].opened /\ r.closes = file[f].closes
  /\ r.cleanups = file[f].cleanups
  /\ \E stage \in {Unanswered, InUse, Cleaning} : file[f].pc \in stage /\ r.pc \in stage

(* The end: nothing was opened, or user mode is told with PostClose, or    *)
(* the volume is stopped.                                                  *)
Ends(f, r) ==
  /\ file' = [file EXCEPT ![f] = r] /\ UNCHANGED stopped
  /\ \/ file[f].pc \in Unanswered /\ r = Finished(f)
     \/ file[f].pc \in InUse /\ stopped /\ r = Finished(f)
     \/ file[f].pc \in InUse \cup Cleaning /\ r = PostClose(Finished(f))

(* A file object whose Create has only begun. *)
Blank(r) ==
  /\ DOMAIN r = Fields /\ r.pc \in Unanswered
  /\ r.opened = FALSE /\ r.closes = 0 /\ r.cleanups = 0

-----------------------------------------------------------------------------
(* What is counted, as operators of the file objects F, the nodes N and    *)
(* the table T, so that they can be used of the states inside a step.      *)
Private == {"main", "create", "answered", "violation", "waiting", "again", "refused"}
Refusing == {"violation", "waiting", "refused"}
Ended == {"new", "done"}
FilePCs == Ended \cup Private \cup HasHandle \cup {"cleaned"}

FileType == [pc : FilePCs, name : Names \cup {None}, mode : AllModes,
             node : Nodes \cup {None}, extra : Nodes \cup {None},
             reason : {None, "main", "stream", "general"}, main : Files \cup {None},
             posix : BOOLEAN, delete : BOOLEAN, overwrite : BOOLEAN,
             to : FileNames \cup {None}, opened : BOOLEAN, cleanups : Nat, closes : Nat]
NodeType == [name : Names \cup {None}, main : Nodes \cup {None}, refs : Int,
             active : Int, open : Int, handles : Int, pending : BOOLEAN,
             posix : BOOLEAN, denyDelete : Int, denyStream : Int, share : SUBSET Files]
TableType == [Names -> Nodes \cup {None}]

FilesAt(F, n) == {f \in Files : F[f].node = n}
ExtrasAt(F, n) == {f \in Files : F[f].extra = n}
NamesAt(T, n) == {x \in Names : T[x] = n}
StreamsAt(N, n) == {k \in Nodes : N[k].main = n}
HandlesAt(F, n) == {f \in Files : F[f].node = n /\ F[f].pc \in HasHandle}
UsersAt(F, n) == {f \in Files : F[f].node = n /\ F[f].pc \in HasHandle \cup {"cleaned"}}
SharersAt(F, n) == {f \in HandlesAt(F, n) : HasAccess(F[f].mode)}
DeletersAt(F, n) == {f \in HandlesAt(F, n) : F[f].mode.delete}
Denies(r) == r.pc \in HasHandle /\ HasAccess(r.mode) /\ ~r.mode.shareDelete
DeniersAt(N, F, n) ==
  {f \in Files : Denies(F[f]) /\ \E k \in Nodes : N[k].main = n /\ F[f].node = k}

(* A file object has a node from the start of its Create to the end of its *)
(* Close, and an extra one during a sharing violation.                     *)
FileOK(r) ==
  /\ r.pc \in Ended => r.node = None
  /\ r.pc \notin Ended => r.node \in Nodes /\ r.name \in Names
  /\ r.extra # None <=> r.pc \in Refusing
  /\ r.pc = "main" => IsStream(r.name) /\ r.main \in Files
FilesOK(F) == F \in [Files -> FileType] /\ \A f \in Files : FileOK(F[f])

(* References, also those that are owed: a holder is gone, or not there    *)
(* yet, in the middle of a step.                                           *)
Refs(N, T, F, owed) ==
  \A n \in Nodes :
    N[n].refs = Cardinality(FilesAt(F, n)) + Cardinality(ExtrasAt(F, n))
                + Cardinality(NamesAt(T, n)) + Cardinality(StreamsAt(N, n)) + owed[n]

Uses(N, F) ==
  \A n \in Nodes :
    /\ N[n].active = Cardinality(UsersAt(F, n)) + Cardinality(ExtrasAt(F, n))
    /\ N[n].open \in {0, N[n].active}
    /\ N[n].handles = Cardinality(HandlesAt(F, n)) + Cardinality(ExtrasAt(F, n))
    /\ N[n].share = SharersAt(F, n)
    /\ N[n].denyDelete = IF N[n].main = None THEN Cardinality(DeletersAt(F, n)) ELSE 0
    /\ N[n].denyStream = Cardinality(DeniersAt(N, F, n))

(* A free node is blank, others have a name; the main file of a stream has *)
(* no main file.                                                           *)
NodesOK(N) ==
  /\ N \in [Nodes -> NodeType]
  /\ \A n \in Nodes :
       /\ N[n].refs = 0 => N[n] = FreeNode
       /\ N[n].refs # 0 => N[n].name \in Names
       /\ N[n].main # None => IsStream(N[n].name) /\ N[N[n].main].main = None

One(N, T) ==
  /\ T \in TableType
  /\ \A n \in Nodes : N[n].open > 0 => T[N[n].name] = n
  /\ \A x \in Names : T[x] # None => N[T[x]].name = x /\ N[T[x]].open > 0

(* A node is of the Create that made it until the answer is processed.     *)
Own(N, T, F) ==
  \A f \in Files : F[f].pc \in Private =>
    LET n == F[f].node
    IN /\ \A g \in Files : (g # f => F[g].node # n) /\ F[g].extra # n
       /\ \A x \in Names : T[x] # n
       /\ \A k \in Nodes : N[k].main # n

(* The name of a node is that of its files, up to renames; the main file   *)
(* that a stream waits for is not a stream; a rename changes the name, and *)
(* there is one at a time.                                                 *)
Named(N, F) ==
  \A f \in Files :
    /\ F[f].node \in Nodes => N[F[f].node].name[2] = F[f].name[2]
    /\ F[f].pc = "main" =>
         LET g == F[f].main
         IN F[g].pc # "new" /\ (F[g].pc # "done" => F[g].name[2] = NoStream)
    /\ F[f].pc = "rename" =>
         /\ F[f].to \in FileNames
         /\ F[f].node \in Nodes => F[f].to # N[F[f].node].name[1]
         /\ \A g \in Files : F[g].pc = "rename" => g = f

Acc(N, T, F, owed) ==
  /\ FilesOK(F) /\ NodesOK(N) /\ One(N, T)
  /\ Refs(N, T, F, owed) /\ Uses(N, F)

Nothing == [n \in Nodes |-> 0]
Whole(N, T, F) == Acc(N, T, F, Nothing) /\ Own(N, T, F) /\ Named(N, F)

(* How a count changes when one element may enter or leave.                *)
Indicator(b) == IF b THEN 1 ELSE 0

-----------------------------------------------------------------------------
(* One reference less. *)
Loses(N, n, k) == k = n \/ (k = N[n].main /\ N[n].refs = 1)
Less(r) == IF r.refs = 1 THEN FreeNode ELSE [r EXCEPT !.refs = @ - 1]
Lowered(N, n) == [k \in Nodes |-> IF Loses(N, n, k) THEN Less(N[k]) ELSE N[k]]

(* Nothing holds node n. *)
Unheld(N, T, F, n) ==
  /\ FilesAt(F, n) = {} /\ ExtrasAt(F, n) = {}
  /\ NamesAt(T, n) = {} /\ StreamsAt(N, n) = {}

(* What a step did to a node: nothing but its references, or it is free    *)
(* and nothing holds it.                                                   *)
Same(r, q) ==
  /\ r.name = q.name /\ r.main = q.main /\ r.active = q.active /\ r.open = q.open
  /\ r.handles = q.handles /\ r.pending = q.pending /\ r.posix = q.posix
  /\ r.denyDelete = q.denyDelete /\ r.denyStream = q.denyStream /\ r.share = q.share

(* File object f becomes r.                                                *)
At1(F, f, r) == [F EXCEPT ![f] = r]
UserPC == HasHandle \cup {"cleaned"}
DeniesTo(N, r, n) == Denies(r) /\ \E k \in Nodes : N[k].main = n /\ r.node = k

(* What node n gains when a file object q becomes r.                       *)
NodeGain(q, r, n) == Indicator(r.node = n) - Indicator(q.node = n)
ExtraGain(q, r, n) == Indicator(r.extra = n) - Indicator(q.extra = n)
HandleGain(q, r, n) ==
  Indicator(r.node = n /\ r.pc \in HasHandle) - Indicator(q.node = n /\ q.pc \in HasHandle)
UserGain(q, r, n) ==
  Indicator(r.node = n /\ r.pc \in UserPC) - Indicator(q.node = n /\ q.pc \in UserPC)
DeleterGain(q, r, n) ==
  Indicator(r.node = n /\ r.pc \in HasHandle /\ r.mode.delete)
    - Indicator(q.node = n /\ q.pc \in HasHandle /\ q.mode.delete)
DenierGain(N, q, r, n) == Indicator(DeniesTo(N, r, n)) - Indicator(DeniesTo(N, q, n))
NamesGain(T, U, n) == Cardinality(NamesAt(U, n)) - Cardinality(NamesAt(T, n))

(* The nodes follow a file object: M and U are what the step makes of the  *)
(* nodes N and the table T, o what it leaves owed.                         *)
Follow(N, M, T, U, q, r, f, owed, o) ==
  \A n \in Nodes :
    /\ M[n].name = N[n].name /\ M[n].main = N[n].main
    /\ M[n].refs = N[n].refs + NodeGain(q, r, n) + ExtraGain(q, r, n)
                   + NamesGain(T, U, n) + o[n] - owed[n]
    /\ M[n].active = N[n].active + UserGain(q, r, n) + ExtraGain(q, r, n)
    /\ M[n].open \in {0, M[n].active}
    /\ M[n].handles = N[n].handles + HandleGain(q, r, n) + ExtraGain(q, r, n)
    /\ M[n].share = IF r.node = n /\ r.pc \in HasHandle /\ HasAccess(r.mode)
                      THEN N[n].share \cup {f} ELSE N[n].share \ {f}
    /\ M[n].denyDelete = IF N[n].main = None THEN N[n].denyDelete + DeleterGain(q, r, n) ELSE 0
    /\ M[n].denyStream = N[n].denyStream + DenierGain(N, q, r, n)
    /\ N[n].refs = 0 => M[n] = N[n]
    /\ M[n].refs = 0 => N[n].refs = 0

(* A step changes the counts of one node n for file object f, by = 1 when  *)
(* it takes share access of this mode, -1 when it returns it.              *)
Denying(mode) == HasAccess(mode) /\ ~mode.shareDelete
Alike(q, p) ==
  p.name = q.name /\ p.main = q.main /\ p.pending = q.pending /\ p.posix = q.posix
Kept(q, p) ==
  /\ p.refs = q.refs /\ p.active = q.active /\ p.open = q.open /\ p.handles = q.handles
  /\ p.share = q.share /\ p.denyDelete = q.denyDelete
Counts(q, p, refs, active, open, handles) ==
  /\ p.refs = q.refs + refs /\ p.active = q.active + active
  /\ p.open = open /\ p.handles = q.handles + handles
Shares(q, p, f, mode, by) ==
  /\ p.share = CASE by = 1 /\ HasAccess(mode) -> q.share \cup {f}
                 [] by = 0 - 1 -> q.share \ {f}
                 [] OTHER -> q.share
  /\ p.denyDelete = IF q.main = None /\ mode.delete THEN q.denyDelete + by ELSE q.denyDelete
Changes(N, M, n, f, mode, by, refs, active, open, handles) ==
  /\ \A k \in Nodes : Alike(N[k], M[k])
  /\ \A k \in Nodes : k # n => Kept(N[k], M[k])
  /\ Counts(N[n], M[n], refs, active, open, handles)
  /\ Shares(N[n], M[n], f, mode, by)
  /\ \A k \in Nodes : M[k].denyStream = IF k = N[n].main /\ Denying(mode)
                                           THEN N[k].denyStream + by ELSE N[k].denyStream

(* CountShare as an operator of the nodes. *)
Access(f, mode) == {g \in {f} : HasAccess(mode)}
Counted(N, n, f, mode, by) ==
  LET S == [N EXCEPT ![n].share = IF by = 1 THEN @ \cup Access(f, mode) ELSE @ \ {f}]
  IN CASE N[n].main = None /\ mode.delete -> [S EXCEPT ![n].denyDelete = @ + by]
       [] N[n].main # None /\ HasAccess(mode) /\ ~mode.shareDelete
            -> [S EXCEPT ![N[n].main].denyStream = @ + by]
       [] OTHER -> S

(* More, or less, of each count. *)
Plus(r, refs, active, open, handles) ==
  [r EXCEPT !.refs = @ + refs, !.active = @ + active, !.open = open, !.handles = @ + handles]

-----------------------------------------------------------------------------
(* FspFileNodeClose. *)
OneLess(open) == IF open > 0 THEN open - 1 ELSE open
Closing(share) == IF share THEN -1 ELSE 0
Shared(N, n, f, mode, share) == IF share THEN Counted(N, n, f, mode, -1) ELSE N
Closed(N, n, f, mode, share, handles) ==
  LET S == Shared(N, n, f, mode, share)
  IN [S EXCEPT ![n] = Plus(S[n], 0, -1, OneLess(S[n].open), 0 - handles)]

(* The node leaves the table with its last use. *)
TableLeft(N, T, n) == IF N[n].open = 1 THEN [T EXCEPT ![N[n].name] = None] ELSE T
Shut(N, T, n, C) ==
  IF N[n].open = 1 THEN Dereference([node |-> C, table |-> TableLeft(N, T, n)], n)
                   ELSE [node |-> C, table |-> T]

(* What a file object takes or returns of the share access of node n.      *)
Takes(q, r, n, mode, by) ==
  \/ /\ by = 1 /\ q.pc \notin HasHandle /\ r.pc \in HasHandle
     /\ r.node = n /\ r.mode = mode
  \/ /\ by = 0 - 1 /\ q.pc \in HasHandle /\ r.pc \notin HasHandle
     /\ q.node = n /\ q.mode = mode
  \/ /\ by = 0 /\ (q.pc \in HasHandle <=> r.pc \in HasHandle)
     /\ r.pc \in HasHandle => q.node = r.node /\ q.mode = r.mode

OnlyAt(k, n, x) == IF k = n THEN x ELSE 0

AccessFits(N, M, f, q, r, n, mode, by) ==
  \A k \in Nodes :
    /\ DeleterGain(q, r, k) = OnlyAt(k, n, IF mode.delete THEN by ELSE 0)
    /\ DenierGain(N, q, r, k) = IF k = N[n].main /\ Denying(mode) THEN by ELSE 0
    /\ M[k].share = IF r.node = k /\ r.pc \in HasHandle /\ HasAccess(r.mode)
                      THEN N[k].share \cup {f} ELSE N[k].share \ {f}

(* What a file object gains, and the counts of node n.                     *)
Gains(q, r, T, U, owed, o, n, refs, active, handles) ==
  \A k \in Nodes :
    /\ NodeGain(q, r, k) + ExtraGain(q, r, k) + NamesGain(T, U, k) + o[k] - owed[k]
       = OnlyAt(k, n, refs)
    /\ UserGain(q, r, k) + ExtraGain(q, r, k) = OnlyAt(k, n, active)
    /\ HandleGain(q, r, k) + ExtraGain(q, r, k) = OnlyAt(k, n, handles)

(* Table U is T, but name x leads to v.                                    *)
Put(T, U, x, v) == U[x] = v /\ \A y \in Names : y # x => U[y] = T[y]

Owe(n, c) == [k \in Nodes |-> IF k = n THEN c ELSE 0]

(* A handle is closed, a cleaned file is closed, or the counts of a        *)
(* sharing violation are given back.                                       *)
Gone(r) == r.pc = "done" /\ r.node = None /\ r.extra = None
Leaves(q, r, n, share, handles) ==
  \/ share /\ handles = 1 /\ q.pc \in HasHandle /\ q.node = n /\ Gone(r)
  \/ ~share /\ handles = 0 /\ q.pc = "cleaned" /\ q.node = n /\ Gone(r)
  \/ /\ ~share /\ handles = 1 /\ q.pc \in Refusing /\ q.extra = n
     /\ r.pc = "again" /\ r.extra = None /\ r.node = q.node /\ r.name = q.name
OwedLeft(N, n) == Owe(n, IF N[n].open = 1 THEN 2 ELSE 1)

(* Nothing but references changed, and some nodes became free.             *)
Rest(N, M, T, F) ==
  \A k \in Nodes : \/ M[k] = FreeNode /\ Unheld(M, T, F, k)
                   \/ Same(M[k], N[k])

(* What becomes of the nodes when n is used once less.                     *)
Carried(N, M, U, F, n, open) ==
  \A k \in Nodes :
    \/ M[k] = FreeNode /\ Unheld(M, U, F, k)
    \/ Alike(N[k], M[k]) /\ M[k].open = IF k = n THEN open ELSE N[k].open

-----------------------------------------------------------------------------
(* Steps that change the state of a file object, but not what it holds,    *)
(* and the marks of nodes.                                                 *)
Marked(q, p) ==
  /\ p.name = q.name /\ p.main = q.main /\ p.refs = q.refs /\ p.active = q.active
  /\ p.open = q.open /\ p.handles = q.handles /\ p.denyDelete = q.denyDelete
  /\ p.denyStream = q.denyStream /\ p.share = q.share
  /\ q.refs = 0 => p = q

(* The file object q becomes r and holds the same. *)
Holds(q, r) ==
  /\ r.node = q.node /\ r.extra = q.extra /\ r.name = q.name /\ r.mode = q.mode
  /\ r.main = q.main
  /\ q.pc \notin Ended /\ r.pc \notin Ended
  /\ q.pc \in HasHandle <=> r.pc \in HasHandle
  /\ q.pc \in Private <=> r.pc \in Private

RenameNamed(N, F, f, r) ==
  r.pc = "rename" =>
    /\ r.to \in FileNames /\ r.to # N[r.node].name[1]
    /\ \A g \in Files : F[g].pc = "rename" => g = f

-----------------------------------------------------------------------------
(* Nodes that leave the table and are not found again.                     *)
Untabled(N, D) ==
  [k \in Nodes |-> IF k \in D THEN [N[k] EXCEPT !.open = 0, !.refs = @ - 1] ELSE N[k]]
TableWithout(N, T, D) ==
  [x \in Names |-> IF \E d \in D : N[d].name = x THEN None ELSE T[x]]
Tabled(N, T, D) ==
  /\ D \subseteq Nodes
  /\ \A d \in D : N[d].name \in Names /\ T[N[d].name] = d

-----------------------------------------------------------------------------
(* FspFileNodeCleanupComplete: a handle is gone, and the file object stays *)
(* as a user of its node until it is closed.                               *)
Cleaned(q, r) ==
  /\ q.pc = "cleanup" /\ r.pc = "cleaned"
  /\ r.node = q.node /\ r.extra = q.extra /\ r.name = q.name /\ r.mode = q.mode
  /\ r.main = q.main
WithoutHandle(N, T, n, f) ==
  LET s1 == CountShare([node |-> N, table |-> T], n, f, -1)
  IN [s1 EXCEPT !.node[n].handles = @ - 1]

-----------------------------------------------------------------------------
(* A deleted file leaves the table, and so do its streams.                 *)
Companions(N, T, n) ==
  IF volume.streams /\ N[n].main = None
    THEN {T[x] : x \in {y \in Names : y[1] = N[n].name[1] /\ y # N[n].name /\ T[y] # None}}
    ELSE {}

-----------------------------------------------------------------------------
(* An open takes a node.                                                   *)
Taken(N, k) == [N EXCEPT ![k] = Plus(N[k], 1, 1, N[k].open + 1, 1)]

-----------------------------------------------------------------------------
(* A sharing violation is counted on the node that caused it.              *)
Refuses(q, r, k) ==
  /\ q.pc \in {"answered", "again"} /\ r.pc \in Refusing /\ r.extra = k
  /\ r.node = q.node /\ r.name = q.name /\ r.mode = q.mode /\ r.main = q.main

CountedOpen(N, M, k) ==
  \A j \in Nodes : /\ Alike(N[j], M[j])
                    /\ M[j].open = IF j = k THEN N[k].open + 1 ELSE N[j].open

-----------------------------------------------------------------------------
(* An open that succeeds: its own node goes into the table, or it moves to *)
(* the node that is there.                                                 *)
Opens(q, r, k) ==
  /\ q.pc \in {"answered", "again"} /\ r.pc \in {"overwrite", "tryopen"}
  /\ r.node = k /\ r.extra = q.extra /\ r.name = q.name /\ r.mode = q.mode
  /\ r.main = q.main
Shared1(N, T, k, f) == CountShare(Count([node |-> N, table |-> T], k), k, f, 1)

(* What all such opens have in common. *)
Opening(N, T, q, r, n) ==
  /\ q.pc \in Private /\ q.pc \notin HasHandle /\ q.pc \notin UserPC
  /\ q.pc \notin Ended /\ q.pc # "main" /\ q.extra = None /\ r.extra = None
  /\ n \in Nodes /\ q.mode \in AllModes
  /\ r.pc \in HasHandle /\ r.pc \in UserPC /\ r.pc \notin Private
  /\ r.pc \notin Ended /\ r.pc # "main" /\ r.pc # "rename"
  /\ N[n].open = 0 /\ N[n].active = 0 /\ N[n].refs # 0
  /\ N[n].name \in Names /\ N[n].main # n
  /\ \A x \in Names : T[x] # n

Linked(N, n, k) == [j \in Nodes |-> CASE j = n -> [N[j] EXCEPT !.main = k]
                                      [] j = k -> [N[j] EXCEPT !.refs = @ + 1]
                                      [] OTHER -> N[j]]

-----------------------------------------------------------------------------
(* FspFileNodeRename: the nodes of the file and of its streams move.       *)
Streaming(T, from) == {x \in Streams \cup {NoStream} : T[<<from, x>>] # None}
Shifting(T, from) == {T[<<from, x>>] : x \in Streaming(T, from)}
Shifted(N, T, from, to) ==
  [k \in Nodes |-> IF k \in Shifting(T, from) THEN [N[k] EXCEPT !.name = <<to, @[2]>>] ELSE N[k]]
TableShifted(T, from, to, moving) ==
  [y \in Names |-> CASE y[1] = from /\ y[2] \in moving -> None
                     [] y[1] = to /\ y[2] \in moving -> T[<<from, y[2]>>]
                     [] OTHER -> T[y]]

-----------------------------------------------------------------------------
(* FspFileNodeRename as a whole: the nodes that are replaced leave the     *)
(* table, and the others move to their names.                              *)
Taking(T, from, to) == {T[<<to, x>>] : x \in Streaming(T, from)} \ {None}
Vacant(T, from, to) == \A x \in Streaming(T, from) : T[<<to, x>>] = None
Relocated(q, p, from, to) ==
  /\ p.main = q.main /\ p.pending = q.pending
  /\ p.name = IF q.open > 0 /\ q.name[1] = from THEN <<to, q.name[2]>> ELSE q.name
  /\ q.name[1] # to => p.open = q.open
  /\ p.open > 0 => q.open > 0

(* A handle keeps its node open.                                           *)
Held(N, F) == \A f \in Files : F[f].pc \in HasHandle => N[F[f].node].open > 0

(* The Cleanup that deletes a file is that of the last handle, and no open *)
(* succeeds or fails on the node meanwhile.                                *)
Deleting(q) == q.pc = "cleanup" /\ q.delete
Off(q, n) == (q.node = n => q.pc \notin HasHandle) /\ q.extra # n
LastDeletes(N, F) ==
  \A f \in Files : Deleting(F[f]) =>
    /\ N[F[f].node].pending
    /\ \A g \in Files \ {f} : Off(F[g], F[f].node)

(* A rename excludes Creates, and nothing is open under the new name.      *)
Away(N, q, to) ==
  q.pc \notin Creating /\ (q.pc \in HasHandle => N[q.node].name[1] # to)
Renaming(N, F) ==
  \A f \in Files : F[f].pc = "rename" => \A g \in Files : Away(N, F[g], F[f].to)

(* The file object q of a stream keeps the main file open with the file    *)
(* object m until it is cleaned up.                                        *)
Under(N, q, m) == N[m.node].name = MainName(N[q.node].name)
StreamOK(N, q, m) ==
  /\ m.pc # "new" /\ ~m.mode.delete
  /\ q.pc = "main" => N[q.node].main = None /\ (m.pc \notin Ended => Under(N, q, m))
  /\ q.pc \in (Creating \ {"main"}) \cup HasHandle => m.pc = "open" /\ Under(N, q, m)
Streamed(q) == q.pc \notin Ended /\ IsStream(q.name)
StreamsOK(N, F) ==
  \A f \in Files : Streamed(F[f]) => F[f].main \in Files \ {f} /\ StreamOK(N, F[f], F[F[f].main])

NoPosix(F) == \A f \in Files : ~F[f].posix

Plain(N, F) ==
  Held(N, F) /\ LastDeletes(N, F) /\ Renaming(N, F) /\ StreamsOK(N, F) /\ NoPosix(F)

(* A step of file object f leaves this of the node n of another one, q.    *)
Left(N, M, q) ==
  LET n == q.node
  IN /\ M[n].name = N[n].name /\ M[n].main = N[n].main
     /\ q.pc \in HasHandle => M[n].open > 0
     /\ Deleting(q) => M[n].pending
Undisturbed(N, M, F, f) == \A g \in Files \ {f} : F[g].pc \notin Ended => Left(N, M, F[g])

(* The file object f becomes r.                                            *)
FitsHandle(M, r) == ~r.posix /\ (r.pc \in HasHandle => M[r.node].open > 0)
FitsDelete(M, F, f, r) ==
  /\ Deleting(r) => M[r.node].pending /\ \A g \in Files \ {f} : Off(F[g], r.node)
  /\ \A g \in Files \ {f} : Deleting(F[g]) => Off(r, F[g].node)
FitsRename(M, F, f, r) ==
  /\ r.pc = "rename" => Away(M, r, r.to) /\ \A g \in Files \ {f} : Away(M, F[g], r.to)
  /\ \A g \in Files \ {f} : F[g].pc = "rename" => Away(M, r, F[g].to)
FitsStream(M, F, f, r) ==
  /\ Streamed(r) => r.main \in Files \ {f} /\ StreamOK(M, r, F[r.main])
  /\ \A g \in Files \ {f} : Streamed(F[g]) /\ F[g].main = f => StreamOK(M, F[g], r)
Fits(M, F, f, r) ==
  FitsHandle(M, r) /\ FitsDelete(M, F, f, r) /\ FitsRename(M, F, f, r) /\ FitsStream(M, F, f, r)

(* File object f goes on, on the same node or on the one that replaces it. *)
Goes(q, r) ==
  /\ r.name = q.name /\ r.mode = q.mode /\ r.main = q.main /\ ~r.posix
  /\ q.pc \notin Ended /\ r.pc \notin Ended
  /\ r.pc \in Creating => q.pc \in Creating
  /\ r.pc \in HasHandle => q.pc \in HasHandle \cup Creating
  /\ r.pc = "main" => q.pc = "main"
  /\ r.pc \in (Creating \ {"main"}) \cup HasHandle => q.pc # "main"
  /\ r.pc \in (Creating \ {"main"}) \cup HasHandle => q.pc \in (Creating \ {"main"}) \cup HasHandle
GoesFrom(N, M, q, r) ==
  /\ M[r.node].name = N[q.node].name
  /\ r.pc = "main" => M[r.node].main = N[q.node].main
  /\ r.pc \in HasHandle => M[r.node].open > 0
(* A main file object leaves "open" only when no stream needs it.          *)
Unneeded(F, f, r) ==
  F[f].pc = "open" /\ r.pc # "open" =>
    \/ F[f].mode.delete
    \/ \A g \in Files : F[g].main = f => F[g].pc \in {"cleaned", "done"}
StartsRename(M, F, f, r) ==
  r.pc = "rename" => Away(M, r, r.to) /\ \A g \in Files \ {f} : Away(M, F[g], r.to)

-----------------------------------------------------------------------------
(* A stream that was opened, or will be, has the node of its main file.     *)
Mains(N, F) ==
  /\ \A n \in Nodes : N[n].open > 0 /\ IsStream(N[n].name) => N[n].main # None
  /\ \A f \in Files : F[f].pc \in Private \ {"main"} /\ IsStream(F[f].name) =>
       N[F[f].node].main # None
Good(N, T, F) == Whole(N, T, F) /\ Plain(N, F) /\ Mains(N, F)

(* Every node that is open in M is that of N, and may be open.              *)
MayOpen(N, M) ==
  \A k \in Nodes : M[k].open > 0 =>
    /\ M[k].name = N[k].name /\ M[k].main = N[k].main
    /\ IsStream(N[k].name) => N[k].main # None

(* The handles respect each other's share access: Sharing, as an operator.  *)
Spares(a, b) == ~a.delete \/ b.shareDelete \/ ~HasAccess(b)
Shareable(N, q, r) ==
  q.pc \in HasHandle /\ r.pc \in HasHandle =>
    /\ q.node = r.node => ~Conflict(q.mode, r.mode)
    /\ q.node = N[r.node].main => Spares(q.mode, r.mode)
AllShare(N, F) == \A f, g \in Files : f # g => Shareable(N, F[f], F[g])

(* An open stream has the name of its main file, and a stream that is being *)
(* opened the node of the main file that it waited for: a stream and those  *)
(* who open it later meet at one main file.                                 *)
Kin(N) ==
  \A n, k \in Nodes : N[n].open > 0 /\ N[k].open > 0 /\ N[n].main = k =>
    N[k].name = MainName(N[n].name)
Creates(q) == q.pc \in Private \ {"main"} /\ IsStream(q.name)
KinFiles(N, F) == \A f \in Files : Creates(F[f]) => N[F[f].node].main = F[F[f].main].node
Fair(N, F) == Kin(N) /\ KinFiles(N, F) /\ AllShare(N, F)
Fairly(N, F, M, G) == Fair(N, F) => Fair(M, G)

(* Nothing is opened and no stream gets a main file from N to M, and the    *)
(* file object q gets no handle when it becomes r.                          *)
Keeps(N, M) ==
  \A k \in Nodes : /\ M[k].main # None => N[k].main = M[k].main
                   /\ M[k].open > 0 => N[k].open > 0 /\ M[k].name = N[k].name
Remains(q, r) ==
  /\ r.pc \in HasHandle => q.pc \in HasHandle /\ r.node = q.node /\ r.mode = q.mode
  /\ Creates(r) => Creates(q) /\ r.node = q.node /\ r.main = q.main

-----------------------------------------------------------------------------
(* The invariants of a volume without POSIX deletes and renames.           *)
InOrder == volume \in AllVolumes /\ ~volume.posix /\ Good(node, table, file)
InOrderFair == InOrder /\ Fair(node, file)
=============================================================================
