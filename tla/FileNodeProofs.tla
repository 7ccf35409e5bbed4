--------------------------- MODULE FileNodeProofs ---------------------------
(***************************************************************************)
(* Theorems about FileNode and their proofs, for every number of file      *)
(* objects, nodes and names; the invariants are in FileNodeInvariant.      *)
(*                                                                         *)
(* The driver opens the context of a file object once, cleans it up and    *)
(* closes it at most once and in this order, and returns every context it  *)
(* was given, whichever way the Create fails.  The argument is about one   *)
(* file object at a time: whether its context is open can be told from     *)
(* where its Create, its Cleanup or its Close is.                          *)
(*                                                                         *)
(* On a volume without POSIX deletes and renames the counts and the share  *)
(* access of every file node are those of its file objects, the opens of a *)
(* file meet at one node, the last handle deletes, and handles respect     *)
(* each other's share access.  Each helper of file.c has a lemma about     *)
(* what it gives and takes, and each action one that it preserves all of   *)
(* this.                                                                   *)
(***************************************************************************)
EXTENDS FileNodeInvariant, FiniteSetTheorems, WellFoundedInduction, TLAPS

LEMMA InitInv == Init => IInv /\ Contexts!Init
<1> SUFFICES ASSUME Init PROVE IInv /\ Contexts!Init
  OBVIOUS
<1>1. Tracked(NewFile) /\ NewFile.pc = "new" /\ ~NewFile.opened
  BY DEF Tracked, NewFile, Fields, Unanswered, InUse, Cleaning
<1>2. IInv
  BY <1>1 DEF Init, IInv, Returned
<1>3. ASSUME NEW f \in Files PROVE ContextOf(f) = "none"
  <2>1. ~file[f].opened /\ file[f].closes = 0 /\ file[f].cleanups = 0
    BY DEF Init, NewFile
  <2>2. ~(file[f].closes > 1) /\ file[f].closes # 1 /\ ~(file[f].cleanups > 0)
    BY <2>1
  <2> QED BY <2>1, <2>2, Zenon DEF ContextOf
<1> QED BY <1>2, <1>3 DEF Contexts!Init, Contexts!Unopened

LEMMA StepInv ==
  ASSUME IInv, NEW f \in Files, NEW r, Steps(f, r)
  PROVE  IInv' /\ [Contexts!Next]_context
<1>1. /\ file' = [g \in Files |-> file'[g]]
      /\ \A g \in Files : file'[g] = IF g = f THEN r ELSE file[g]
  BY DEF IInv, Steps
<1>2. IInv'
  BY <1>1 DEF IInv, Steps, Returned
<1>3. ASSUME NEW g \in Files
      PROVE  ContextOf(g) = View(file[g]) /\ ContextOf(g)' = View(file'[g])
  BY Zenon DEF ContextOf, View
<1>4. context' = [context EXCEPT ![f] = View(r)]
  <2>1. \A g \in Files : View(file'[g]) = IF g = f THEN View(r) ELSE View(file[g])
    BY <1>1
  <2>2. /\ context = [g \in Files |-> ContextOf(g)]
        /\ context' = [g \in Files |-> ContextOf(g)']
    BY Zenon DEF context
  <2> HIDE DEF View
  <2> QED BY <1>3, <2>1, <2>2
<1>5. context[f] = View(file[f])
  BY <1>3 DEF context
<1>6. CASE View(r) = View(file[f])
  BY <1>2, <1>4, <1>5, <1>6 DEF context
<1>7. CASE View(r) # View(file[f])
  <2>1. Contexts!Opened(f) \/ Contexts!CleanedUp(f) \/ Contexts!Closed(f)
    BY <1>4, <1>5, <1>7
    DEF Steps, Follows, context, Contexts!Opened, Contexts!CleanedUp, Contexts!Closed,
        Contexts!Unopened
  <2> QED BY <1>2, <2>1 DEF Contexts!Next
<1> QED BY <1>2, <1>6, <1>7

-----------------------------------------------------------------------------
(* The steps. *)
LEMMA Views ==
  ASSUME NEW r, Tracked(r)
  PROVE  /\ r.pc \in Unanswered => View(r) = "none"
         /\ r.pc \in InUse => View(r) = "open"
         /\ r.pc \in Cleaning => View(r) = IF r.cleanups = 0 THEN "open" ELSE "cleaned"
<1>1. CASE r.pc \in Unanswered
  <2>1. ~r.opened /\ ~(r.closes > 1) /\ r.closes # 1 /\ ~(r.cleanups > 0)
    BY <1>1 DEF Tracked
  <2> QED BY <1>1, <2>1 DEF View, Unanswered, InUse, Cleaning
<1>2. CASE r.pc \in InUse
  <2>1. r.opened /\ ~(r.closes > 1) /\ r.closes # 1 /\ ~(r.cleanups > 0)
    BY <1>2 DEF Tracked
  <2> QED BY <1>2, <2>1 DEF View, Unanswered, InUse, Cleaning
<1>3. CASE r.pc \in Cleaning
  <2>1. r.opened /\ ~(r.closes > 1) /\ r.closes # 1 /\ (r.cleanups > 0 <=> r.cleanups # 0)
    BY <1>3 DEF Tracked
  <2> QED BY <1>3, <2>1 DEF View, Unanswered, InUse, Cleaning
<1> QED BY <1>1, <1>2, <1>3

LEMMA OnwardStep ==
  ASSUME IInv, NEW f \in Files, NEW r, Onward(f, r)
  PROVE  IInv' /\ [Contexts!Next]_context
<1>1. Tracked(file[f])
  BY DEF IInv
<1>2. Tracked(r)
  BY <1>1 DEF Onward, Tracked, Unanswered, InUse, Cleaning
<1>3. Returned(r)
  BY DEF Onward, Returned, Unanswered, InUse, Cleaning
<1>4. View(r) = View(file[f])
  BY <1>1, <1>2, Views DEF Onward
<1>5. Steps(f, r)
  BY <1>2, <1>3, <1>4 DEF Onward, Steps, Follows
<1> QED BY <1>5, StepInv

LEMMA EndStep ==
  ASSUME IInv, NEW f \in Files, NEW r, Ends(f, r)
  PROVE  IInv' /\ [Contexts!Next]_context
<1>1. Tracked(file[f])
  BY DEF IInv
<1>2. /\ DOMAIN Finished(f) = Fields /\ Finished(f).pc = "done"
      /\ Finished(f).opened = file[f].opened /\ Finished(f).closes = file[f].closes
      /\ Finished(f).cleanups = 0
  BY DEF Finished, NewFile, Fields
<1>3. CASE r = Finished(f) /\ file[f].pc \in Unanswered
  <2>1. r.pc = "done" /\ ~r.opened /\ r.closes = 0 /\ r.cleanups = 0
    BY <1>1, <1>2, <1>3 DEF Tracked
  <2>2. Tracked(r) /\ Returned(r)
    BY <1>2, <1>3, <2>1 DEF Tracked, Returned, Unanswered, InUse, Cleaning
  <2>3. View(r) = "none"
    <3>1. ~(r.closes > 1) /\ r.closes # 1 /\ ~(r.cleanups > 0)
      BY <2>1
    <3> QED BY <2>1, <3>1 DEF View
  <2> QED BY <1>1, <1>3, <2>2, <2>3, Views, StepInv DEF Ends, Steps, Follows
<1>4. CASE r = Finished(f) /\ file[f].pc \in InUse /\ stopped
  <2>1. r.pc = "done" /\ r.opened /\ r.closes = 0 /\ r.cleanups = 0
    BY <1>1, <1>2, <1>4 DEF Tracked
  <2>2. Tracked(r) /\ Returned(r)
    BY <1>2, <1>4, <2>1 DEF Tracked, Returned, Unanswered, InUse, Cleaning
  <2>3. View(r) = "open"
    <3>1. ~(r.closes > 1) /\ r.closes # 1 /\ ~(r.cleanups > 0)
      BY <2>1
    <3> QED BY <2>1, <3>1 DEF View
  <2> QED BY <1>1, <1>4, <2>2, <2>3, Views, StepInv DEF Ends, Steps, Follows
<1>5. CASE r = PostClose(Finished(f)) /\ file[f].pc \in InUse \cup Cleaning
  <2>1. file[f].opened /\ file[f].closes = 0
    BY <1>1, <1>5 DEF Tracked
  <2>2. /\ DOMAIN r = Fields /\ r.pc = "done" /\ r.opened = Finished(f).opened
        /\ r.closes = Finished(f).closes + 1 /\ r.cleanups = 0
    BY <1>2, <1>5 DEF PostClose, Fields
  <2>3. Tracked(r) /\ Returned(r)
    BY <1>2, <2>1, <2>2 DEF Tracked, Returned, Unanswered, InUse, Cleaning
  <2>4. View(r) = "closed"
    <3>1. ~(r.closes > 1) /\ r.closes = 1 /\ ~(r.cleanups > 0)
      BY <1>2, <2>1, <2>2
    <3> QED BY <1>2, <2>1, <2>2, <3>1 DEF View
  <2>5. View(file[f]) \in {"open", "cleaned"}
    BY <1>1, <1>5, Views
  <2> QED BY <1>5, <2>3, <2>4, <2>5, StepInv DEF Ends, Steps, Follows
<1> QED BY <1>3, <1>4, <1>5 DEF Ends

-----------------------------------------------------------------------------
(* The actions. *)
LEMMA AtStep ==
  ASSUME IInv, NEW f \in Files, NEW label, At(f, label), UNCHANGED stopped,
         \E stage \in {Unanswered, InUse, Cleaning} : file[f].pc \in stage /\ label \in stage
  PROVE  IInv' /\ [Contexts!Next]_context
<1>1. "pc" \in DOMAIN file[f]
  BY DEF IInv, Tracked, Fields
<1>2. Onward(f, [file[f] EXCEPT !.pc = label])
  BY <1>1 DEF At, Onward
<1> QED BY <1>2, OnwardStep

LEMMA BlankFile ==
  /\ \A x, m, n, o : Blank(Fresh(x, m, n, o))
  /\ \A x, m, n, o, g :
       Blank([Fresh(x, m, n, o) EXCEPT !.pc = "main", !.main = g])
  /\ \A r : Blank(r) => Tracked(r) /\ Returned(r) /\ View(r) = "none"
<1>1. ASSUME NEW x, NEW m, NEW n, NEW o
      PROVE  Blank(Fresh(x, m, n, o))
  BY DEF Blank, Fresh, NewFile, Fields, Unanswered
<1>2. ASSUME NEW x, NEW m, NEW n, NEW o, NEW g
      PROVE  Blank([Fresh(x, m, n, o) EXCEPT !.pc = "main", !.main = g])
  BY DEF Blank, Fresh, NewFile, Fields, Unanswered
<1>3. ASSUME NEW r, Blank(r) PROVE Tracked(r) /\ Returned(r) /\ View(r) = "none"
  <2>1. Tracked(r) /\ Returned(r)
    BY <1>3 DEF Blank, Tracked, Returned, Unanswered, InUse, Cleaning
  <2> QED BY <1>3, <2>1, Views DEF Blank
<1> QED BY <1>1, <1>2, <1>3

LEMMA IssueStep ==
  ASSUME IInv, NEW f \in Files, Issue(f)
  PROVE  IInv' /\ [Contexts!Next]_context
<1>1. PICK name \in Names, mode \in Modes, overwrite \in BOOLEAN :
        \/ IssueFile(f, name, mode, overwrite)
        \/ \E g \in Files : IssueStream(f, g, name, mode, overwrite)
  BY DEF Issue
<1>2. file[f].pc = "new" /\ UNCHANGED stopped
  BY DEF Issue
<1>3. \A g \in Files : file[g].pc = "new" => View(file[g]) = "none"
  BY Views DEF IInv, Unanswered
<1>4. CASE IssueFile(f, name, mode, overwrite)
  <2>1. PICK r : r = Fresh(name, mode, Min(Free), overwrite)
    OBVIOUS
  <2>2. file' = [file EXCEPT ![f] = r]
    BY <1>4, <2>1 DEF IssueFile
  <2>3. Tracked(r) /\ Returned(r) /\ View(r) = "none"
    BY <2>1, BlankFile
  <2>4. Steps(f, r)
    BY <1>2, <1>3, <2>2, <2>3 DEF Steps, Follows
  <2> QED BY <2>4, StepInv
<1>5. CASE \E g \in Files : IssueStream(f, g, name, mode, overwrite)
  <2>1. PICK g \in Files : IssueStream(f, g, name, mode, overwrite)
    BY <1>5
  <2>2. PICK n, k :
          file' = [file EXCEPT
                     ![f] = [Fresh(name, mode, n, overwrite) EXCEPT
                               !.pc = "main", !.main = g],
                     ![g] = Fresh(MainName(name), MainMode, k, FALSE)]
    BY <2>1 DEF IssueStream
  <2>3. g # f /\ file[g].pc = "new"
    BY <2>1 DEF IssueStream
  <2>4. PICK a, b : /\ a = [Fresh(name, mode, n, overwrite) EXCEPT !.pc = "main", !.main = g]
                    /\ b = Fresh(MainName(name), MainMode, k, FALSE)
    OBVIOUS
  <2>5. Blank(a) /\ Blank(b)
    BY <2>4, BlankFile
  <2>6. file' = [file EXCEPT ![f] = a, ![g] = b]
    BY <2>2, <2>4
  <2>7. /\ file'[f] = a /\ file'[g] = b
        /\ \A h \in Files \ {f, g} : file'[h] = file[h]
        /\ file' = [h \in Files |-> file'[h]]
    BY <2>3, <2>6 DEF IInv
  <2>8. \A h \in Files : Tracked(file'[h]) /\ Returned(file'[h]) /\ View(file'[h]) = View(file[h])
    BY <1>2, <1>3, <2>3, <2>5, <2>7, BlankFile DEF IInv
  <2>9. IInv'
    BY <1>2, <2>7, <2>8 DEF IInv, Returned
  <2>10. ASSUME NEW h \in Files
         PROVE  ContextOf(h) = View(file[h]) /\ ContextOf(h)' = View(file'[h])
    BY Zenon DEF ContextOf, View
  <2>11. UNCHANGED context
    BY <2>8, <2>10 DEF context
  <2> QED BY <2>9, <2>11
<1> QED BY <1>1, <1>4, <1>5

(* The file system answers, or the handle of the file object is closed.    *)
LEMMA AnsweredStep ==
  ASSUME IInv, NEW f \in Files, CreateAnswered(f)
  PROVE  IInv' /\ [Contexts!Next]_context
<1>1. Tracked(file[f]) /\ file[f].pc = "create"
  BY DEF IInv, CreateAnswered
<1>2. PICK r : r = [file[f] EXCEPT !.pc = "answered", !.opened = TRUE]
  OBVIOUS
<1>3. /\ DOMAIN r = Fields /\ r.pc = "answered" /\ r.opened = TRUE
      /\ r.closes = 0 /\ r.cleanups = 0
  BY <1>1, <1>2 DEF Tracked, Fields, Unanswered
<1>4. Tracked(r) /\ Returned(r)
  BY <1>3 DEF Tracked, Returned, Unanswered, InUse, Cleaning
<1>5. View(file[f]) = "none" /\ View(r) = "open"
  BY <1>1, <1>3, <1>4, Views DEF Unanswered, InUse
<1>6. Steps(f, r)
  BY <1>2, <1>4, <1>5 DEF CreateAnswered, Finish, Steps, Follows
<1> QED BY <1>6, StepInv

LEMMA CleanupStep ==
  ASSUME IInv, NEW f \in Files, Cleanup(f)
  PROVE  IInv' /\ [Contexts!Next]_context
<1>1. Tracked(file[f]) /\ file[f].pc = "open" /\ UNCHANGED stopped
  BY DEF IInv, Cleanup
<1>2. PICK deleted, count :
        /\ count \in {0, 1}
        /\ Finish(f, [file[f] EXCEPT !.pc = "cleanup", !.delete = deleted,
                                    !.cleanups = count])
  <2>1. PICK posted \in BOOLEAN :
          Finish(f, [file[f] EXCEPT !.pc = "cleanup", !.delete = FileNodeCleanup(f).delete,
                       !.cleanups = IF posted THEN 1 ELSE 0])
    BY DEF Cleanup
  <2>2. (IF posted THEN 1 ELSE 0) \in {0, 1}
    OBVIOUS
  <2> QED BY <2>1, <2>2
<1>3. PICK r : r = [file[f] EXCEPT !.pc = "cleanup", !.delete = deleted, !.cleanups = count]
  OBVIOUS
<1>4. /\ DOMAIN r = Fields /\ r.pc = "cleanup" /\ r.opened = file[f].opened
      /\ r.closes = file[f].closes /\ r.cleanups = count
  BY <1>1, <1>3 DEF Tracked, Fields
<1>5. file[f].opened /\ file[f].closes = 0
  BY <1>1 DEF Tracked, InUse
<1>6. Tracked(r) /\ Returned(r)
  BY <1>2, <1>4, <1>5 DEF Tracked, Returned, Unanswered, InUse, Cleaning
<1>7. View(file[f]) = "open" /\ View(r) \in {"open", "cleaned"}
  BY <1>1, <1>4, <1>6, Views DEF InUse, Cleaning
<1>8. Steps(f, r)
  BY <1>1, <1>2, <1>3, <1>6, <1>7 DEF Finish, Steps, Follows
<1> QED BY <1>8, StepInv

(* The rest of a Create.                                                   *)
LEMMA CreateStep ==
  ASSUME IInv, NEW f \in Files, MainReady(f) \/ CreateFails(f) \/ CreateComplete(f)
  PROVE  IInv' /\ [Contexts!Next]_context
<1>1. CASE MainReady(f)
  <2>1. CASE At(f, "create")
    BY <1>1, <2>1, AtStep DEF MainReady, Unanswered
  <2>2. CASE Finish(f, Finished(f))
    <3>1. Ends(f, Finished(f))
      BY <1>1, <2>2 DEF MainReady, Finish, Ends, Unanswered
    <3> QED BY <3>1, EndStep
  <2> QED BY <1>1, <2>1, <2>2 DEF MainReady
<1>2. CASE CreateFails(f)
  <2>1. Ends(f, Finished(f))
    BY <1>2 DEF CreateFails, Finish, Ends, Unanswered
  <2> QED BY <2>1, EndStep
<1>3. CASE CreateComplete(f)
  <2>0. DOMAIN file[f] = Fields
    BY DEF IInv, Tracked
  <2>1. file[f].pc \in {"answered", "again"} /\ UNCHANGED stopped
    BY <1>3 DEF CreateComplete
  <2>2. PICK v, label, next :
          /\ label \in {"violation", "refused"} /\ next \in {"overwrite", "tryopen"}
          /\ \/ Finish(f, PostClose(Finished(f)))
             \/ Finish(f, [file[f] EXCEPT !.extra = v.node, !.reason = v.reason, !.pc = label])
             \/ Finish(f, [file[f] EXCEPT !.node = v.node, !.pc = next])
    <3>1. PICK writable \in BOOLEAN, badName \in BOOLEAN :
            LET v == IF badName THEN Refused ELSE Verdict(f, writable)
                next == IF file[f].overwrite THEN "overwrite" ELSE "tryopen"
                label == IF file[f].pc = "answered" THEN "violation" ELSE "refused"
            IN \/ Finish(f, PostClose(Finished(f)))
               \/ Finish(f, [file[f] EXCEPT !.extra = v.node, !.reason = v.reason,
                                            !.pc = label])
               \/ Finish(f, [file[f] EXCEPT !.node = v.node, !.pc = next])
      <4>1. ASSUME NEW e, NEW why
            PROVE  [file[f] EXCEPT !.extra = e, !.reason = why,
                                   !.pc = IF @ = "answered" THEN "violation" ELSE "refused"]
                   = [file[f] EXCEPT !.extra = e, !.reason = why,
                        !.pc = IF file[f].pc = "answered" THEN "violation" ELSE "refused"]
        BY <2>0 DEF Fields
      <4>2. PICK writable \in BOOLEAN, badName \in BOOLEAN :
              LET v == IF badName THEN Refused ELSE Verdict(f, writable)
                  next == IF file[f].overwrite THEN "overwrite" ELSE "tryopen"
              IN \/ Finish(f, PostClose(Finished(f)))
                 \/ Finish(f, [file[f] EXCEPT !.extra = v.node, !.reason = v.reason,
                       !.pc = IF @ = "answered" THEN "violation" ELSE "refused"])
                 \/ Finish(f, [file[f] EXCEPT !.node = v.node, !.pc = next])
        BY <1>3 DEF CreateComplete
      <4> QED BY <4>1, <4>2, ZenonT(40) DEF Finish
    <3>2. (IF file[f].overwrite THEN "overwrite" ELSE "tryopen") \in {"overwrite", "tryopen"}
      BY Zenon
    <3>3. (IF file[f].pc = "answered" THEN "violation" ELSE "refused")
             \in {"violation", "refused"}
      BY Zenon
    <3> QED BY <3>1, <3>2, <3>3
  <2>3. CASE Finish(f, PostClose(Finished(f)))
    <3>1. Ends(f, PostClose(Finished(f)))
      BY <2>1, <2>3 DEF Finish, Ends, InUse
    <3> QED BY <3>1, EndStep
  <2>4. CASE Finish(f, [file[f] EXCEPT !.extra = v.node, !.reason = v.reason, !.pc = label])
    <3>1. Onward(f, [file[f] EXCEPT !.extra = v.node, !.reason = v.reason, !.pc = label])
      BY <2>0, <2>1, <2>2, <2>4 DEF Finish, Onward, InUse, Fields
    <3> QED BY <3>1, OnwardStep
  <2>5. CASE Finish(f, [file[f] EXCEPT !.node = v.node, !.pc = next])
    <3>1. Onward(f, [file[f] EXCEPT !.node = v.node, !.pc = next])
      BY <2>0, <2>1, <2>2, <2>5 DEF Finish, Onward, InUse, Fields
    <3> QED BY <3>1, OnwardStep
  <2> QED BY <2>2, <2>3, <2>4, <2>5
<1> QED BY <1>1, <1>2, <1>3

(* Steps of a Create that user mode has answered.                          *)
LEMMA AnsweredOnward ==
  ASSUME IInv, NEW f \in Files,
         \/ ViolationFails(f) \/ ViolationWaits(f) \/ ViolationBroken(f)
         \/ TryOpen(f) \/ TryOpenFails(f) \/ Park(f)
         \/ OverwriteStart(f) \/ OverwriteFails(f) \/ OverwriteDone(f) \/ OverwriteRefused(f)
  PROVE  IInv' /\ [Contexts!Next]_context
<1>1. CASE ViolationFails(f) \/ TryOpenFails(f) \/ OverwriteFails(f) \/ OverwriteRefused(f)
  <2>1. Ends(f, PostClose(Finished(f)))
    BY <1>1
    DEF ViolationFails, TryOpenFails, OverwriteFails, OverwriteRefused, MayTry, Finish, Ends,
        InUse
  <2> QED BY <2>1, EndStep
<1>2. CASE ViolationWaits(f)
  BY <1>2, AtStep DEF ViolationWaits, InUse
<1>3. CASE ViolationBroken(f)
  <2>1. Onward(f, [file[f] EXCEPT !.pc = "again", !.extra = None, !.reason = None])
    BY <1>3 DEF IInv, Tracked, ViolationBroken, Finish, Onward, InUse, Fields
  <2> QED BY <2>1, OnwardStep
<1>4. CASE TryOpen(f)
  BY <1>4, AtStep DEF TryOpen, MayTry, InUse
<1>5. CASE Park(f)
  BY <1>5, AtStep DEF Park, InUse
<1>6. CASE OverwriteStart(f)
  BY <1>6, AtStep DEF OverwriteStart, InUse
<1>7. CASE OverwriteDone(f)
  BY <1>7, AtStep DEF OverwriteDone, InUse
<1> QED BY <1>1, <1>2, <1>3, <1>4, <1>5, <1>6, <1>7

(* Requests of an open file, and its end.                                  *)
LEMMA OpenStep ==
  ASSUME IInv, NEW f \in Files,
         \/ Dispose(f) \/ DisposeDone(f) \/ SetInformationFails(f)
         \/ Rename(f) \/ RenameDone(f) \/ CleanupDone(f) \/ Close(f)
  PROVE  IInv' /\ [Contexts!Next]_context
<1>0. DOMAIN file[f] = Fields
  BY DEF IInv, Tracked
<1>1. CASE Dispose(f)
  BY <1>1, AtStep DEF Dispose, InUse
<1>2. CASE DisposeDone(f)
  <2>1. PICK delete \in BOOLEAN, posix \in BOOLEAN :
          Finish(f, [file[f] EXCEPT !.pc = "open", !.posix = delete /\ (@ \/ posix)])
    BY <1>2 DEF DisposeDone
  <2>2. PICK b : Finish(f, [file[f] EXCEPT !.pc = "open", !.posix = b])
    BY <1>0, <2>1 DEF Fields
  <2>3. Onward(f, [file[f] EXCEPT !.pc = "open", !.posix = b])
    BY <1>0, <1>2, <2>2 DEF DisposeDone, Finish, Onward, InUse, Fields
  <2> QED BY <2>3, OnwardStep
<1>3. CASE SetInformationFails(f) \/ RenameDone(f)
  <2>1. Onward(f, [file[f] EXCEPT !.pc = "open", !.to = None])
    BY <1>0, <1>3 DEF SetInformationFails, RenameDone, Finish, Onward, InUse, Fields
  <2> QED BY <2>1, OnwardStep
<1>4. CASE Rename(f)
  <2>1. PICK to : file' = [file EXCEPT ![f].pc = "rename", ![f].to = to]
    BY <1>4 DEF Rename
  <2>2. file' = [file EXCEPT ![f] = [file[f] EXCEPT !.pc = "rename", !.to = to]]
    BY <2>1
  <2>3. Onward(f, [file[f] EXCEPT !.pc = "rename", !.to = to])
    BY <1>0, <1>4, <2>2 DEF Rename, Onward, InUse, Fields
  <2> QED BY <2>3, OnwardStep
<1>5. CASE CleanupDone(f)
  <2>1. Onward(f, [file[f] EXCEPT !.pc = "cleaned", !.delete = FALSE, !.posix = FALSE])
    BY <1>0, <1>5 DEF CleanupDone, Finish, Onward, Cleaning, Fields
  <2> QED BY <2>1, OnwardStep
<1>6. CASE Close(f)
  <2>1. Ends(f, PostClose(Finished(f)))
    BY <1>6 DEF Close, Finish, Ends, Cleaning
  <2> QED BY <2>1, EndStep
<1> QED BY <1>1, <1>2, <1>3, <1>4, <1>5, <1>6

LEMMA CancelStep ==
  ASSUME IInv, NEW f \in Files, CancelCreate(f) \/ CancelTryOpen(f) \/ CancelOverwrite(f)
  PROVE  IInv' /\ [Contexts!Next]_context
<1>1. Ends(f, Finished(f)) \/ Ends(f, PostClose(Finished(f)))
  BY DEF CancelCreate, CancelTryOpen, CancelOverwrite, Finish, Ends, Unanswered, InUse
<1> QED BY <1>1, EndStep

LEMMA NextStep == IInv /\ [Next]_vars => IInv' /\ [Contexts!Next]_context
<1> SUFFICES ASSUME IInv, [Next]_vars PROVE IInv' /\ [Contexts!Next]_context
  OBVIOUS
<1>1. CASE UNCHANGED vars
  BY <1>1 DEF vars, IInv, Returned, context, ContextOf
<1>2. CASE Stop
  BY <1>2 DEF Stop, IInv, Returned, context, ContextOf
<1>3. CASE Next /\ ~Stop
  BY <1>3, IssueStep, CreateStep, AnsweredStep, AnsweredOnward, OpenStep, CleanupStep, CancelStep
  DEF Next
<1> QED BY <1>1, <1>2, <1>3

LEMMA Inductive == Spec => []IInv
BY InitInv, NextStep, PTL DEF Spec

-----------------------------------------------------------------------------
(* Results. *)

(* The driver uses contexts as it promises to the file system: a context   *)
(* is opened once, cleaned up and closed at most once, in this order, and  *)
(* not used in between by a Create that failed (FSP_FILE_SYSTEM_INTERFACE  *)
(* in winfsp.h; FspFsvolCreatePostClose, FspFsvolCleanup, FspFsvolClose).  *)
THEOREM ContextsUsedInOrder == Spec => ImplementsContexts
<1>1. IInv /\ [Next]_vars => [Contexts!Next]_context
  BY NextStep
<1>2. Init => Contexts!Init
  BY InitInv
<1> QED BY <1>1, <1>2, Inductive, PTL DEF Spec, ImplementsContexts, Contexts!Spec, context

(* Every context that was opened has been closed when its file object is   *)
(* gone, whichever way its Create failed; unless the volume is stopped.    *)
THEOREM NoContextLeft == Spec => []ContextsReturned
<1>1. IInv => ContextsReturned
  BY DEF IInv, Returned, ContextsReturned
<1> QED BY <1>1, Inductive, PTL

-----------------------------------------------------------------------------
(* Counting. *)
LEMMA CountIs ==
  ASSUME NEW S, IsFiniteSet(S), NEW A, A \subseteq S
  PROVE  /\ IsFiniteSet(A) /\ Cardinality(A) \in Nat
         /\ Cardinality(A) = 0 <=> A = {}
<1>1. IsFiniteSet(A)
  BY FS_Subset
<1> QED BY <1>1, FS_CardinalityType, FS_EmptySet

LEMMA CountStep ==
  ASSUME NEW S, IsFiniteSet(S), NEW A, NEW B, A \subseteq S, B \subseteq S, NEW x,
         \A y \in S : y # x => (y \in A <=> y \in B)
  PROVE  /\ Cardinality(A) \in Nat /\ Cardinality(B) \in Nat
         /\ Cardinality(B) = Cardinality(A) + Indicator(x \in B) - Indicator(x \in A)
<1> DEFINE C == A \ {x}
<1>1. IsFiniteSet(A) /\ IsFiniteSet(B) /\ Cardinality(A) \in Nat /\ Cardinality(B) \in Nat
  BY CountIs
<1>2. IsFiniteSet(C) /\ Cardinality(C) \in Nat
      /\ Cardinality(C) = IF x \in A THEN Cardinality(A) - 1 ELSE Cardinality(A)
  BY <1>1, FS_RemoveElement, FS_CardinalityType
<1>3. C = B \ {x}
  OBVIOUS
<1>4. Cardinality(C) = IF x \in B THEN Cardinality(B) - 1 ELSE Cardinality(B)
  BY <1>1, <1>3, FS_RemoveElement
<1> HIDE DEF C
<1> QED BY <1>1, <1>2, <1>4 DEF Indicator

LEMMA NamesFinite == IsFiniteSet(Names)
<1>1. IsFiniteSet(Streams \cup {NoStream})
  BY FileNodeAssumption, FS_AddElement
<1> QED BY <1>1, FileNodeAssumption, FS_Product DEF Names

(* The holders of a node are finitely many.                                *)
LEMMA HoldersCounted ==
  ASSUME NEW F, NEW N, NEW T, NEW n
  PROVE  /\ Cardinality(FilesAt(F, n)) \in Nat /\ Cardinality(ExtrasAt(F, n)) \in Nat
         /\ Cardinality(NamesAt(T, n)) \in Nat /\ Cardinality(StreamsAt(N, n)) \in Nat
         /\ Cardinality(FilesAt(F, n)) = 0 <=> FilesAt(F, n) = {}
         /\ Cardinality(ExtrasAt(F, n)) = 0 <=> ExtrasAt(F, n) = {}
         /\ Cardinality(NamesAt(T, n)) = 0 <=> NamesAt(T, n) = {}
         /\ Cardinality(StreamsAt(N, n)) = 0 <=> StreamsAt(N, n) = {}
<1>1. /\ FilesAt(F, n) \subseteq Files /\ ExtrasAt(F, n) \subseteq Files
      /\ NamesAt(T, n) \subseteq Names /\ StreamsAt(N, n) \subseteq Nodes
  BY DEF FilesAt, ExtrasAt, NamesAt, StreamsAt
<1> QED BY <1>1, CountIs, NamesFinite, FileNodeAssumption

LEMMA UsersCounted ==
  ASSUME NEW F, NEW N, NEW n
  PROVE  /\ Cardinality(UsersAt(F, n)) \in Nat /\ Cardinality(HandlesAt(F, n)) \in Nat
         /\ Cardinality(DeletersAt(F, n)) \in Nat /\ Cardinality(DeniersAt(N, F, n)) \in Nat
         /\ Cardinality(UsersAt(F, n)) = 0 <=> UsersAt(F, n) = {}
         /\ Cardinality(HandlesAt(F, n)) = 0 <=> HandlesAt(F, n) = {}
         /\ Cardinality(DeletersAt(F, n)) = 0 <=> DeletersAt(F, n) = {}
         /\ Cardinality(DeniersAt(N, F, n)) = 0 <=> DeniersAt(N, F, n) = {}
<1>1. /\ UsersAt(F, n) \subseteq Files /\ HandlesAt(F, n) \subseteq Files
      /\ DeletersAt(F, n) \subseteq Files /\ DeniersAt(N, F, n) \subseteq Files
  BY DEF UsersAt, HandlesAt, DeletersAt, DeniersAt
<1> QED BY <1>1, CountIs, FileNodeAssumption

-----------------------------------------------------------------------------
(* One reference less. *)
LEMMA DereferenceIs ==
  ASSUME NEW N, NodesOK(N), NEW T, NEW n \in Nodes, N[n].refs # 0
  PROVE  Dereference([node |-> N, table |-> T], n) = [node |-> Lowered(N, n), table |-> T]
<1> DEFINE s == [node |-> N, table |-> T]
<1>1. s.node = N /\ s.table = T
  OBVIOUS
<1>2. ASSUME NEW k \in Nodes
      PROVE  Lost(s, {n}, k) = IF Loses(N, n, k) THEN 1 ELSE 0
  <2> DEFINE A == {n} \cap {k}
             B == {d \in {n} : s.node[d].refs = 1 /\ s.node[d].main = k}
  <2>1. Cardinality(A) = IF k = n THEN 1 ELSE 0
    <3>1. A = IF k = n THEN {n} ELSE {}
      OBVIOUS
    <3>2. Cardinality({}) = 0
      BY FS_EmptySet
    <3>3. Cardinality({n}) = 1
      BY FS_Singleton
    <3> HIDE DEF A
    <3> QED BY <3>1, <3>2, <3>3
  <2>2. Cardinality(B) = IF k = N[n].main /\ N[n].refs = 1 THEN 1 ELSE 0
    <3>1. B = IF k = N[n].main /\ N[n].refs = 1 THEN {n} ELSE {}
      BY <1>1
    <3>2. Cardinality({}) = 0
      BY FS_EmptySet
    <3>3. Cardinality({n}) = 1
      BY FS_Singleton
    <3> HIDE DEF B
    <3> QED BY <3>1, <3>2, <3>3
  <2>3. ~(k = n /\ k = N[n].main)
    BY FileNodeAssumption DEF NodesOK
  <2>4. Lost(s, {n}, k) = Cardinality(A) + Cardinality(B)
    BY DEF Lost
  <2> HIDE DEF A, B
  <2> QED BY <2>1, <2>2, <2>3, <2>4 DEF Loses
<1> DEFINE after(k, lost) == CASE lost = 0 -> s.node[k]
                               [] lost > 0 /\ lost = s.node[k].refs -> FreeNode
                               [] OTHER -> [s.node[k] EXCEPT !.refs = @ - lost]
<1>3. ASSUME NEW k \in Nodes
      PROVE  after(k, Lost(s, {n}, k)) = IF Loses(N, n, k) THEN Less(N[k]) ELSE N[k]
  <2>1. N[k].refs \in Int
    BY DEF NodesOK, NodeType
  <2>2. /\ after(k, 0) = N[k]
        /\ after(k, 1) = Less(N[k])
    BY <1>1, <2>1 DEF Less
  <2> HIDE DEF s, after
  <2> QED BY <1>2, <2>2
<1>4. DereferenceAll(s, {n}) = [s EXCEPT !.node = [k \in Nodes |-> after(k, Lost(s, {n}, k))]]
  BY DEF DereferenceAll
<1>5. [k \in Nodes |-> after(k, Lost(s, {n}, k))] = Lowered(N, n)
  <2> HIDE DEF s, after
  <2> QED BY <1>3 DEF Lowered
<1> HIDE DEF after
<1>6. DereferenceAll(s, {n}) = [s EXCEPT !.node = Lowered(N, n)]
  BY <1>4, <1>5
<1> QED BY <1>6 DEF Dereference

LEMMA DereferenceAllIs ==
  ASSUME NEW N, N \in [Nodes -> NodeType], NEW T, NEW D, D \subseteq Nodes,
         \A d \in D : N[d].refs # 1 /\ N[d].refs # 0
  PROVE  DereferenceAll([node |-> N, table |-> T], D)
         = [node |-> [k \in Nodes |-> IF k \in D THEN [N[k] EXCEPT !.refs = @ - 1] ELSE N[k]],
            table |-> T]
<1> DEFINE s == [node |-> N, table |-> T]
           after(k, lost) == CASE lost = 0 -> s.node[k]
                               [] lost > 0 /\ lost = s.node[k].refs -> FreeNode
                               [] OTHER -> [s.node[k] EXCEPT !.refs = @ - lost]
           less(k) == IF k \in D THEN [N[k] EXCEPT !.refs = @ - 1] ELSE N[k]
<1>1. s.node = N /\ s.table = T
  OBVIOUS
<1>2. ASSUME NEW k \in Nodes
      PROVE  Lost(s, D, k) = IF k \in D THEN 1 ELSE 0
  <2>1. {d \in D : s.node[d].refs = 1 /\ s.node[d].main = k} = {}
    BY <1>1
  <2>2. D \cap {k} = IF k \in D THEN {k} ELSE {}
    OBVIOUS
  <2>3. Cardinality({}) = 0
    BY FS_EmptySet
  <2>4. Cardinality({k}) = 1
    BY FS_Singleton
  <2>5. Lost(s, D, k) = Cardinality(D \cap {k}) + Cardinality({})
    BY <2>1 DEF Lost
  <2> HIDE DEF s
  <2> QED BY <2>2, <2>3, <2>4, <2>5
<1>3. ASSUME NEW k \in Nodes
      PROVE  after(k, Lost(s, D, k)) = less(k)
  <2>1. after(k, 0) = N[k] /\ (k \in D => after(k, 1) = less(k))
    BY <1>1
  <2>2. k \notin D => less(k) = N[k]
    OBVIOUS
  <2> HIDE DEF s, after, less
  <2> QED BY <1>2, <2>1, <2>2
<1>4. DereferenceAll(s, D) = [s EXCEPT !.node = [k \in Nodes |-> after(k, Lost(s, D, k))]]
  BY DEF DereferenceAll
<1>5. [k \in Nodes |-> after(k, Lost(s, D, k))] = [k \in Nodes |-> less(k)]
  <2> HIDE DEF s, after, less
  <2> QED BY <1>3
<1> HIDE DEF after
<1>6. DereferenceAll(s, D) = [s EXCEPT !.node = [k \in Nodes |-> less(k)]]
  BY <1>4, <1>5
<1> QED BY <1>6

LEMMA FreeNodeIs ==
  /\ FreeNode \in NodeType
  /\ FreeNode.name = None /\ FreeNode.main = None /\ FreeNode.refs = 0
  /\ FreeNode.active = 0 /\ FreeNode.open = 0 /\ FreeNode.handles = 0
  /\ FreeNode.denyDelete = 0 /\ FreeNode.denyStream = 0 /\ FreeNode.share = {}
  /\ FreeNode.pending = FALSE /\ FreeNode.posix = FALSE
BY DEF FreeNode, NodeType

(* The last reference of a node, or of its main file, goes when nothing    *)
(* holds the one or the other any longer.                                  *)
LEMMA LoweredIs ==
  ASSUME NEW N, NEW T, NEW F, NEW owed, NEW n \in Nodes,
         NodesOK(N), Refs(N, T, F, owed), owed \in [Nodes -> Nat], owed[n] > 0
  PROVE  /\ N[n].refs \in Int /\ N[n].refs > 0
         /\ Lowered(N, n) \in [Nodes -> NodeType]
         /\ \A k \in Nodes : StreamsAt(Lowered(N, n), k) =
              IF N[n].refs = 1 /\ k = N[n].main THEN StreamsAt(N, k) \ {n}
                                                ELSE StreamsAt(N, k)
         /\ \A k \in Nodes :
              \/ /\ Loses(N, n, k) /\ N[k].refs = 1
                 /\ Lowered(N, n)[k] = FreeNode
                 /\ Unheld(Lowered(N, n), T, F, k)
              \/ /\ Same(Lowered(N, n)[k], N[k])
                 /\ Lowered(N, n)[k].refs = N[k].refs - (IF Loses(N, n, k) THEN 1 ELSE 0)
                 /\ ~(Loses(N, n, k) /\ N[k].refs = 1)
<1> DEFINE L == Lowered(N, n)
<1>0. \A k \in Nodes : N[k] \in NodeType /\ N[k].refs \in Int /\ owed[k] \in Nat
  BY DEF NodesOK, NodeType
<1>1. \A k \in Nodes : L[k] = IF Loses(N, n, k) THEN Less(N[k]) ELSE N[k]
  BY DEF Lowered
<1>2. \A k \in Nodes : Less(N[k]) \in NodeType
  BY <1>0, FreeNodeIs DEF Less, NodeType
<1>3. L \in [Nodes -> NodeType]
  BY <1>0, <1>2 DEF Lowered
<1>4. N[n].refs > 0
  BY <1>0, HoldersCounted DEF Refs
<1>5. \A k \in Nodes : N[k].refs # 1 => Same(Less(N[k]), N[k]) /\ Less(N[k]).refs = N[k].refs - 1
  BY <1>0 DEF Less, NodeType, Same
<1>6. \A k \in Nodes : N[k].refs = 1 => Less(N[k]) = FreeNode
  BY DEF Less
<1>7. N[n].refs = 1 => /\ FilesAt(F, n) = {} /\ ExtrasAt(F, n) = {}
                       /\ NamesAt(T, n) = {} /\ StreamsAt(N, n) = {}
  BY <1>0, HoldersCounted DEF Refs
<1>8. ASSUME N[n].refs = 1, NEW m \in Nodes, m = N[n].main, N[m].refs = 1
      PROVE  FilesAt(F, m) = {} /\ ExtrasAt(F, m) = {} /\ NamesAt(T, m) = {}
             /\ StreamsAt(N, m) = {n}
  <2>1. n \in StreamsAt(N, m)
    BY <1>8 DEF StreamsAt
  <2>2. Cardinality(StreamsAt(N, m)) # 0 /\ Cardinality(StreamsAt(N, m)) \in Nat
    BY <2>1, HoldersCounted
  <2>3. /\ Cardinality(FilesAt(F, m)) = 0 /\ Cardinality(ExtrasAt(F, m)) = 0
        /\ Cardinality(NamesAt(T, m)) = 0 /\ Cardinality(StreamsAt(N, m)) = 1
    BY <1>0, <1>8, <2>2, HoldersCounted DEF Refs
  <2>4. IsFiniteSet(StreamsAt(N, m))
    BY CountIs, FileNodeAssumption DEF StreamsAt
  <2>5. PICK x : StreamsAt(N, m) = {x}
    BY <2>3, <2>4, FS_Singleton
  <2> QED BY <2>1, <2>3, <2>5, HoldersCounted
<1>9. ASSUME NEW k \in Nodes
      PROVE  StreamsAt(L, k) = IF N[n].refs = 1 /\ k = N[n].main THEN StreamsAt(N, k) \ {n}
                                                                 ELSE StreamsAt(N, k)
  <2>1. k # None
    BY FileNodeAssumption
  <2>2. \A j \in Nodes : L[j].main = IF j = n /\ N[n].refs = 1 THEN None ELSE N[j].main
    <3> SUFFICES ASSUME NEW j \in Nodes
                 PROVE  L[j].main = IF j = n /\ N[n].refs = 1 THEN None ELSE N[j].main
      OBVIOUS
    <3>1. CASE ~Loses(N, n, j)
      BY <1>1, <3>1 DEF Loses
    <3>2. CASE Loses(N, n, j) /\ N[j].refs # 1
      BY <1>1, <1>5, <3>2 DEF Same
    <3>3. CASE Loses(N, n, j) /\ N[j].refs = 1 /\ j = n
      BY <1>1, <1>6, <3>3, FreeNodeIs
    <3>4. CASE Loses(N, n, j) /\ N[j].refs = 1 /\ j # n
      <4>1. j = N[n].main /\ j # None
        BY <3>4, FileNodeAssumption DEF Loses
      <4>2. N[j].main = None
        BY <4>1 DEF NodesOK
      <4> QED BY <1>1, <1>6, <3>4, <4>2, FreeNodeIs
    <3> QED BY <3>1, <3>2, <3>3, <3>4
  <2> HIDE DEF L
  <2> QED BY <2>1, <2>2 DEF StreamsAt
<1>10. ASSUME NEW k \in Nodes, Loses(N, n, k), N[k].refs = 1
       PROVE  Unheld(L, T, F, k)
  <2>1. CASE k = n
    <3>1. StreamsAt(L, n) \subseteq StreamsAt(N, n)
      BY <1>9
    <3> QED BY <1>7, <1>10, <2>1, <3>1 DEF Unheld
  <2>2. CASE k # n
    BY <1>8, <1>9, <1>10, <2>2 DEF Loses, Unheld
  <2> QED BY <2>1, <2>2
<1>11. ASSUME NEW k \in Nodes
       PROVE  \/ /\ Loses(N, n, k) /\ N[k].refs = 1
                 /\ L[k] = FreeNode
                 /\ Unheld(L, T, F, k)
              \/ /\ Same(L[k], N[k])
                 /\ L[k].refs = N[k].refs - (IF Loses(N, n, k) THEN 1 ELSE 0)
                 /\ ~(Loses(N, n, k) /\ N[k].refs = 1)
  <2>1. CASE Loses(N, n, k) /\ N[k].refs = 1
    BY <1>1, <1>6, <1>10, <2>1
  <2>2. CASE Loses(N, n, k) /\ N[k].refs # 1
    BY <1>1, <1>5, <2>2
  <2>3. CASE ~Loses(N, n, k)
    BY <1>0, <1>1, <2>3 DEF Same
  <2> QED BY <2>1, <2>2, <2>3
<1> QED BY <1>0, <1>3, <1>4, <1>9, <1>11

LEMMA UnheldUnused ==
  ASSUME NEW N, NEW T, NEW F, NEW n \in Nodes, Unheld(N, T, F, n)
  PROVE  /\ Cardinality(FilesAt(F, n)) = 0 /\ Cardinality(ExtrasAt(F, n)) = 0
         /\ Cardinality(NamesAt(T, n)) = 0 /\ Cardinality(StreamsAt(N, n)) = 0
         /\ Cardinality(UsersAt(F, n)) = 0 /\ Cardinality(HandlesAt(F, n)) = 0
         /\ Cardinality(DeletersAt(F, n)) = 0 /\ Cardinality(DeniersAt(N, F, n)) = 0
         /\ SharersAt(F, n) = {}
<1>1. UsersAt(F, n) = {} /\ HandlesAt(F, n) = {}
  BY DEF Unheld, FilesAt, UsersAt, HandlesAt
<1>2. DeletersAt(F, n) = {} /\ SharersAt(F, n) = {}
  BY <1>1 DEF DeletersAt, SharersAt
<1>3. DeniersAt(N, F, n) = {}
  BY DEF Unheld, StreamsAt, DeniersAt
<1> QED BY <1>1, <1>2, <1>3, UsersCounted, HoldersCounted DEF Unheld

(* FspFileNodeDereference when a reference is owed.                        *)
LEMMA DereferenceKeeps ==
  ASSUME NEW N, NEW T, NEW F, NEW owed, NEW n \in Nodes,
         Acc(N, T, F, owed), owed \in [Nodes -> Nat], owed[n] > 0
  PROVE  /\ Dereference([node |-> N, table |-> T], n) = [node |-> Lowered(N, n), table |-> T]
         /\ Acc(Lowered(N, n), T, F, [owed EXCEPT ![n] = @ - 1])
         /\ Own(N, T, F) => Own(Lowered(N, n), T, F)
         /\ Named(N, F) => Named(Lowered(N, n), F)
         /\ N[n].refs > 0
         /\ \A k \in Nodes :
              \/ Lowered(N, n)[k] = FreeNode /\ Unheld(Lowered(N, n), T, F, k)
              \/ Same(Lowered(N, n)[k], N[k])
<1>1. PICK L : L = Lowered(N, n)
  OBVIOUS
<1>2. NodesOK(N) /\ Refs(N, T, F, owed) /\ Uses(N, F) /\ One(N, T) /\ FilesOK(F)
  BY DEF Acc
<1>3. /\ N[n].refs \in Int /\ N[n].refs > 0
      /\ L \in [Nodes -> NodeType]
      /\ \A k \in Nodes : StreamsAt(L, k) =
           IF N[n].refs = 1 /\ k = N[n].main THEN StreamsAt(N, k) \ {n} ELSE StreamsAt(N, k)
      /\ \A k \in Nodes :
           \/ /\ Loses(N, n, k) /\ N[k].refs = 1
              /\ L[k] = FreeNode
              /\ Unheld(L, T, F, k)
           \/ /\ Same(L[k], N[k])
              /\ L[k].refs = N[k].refs - (IF Loses(N, n, k) THEN 1 ELSE 0)
              /\ ~(Loses(N, n, k) /\ N[k].refs = 1)
  BY <1>1, <1>2, LoweredIs
<1>4. \A k \in Nodes : N[k] \in NodeType /\ N[k].refs \in Int /\ owed[k] \in Nat
  BY <1>2 DEF NodesOK, NodeType
<1> DEFINE o == [owed EXCEPT ![n] = @ - 1]
<1>5. Refs(L, T, F, o)
  <2> SUFFICES ASSUME NEW k \in Nodes
               PROVE  L[k].refs = Cardinality(FilesAt(F, k)) + Cardinality(ExtrasAt(F, k))
                        + Cardinality(NamesAt(T, k)) + Cardinality(StreamsAt(L, k)) + o[k]
    BY DEF Refs
  <2>1. Cardinality(StreamsAt(L, k)) =
          Cardinality(StreamsAt(N, k)) - Indicator(N[n].refs = 1 /\ k = N[n].main)
    <3>1. CASE N[n].refs = 1 /\ k = N[n].main
      <4>1. n \in StreamsAt(N, k) /\ StreamsAt(N, k) \subseteq Nodes
        BY <3>1 DEF StreamsAt
      <4>2. IsFiniteSet(StreamsAt(N, k)) /\ Cardinality(StreamsAt(N, k)) \in Nat
        BY <4>1, CountIs, FileNodeAssumption
      <4>3. StreamsAt(L, k) = StreamsAt(N, k) \ {n}
        BY <1>3, <3>1
      <4>4. Cardinality(StreamsAt(N, k) \ {n}) = Cardinality(StreamsAt(N, k)) - 1
        BY <4>1, <4>2, FS_RemoveElement
      <4>5. Indicator(N[n].refs = 1 /\ k = N[n].main) = 1
        BY <3>1 DEF Indicator
      <4> QED BY <4>3, <4>4, <4>5
    <3>2. CASE ~(N[n].refs = 1 /\ k = N[n].main)
      <4>1. StreamsAt(L, k) = StreamsAt(N, k)
        BY <1>3, <3>2
      <4>2. Indicator(N[n].refs = 1 /\ k = N[n].main) = 0
        BY <3>2 DEF Indicator
      <4>3. Cardinality(StreamsAt(N, k)) \in Nat
        BY HoldersCounted
      <4> QED BY <4>1, <4>2, <4>3
    <3> QED BY <3>1, <3>2
  <2>2. o[k] = owed[k] - Indicator(k = n)
    BY <1>4 DEF Indicator
  <2>3. ~(k = n /\ k = N[n].main)
    BY <1>2, FileNodeAssumption DEF NodesOK
  <2>4. N[k].refs = Cardinality(FilesAt(F, k)) + Cardinality(ExtrasAt(F, k))
          + Cardinality(NamesAt(T, k)) + Cardinality(StreamsAt(N, k)) + owed[k]
    BY <1>2 DEF Refs
  <2>5. L[k].refs = N[k].refs - (IF Loses(N, n, k) THEN 1 ELSE 0)
    <3>1. FreeNode.refs = 0
      BY FreeNodeIs
    <3> QED BY <1>3, <1>4, <3>1
  <2>6. (IF Loses(N, n, k) THEN 1 ELSE 0)
        = Indicator(k = n) + Indicator(N[n].refs = 1 /\ k = N[n].main)
    BY <2>3 DEF Loses, Indicator
  <2>7. /\ Cardinality(FilesAt(F, k)) \in Nat /\ Cardinality(ExtrasAt(F, k)) \in Nat
        /\ Cardinality(NamesAt(T, k)) \in Nat /\ Cardinality(StreamsAt(N, k)) \in Nat
    BY HoldersCounted
  <2>8. Indicator(k = n) \in Int /\ Indicator(N[n].refs = 1 /\ k = N[n].main) \in Int
    BY DEF Indicator
  <2> HIDE DEF o
  <2> QED BY <1>4, <2>1, <2>2, <2>4, <2>5, <2>6, <2>7, <2>8
<1>6. ASSUME NEW k \in Nodes PROVE DeniersAt(L, F, k) = DeniersAt(N, F, k)
  <2>1. k # None
    BY FileNodeAssumption
  <2>2. ASSUME NEW j \in Nodes, FilesAt(F, j) # {} PROVE L[j].main = N[j].main
    BY <1>3, <2>2 DEF Unheld, Same
  <2>3. ASSUME NEW f \in Files, NEW j \in Nodes, F[f].node = j PROVE L[j].main = N[j].main
    BY <2>2, <2>3 DEF FilesAt
  <2> QED BY <2>3 DEF DeniersAt
<1>7. Uses(L, F)
  <2> SUFFICES ASSUME NEW k \in Nodes
               PROVE
       /\ L[k].active = Cardinality(UsersAt(F, k)) + Cardinality(ExtrasAt(F, k))
       /\ L[k].open \in {0, L[k].active}
       /\ L[k].handles = Cardinality(HandlesAt(F, k)) + Cardinality(ExtrasAt(F, k))
       /\ L[k].share = SharersAt(F, k)
       /\ L[k].denyDelete = IF L[k].main = None THEN Cardinality(DeletersAt(F, k)) ELSE 0
       /\ L[k].denyStream = Cardinality(DeniersAt(L, F, k))
    BY DEF Uses
  <2>1. CASE L[k] = FreeNode /\ Unheld(L, T, F, k)
    <3>1. /\ Cardinality(ExtrasAt(F, k)) = 0
          /\ Cardinality(UsersAt(F, k)) = 0 /\ Cardinality(HandlesAt(F, k)) = 0
          /\ Cardinality(DeletersAt(F, k)) = 0 /\ Cardinality(DeniersAt(L, F, k)) = 0
          /\ SharersAt(F, k) = {}
      BY <2>1, UnheldUnused
    <3> QED BY <2>1, <3>1, FreeNodeIs
  <2>2. CASE Same(L[k], N[k])
    BY <1>2, <1>6, <2>2 DEF Uses, Same
  <2> QED BY <1>3, <2>1, <2>2
<1>8. NodesOK(L)
  <2>1. ASSUME NEW k \in Nodes, L[k].refs = 0 PROVE L[k] = FreeNode
    <3>1. CASE Same(L[k], N[k]) /\ L[k].refs = N[k].refs - (IF Loses(N, n, k) THEN 1 ELSE 0)
               /\ ~(Loses(N, n, k) /\ N[k].refs = 1)
      <4>1. ~Loses(N, n, k) /\ N[k].refs = 0
        BY <1>4, <2>1, <3>1
      <4>2. L[k] = N[k]
        BY <1>1, <4>1 DEF Lowered
      <4> QED BY <1>2, <4>1, <4>2 DEF NodesOK
    <3> QED BY <1>3, <3>1
  <2>2. ASSUME NEW k \in Nodes, L[k].refs # 0 PROVE L[k].name \in Names
    <3>1. Same(L[k], N[k]) /\ L[k].refs = N[k].refs - (IF Loses(N, n, k) THEN 1 ELSE 0)
      BY <1>3, <2>2, FreeNodeIs
    <3>2. N[k].refs # 0
      <4>1. CASE k = n
        BY <1>3, <4>1
      <4>2. CASE k # n /\ Loses(N, n, k)
        <5>1. n \in StreamsAt(N, k)
          BY <4>2 DEF Loses, StreamsAt
        <5>2. Cardinality(StreamsAt(N, k)) # 0
          BY <5>1, HoldersCounted
        <5>3. /\ Cardinality(FilesAt(F, k)) \in Nat /\ Cardinality(ExtrasAt(F, k)) \in Nat
              /\ Cardinality(NamesAt(T, k)) \in Nat /\ Cardinality(StreamsAt(N, k)) \in Nat
          BY HoldersCounted
        <5>4. N[k].refs = Cardinality(FilesAt(F, k)) + Cardinality(ExtrasAt(F, k))
                + Cardinality(NamesAt(T, k)) + Cardinality(StreamsAt(N, k)) + owed[k]
          BY <1>2 DEF Refs
        <5>5. owed[k] \in Nat
          BY <1>4
        <5>6. \A a, b, c, d, e \in Nat : d # 0 => a + b + c + d + e # 0
          OBVIOUS
        <5> HIDE DEF o
        <5> QED BY <5>2, <5>3, <5>4, <5>5, <5>6
      <4>3. CASE ~Loses(N, n, k)
        BY <1>4, <2>2, <3>1, <4>3
      <4> QED BY <4>1, <4>2, <4>3
    <3> QED BY <1>2, <3>1, <3>2 DEF NodesOK, Same
  <2>3. ASSUME NEW k \in Nodes, L[k].main # None
        PROVE  IsStream(L[k].name) /\ L[L[k].main].main = None
    <3>1. Same(L[k], N[k])
      BY <1>3, <2>3, FreeNodeIs
    <3>2. PICK m : m = N[k].main
      OBVIOUS
    <3>3. L[k].main = m /\ m # None /\ L[k].name = N[k].name
      BY <2>3, <3>1, <3>2 DEF Same
    <3>4. m \in Nodes /\ IsStream(N[k].name) /\ N[m].main = None
      BY <1>2, <1>4, <3>2, <3>3 DEF NodesOK, NodeType
    <3>5. L[m].main = None
      BY <1>3, <3>4, FreeNodeIs DEF Same
    <3> QED BY <3>3, <3>4, <3>5
  <2> QED BY <1>3, <2>1, <2>2, <2>3 DEF NodesOK
<1>9. One(L, T)
  <2>1. T \in TableType
    BY <1>2 DEF One
  <2>2. ASSUME NEW k \in Nodes, L[k].open > 0 PROVE T[L[k].name] = k
    <3>1. Same(L[k], N[k])
      BY <1>3, <2>2, FreeNodeIs
    <3> QED BY <1>2, <2>2, <3>1 DEF One, Same
  <2>3. ASSUME NEW x \in Names, T[x] # None PROVE L[T[x]].name = x /\ L[T[x]].open > 0
    <3>1. PICK k : k = T[x]
      OBVIOUS
    <3>2. k \in Nodes /\ x \in NamesAt(T, k)
      BY <2>1, <2>3, <3>1 DEF TableType, NamesAt
    <3>3. Same(L[k], N[k])
      BY <1>3, <3>2 DEF Unheld
    <3> QED BY <1>2, <2>3, <3>1, <3>3 DEF One, Same
  <2> QED BY <2>1, <2>2, <2>3 DEF One
<1>10. Own(N, T, F) => Own(L, T, F)
  <2>1. \A k \in Nodes : L[k].main \in {None, N[k].main}
    BY <1>3, FreeNodeIs DEF Same
  <2>2. \A f \in Files : F[f].pc \in Private => F[f].node # None
    <3>1. \A f \in Files : FileOK(F[f])
      BY <1>2 DEF FilesOK
    <3>2. \A label \in Private : label \notin Ended
      BY DEF Private, Ended
    <3> QED BY <3>1, <3>2, FileNodeAssumption DEF FileOK
  <2> QED BY <2>1, <2>2 DEF Own
<1>11. Named(N, F) => Named(L, F)
  <2>1. ASSUME NEW f \in Files, NEW k \in Nodes, F[f].node = k PROVE L[k].name = N[k].name
    BY <1>3, <2>1 DEF Unheld, FilesAt, Same
  <2> QED BY <2>1 DEF Named
<1>12. Dereference([node |-> N, table |-> T], n) = [node |-> L, table |-> T]
  BY <1>1, <1>2, <1>3, DereferenceIs
<1> QED BY <1>1, <1>2, <1>3, <1>5, <1>7, <1>8, <1>9, <1>10, <1>11, <1>12 DEF Acc

LEMMA GainsAreIntegers ==
  \A N, T, U, q, r, n :
    /\ NodeGain(q, r, n) \in Int /\ ExtraGain(q, r, n) \in Int
    /\ HandleGain(q, r, n) \in Int /\ UserGain(q, r, n) \in Int
    /\ DeleterGain(q, r, n) \in Int /\ DenierGain(N, q, r, n) \in Int
    /\ NamesGain(T, U, n) \in Int
<1> SUFFICES ASSUME NEW N, NEW T, NEW U, NEW q, NEW r, NEW n
             PROVE  /\ NodeGain(q, r, n) \in Int /\ ExtraGain(q, r, n) \in Int
                    /\ HandleGain(q, r, n) \in Int /\ UserGain(q, r, n) \in Int
                    /\ DeleterGain(q, r, n) \in Int /\ DenierGain(N, q, r, n) \in Int
                    /\ NamesGain(T, U, n) \in Int
  BY Zenon
<1>1. NodeGain(q, r, n) \in Int /\ ExtraGain(q, r, n) \in Int
  BY DEF NodeGain, ExtraGain, Indicator
<1>2. HandleGain(q, r, n) \in Int
  BY DEF HandleGain, Indicator
<1>3. UserGain(q, r, n) \in Int
  BY DEF UserGain, Indicator
<1>4. DeleterGain(q, r, n) \in Int
  BY DEF DeleterGain, Indicator
<1>5. DenierGain(N, q, r, n) \in Int
  BY DEF DenierGain, Indicator
<1>6. NamesGain(T, U, n) \in Int
  BY HoldersCounted DEF NamesGain
<1> QED BY <1>1, <1>2, <1>3, <1>4, <1>5, <1>6

LEMMA FileMoves ==
  ASSUME NEW F, F \in [Files -> FileType], NEW f \in Files, NEW r, NEW n \in Nodes
  PROVE  /\ Cardinality(FilesAt(At1(F, f, r), n)) = Cardinality(FilesAt(F, n)) + NodeGain(F[f], r, n)
         /\ Cardinality(ExtrasAt(At1(F, f, r), n)) =
              Cardinality(ExtrasAt(F, n)) + ExtraGain(F[f], r, n)
         /\ Cardinality(HandlesAt(At1(F, f, r), n)) =
              Cardinality(HandlesAt(F, n)) + HandleGain(F[f], r, n)
         /\ Cardinality(UsersAt(At1(F, f, r), n)) =
              Cardinality(UsersAt(F, n)) + UserGain(F[f], r, n)
         /\ Cardinality(DeletersAt(At1(F, f, r), n)) =
              Cardinality(DeletersAt(F, n)) + DeleterGain(F[f], r, n)
         /\ SharersAt(At1(F, f, r), n) =
              IF r.node = n /\ r.pc \in HasHandle /\ HasAccess(r.mode)
                THEN SharersAt(F, n) \cup {f} ELSE SharersAt(F, n) \ {f}
<1>1. PICK G : G = At1(F, f, r)
  OBVIOUS
<1>2. G[f] = r /\ \A g \in Files : g # f => G[g] = F[g]
  BY <1>1 DEF At1
<1>3. IsFiniteSet(Files)
  BY FileNodeAssumption
<1>4. Cardinality(FilesAt(G, n)) = Cardinality(FilesAt(F, n)) + NodeGain(F[f], r, n)
  <2>1. /\ FilesAt(F, n) \subseteq Files /\ FilesAt(G, n) \subseteq Files
        /\ \A g \in Files : g # f => (g \in FilesAt(F, n) <=> g \in FilesAt(G, n))
        /\ f \in FilesAt(G, n) <=> r.node = n
        /\ f \in FilesAt(F, n) <=> F[f].node = n
    BY <1>2 DEF FilesAt
  <2>2. /\ Cardinality(FilesAt(F, n)) \in Nat
        /\ Cardinality(FilesAt(G, n)) = Cardinality(FilesAt(F, n))
          + Indicator(f \in FilesAt(G, n)) - Indicator(f \in FilesAt(F, n))
    BY <1>3, <2>1, CountStep
  <2> QED BY <2>1, <2>2 DEF Indicator, NodeGain
<1>5. Cardinality(ExtrasAt(G, n)) = Cardinality(ExtrasAt(F, n)) + ExtraGain(F[f], r, n)
  <2>1. /\ ExtrasAt(F, n) \subseteq Files /\ ExtrasAt(G, n) \subseteq Files
        /\ \A g \in Files : g # f => (g \in ExtrasAt(F, n) <=> g \in ExtrasAt(G, n))
        /\ f \in ExtrasAt(G, n) <=> r.extra = n
        /\ f \in ExtrasAt(F, n) <=> F[f].extra = n
    BY <1>2 DEF ExtrasAt
  <2>2. /\ Cardinality(ExtrasAt(F, n)) \in Nat
        /\ Cardinality(ExtrasAt(G, n)) = Cardinality(ExtrasAt(F, n))
          + Indicator(f \in ExtrasAt(G, n)) - Indicator(f \in ExtrasAt(F, n))
    BY <1>3, <2>1, CountStep
  <2> QED BY <2>1, <2>2 DEF Indicator, ExtraGain
<1>6. Cardinality(HandlesAt(G, n)) = Cardinality(HandlesAt(F, n)) + HandleGain(F[f], r, n)
  <2>1. /\ HandlesAt(F, n) \subseteq Files /\ HandlesAt(G, n) \subseteq Files
        /\ \A g \in Files : g # f => (g \in HandlesAt(F, n) <=> g \in HandlesAt(G, n))
        /\ f \in HandlesAt(G, n) <=> r.node = n /\ r.pc \in HasHandle
        /\ f \in HandlesAt(F, n) <=> F[f].node = n /\ F[f].pc \in HasHandle
    BY <1>2 DEF HandlesAt
  <2>2. /\ Cardinality(HandlesAt(F, n)) \in Nat
        /\ Cardinality(HandlesAt(G, n)) = Cardinality(HandlesAt(F, n))
          + Indicator(f \in HandlesAt(G, n)) - Indicator(f \in HandlesAt(F, n))
    BY <1>3, <2>1, CountStep
  <2> QED BY <2>1, <2>2 DEF Indicator, HandleGain
<1>7. Cardinality(UsersAt(G, n)) = Cardinality(UsersAt(F, n)) + UserGain(F[f], r, n)
  <2>1. /\ UsersAt(F, n) \subseteq Files /\ UsersAt(G, n) \subseteq Files
        /\ \A g \in Files : g # f => (g \in UsersAt(F, n) <=> g \in UsersAt(G, n))
        /\ f \in UsersAt(G, n) <=> r.node = n /\ r.pc \in UserPC
        /\ f \in UsersAt(F, n) <=> F[f].node = n /\ F[f].pc \in UserPC
    BY <1>2 DEF UsersAt, UserPC
  <2>2. /\ Cardinality(UsersAt(F, n)) \in Nat
        /\ Cardinality(UsersAt(G, n)) = Cardinality(UsersAt(F, n))
          + Indicator(f \in UsersAt(G, n)) - Indicator(f \in UsersAt(F, n))
    BY <1>3, <2>1, CountStep
  <2> QED BY <2>1, <2>2 DEF Indicator, UserGain
<1>8. Cardinality(DeletersAt(G, n)) =
     Cardinality(DeletersAt(F, n)) + DeleterGain(F[f], r, n)
  <2>1. /\ DeletersAt(F, n) \subseteq Files /\ DeletersAt(G, n) \subseteq Files
        /\ \A g \in Files : g # f => (g \in DeletersAt(F, n) <=> g \in DeletersAt(G, n))
        /\ f \in DeletersAt(G, n) <=> r.node = n /\ r.pc \in HasHandle /\ r.mode.delete
        /\ f \in DeletersAt(F, n)
             <=> F[f].node = n /\ F[f].pc \in HasHandle /\ F[f].mode.delete
    BY <1>2 DEF DeletersAt, HandlesAt
  <2>2. /\ Cardinality(DeletersAt(F, n)) \in Nat
        /\ Cardinality(DeletersAt(G, n)) = Cardinality(DeletersAt(F, n))
          + Indicator(f \in DeletersAt(G, n)) - Indicator(f \in DeletersAt(F, n))
    BY <1>3, <2>1, CountStep
  <2> QED BY <2>1, <2>2 DEF Indicator, DeleterGain
<1>10. SharersAt(G, n) =
         IF r.node = n /\ r.pc \in HasHandle /\ HasAccess(r.mode)
           THEN SharersAt(F, n) \cup {f} ELSE SharersAt(F, n) \ {f}
  <2>1. \A g \in Files : g # f => (g \in SharersAt(G, n) <=> g \in SharersAt(F, n))
    BY <1>2 DEF SharersAt, HandlesAt
  <2>2. f \in SharersAt(G, n) <=> r.node = n /\ r.pc \in HasHandle /\ HasAccess(r.mode)
    BY <1>2 DEF SharersAt, HandlesAt
  <2>3. SharersAt(F, n) \subseteq Files /\ SharersAt(G, n) \subseteq Files
    BY DEF SharersAt, HandlesAt
  <2> QED BY <2>1, <2>2, <2>3
<1> QED BY <1>1, <1>4, <1>5, <1>6, <1>7, <1>8, <1>10

LEMMA DeniersMove ==
  ASSUME NEW F, F \in [Files -> FileType], NEW f \in Files, NEW r, NEW N, NEW n \in Nodes
  PROVE  Cardinality(DeniersAt(N, At1(F, f, r), n)) =
           Cardinality(DeniersAt(N, F, n)) + DenierGain(N, F[f], r, n)
<1>1. PICK G : G = At1(F, f, r)
  OBVIOUS
<1>2. G[f] = r /\ \A g \in Files : g # f => G[g] = F[g]
  BY <1>1 DEF At1
<1>3. IsFiniteSet(Files)
  BY FileNodeAssumption
<1>9. Cardinality(DeniersAt(N, G, n)) =
     Cardinality(DeniersAt(N, F, n)) + DenierGain(N, F[f], r, n)
  <2>1. /\ DeniersAt(N, F, n) \subseteq Files /\ DeniersAt(N, G, n) \subseteq Files
        /\ \A g \in Files : g # f => (g \in DeniersAt(N, F, n) <=> g \in DeniersAt(N, G, n))
        /\ f \in DeniersAt(N, G, n) <=> DeniesTo(N, r, n)
        /\ f \in DeniersAt(N, F, n) <=> DeniesTo(N, F[f], n)
    BY <1>2 DEF DeniersAt, DeniesTo
  <2>2. /\ Cardinality(DeniersAt(N, F, n)) \in Nat
        /\ Cardinality(DeniersAt(N, G, n)) = Cardinality(DeniersAt(N, F, n))
          + Indicator(f \in DeniersAt(N, G, n)) - Indicator(f \in DeniersAt(N, F, n))
    BY <1>3, <2>1, CountStep
  <2> QED BY <2>1, <2>2 DEF Indicator, DenierGain
<1> QED BY <1>1, <1>9

LEMMA Moves ==
  ASSUME NEW N, NEW T, NEW F, NEW owed, Acc(N, T, F, owed), owed \in [Nodes -> Nat],
         NEW f \in Files, NEW r, r \in FileType, FileOK(r),
         NEW M, M \in [Nodes -> NodeType], NEW U, One(M, U), NEW o, o \in [Nodes -> Nat],
         Follow(N, M, T, U, F[f], r, f, owed, o)
  PROVE  Acc(M, U, At1(F, f, r), o)
<1>1. PICK G : G = At1(F, f, r)
  OBVIOUS
<1>2. PICK q : q = F[f]
  OBVIOUS
<1>3. F \in [Files -> FileType] /\ NodesOK(N) /\ Refs(N, T, F, owed) /\ Uses(N, F)
  BY DEF Acc, FilesOK
<1>4. FilesOK(G)
  BY <1>1, <1>3 DEF Acc, FilesOK, At1
<1>5. Follow(N, M, T, U, q, r, f, owed, o)
  BY <1>2
<1>6. \A n \in Nodes : M[n].name = N[n].name /\ M[n].main = N[n].main
  BY <1>5 DEF Follow
<1>7. NodesOK(M)
  <2>1. \A n \in Nodes : /\ N[n].refs = 0 => M[n] = N[n]
                         /\ M[n].refs = 0 => N[n].refs = 0
    BY <1>5 DEF Follow
  <2>2. ASSUME NEW n \in Nodes
        PROVE  /\ M[n].refs = 0 => M[n] = FreeNode
               /\ M[n].refs # 0 => M[n].name \in Names
    BY <1>3, <1>6, <2>1 DEF NodesOK
  <2>3. ASSUME NEW n \in Nodes, M[n].main # None
        PROVE  IsStream(M[n].name) /\ M[M[n].main].main = None
    <3>1. PICK m : m = N[n].main
      OBVIOUS
    <3>2. m \in Nodes /\ IsStream(N[n].name) /\ N[m].main = None
      BY <1>3, <1>6, <2>3, <3>1 DEF NodesOK, NodeType
    <3> QED BY <1>6, <3>1, <3>2
  <2> QED BY <2>2, <2>3 DEF NodesOK
<1>8. \A n \in Nodes : StreamsAt(M, n) = StreamsAt(N, n)
  BY <1>6 DEF StreamsAt
<1>9. \A n \in Nodes : DeniersAt(M, G, n) = DeniersAt(N, G, n)
  <2>1. \A k \in Nodes : M[k].main = N[k].main
    BY <1>6
  <2> QED BY <2>1 DEF DeniersAt
<1>10. Refs(M, U, G, o)
  <2> SUFFICES ASSUME NEW n \in Nodes
               PROVE  M[n].refs = Cardinality(FilesAt(G, n)) + Cardinality(ExtrasAt(G, n))
                        + Cardinality(NamesAt(U, n)) + Cardinality(StreamsAt(M, n)) + o[n]
    BY DEF Refs
  <2>1. M[n].refs = N[n].refs + NodeGain(q, r, n) + ExtraGain(q, r, n)
                      + NamesGain(T, U, n) + o[n] - owed[n]
    BY <1>5 DEF Follow
  <2>2. N[n].refs = Cardinality(FilesAt(F, n)) + Cardinality(ExtrasAt(F, n))
          + Cardinality(NamesAt(T, n)) + Cardinality(StreamsAt(N, n)) + owed[n]
    BY <1>3 DEF Refs
  <2>3. Cardinality(FilesAt(G, n)) = Cardinality(FilesAt(F, n)) + NodeGain(q, r, n)
    BY <1>1, <1>2, <1>3, FileMoves
  <2>4. Cardinality(ExtrasAt(G, n)) = Cardinality(ExtrasAt(F, n)) + ExtraGain(q, r, n)
    BY <1>1, <1>2, <1>3, FileMoves
  <2>5. Cardinality(NamesAt(U, n)) = Cardinality(NamesAt(T, n)) + NamesGain(T, U, n)
    <3>1. Cardinality(NamesAt(U, n)) \in Nat /\ Cardinality(NamesAt(T, n)) \in Nat
      BY HoldersCounted
    <3> QED BY <3>1 DEF NamesGain
  <2>6. Cardinality(StreamsAt(M, n)) = Cardinality(StreamsAt(N, n))
    BY <1>8
  <2>7. /\ Cardinality(FilesAt(F, n)) \in Int /\ Cardinality(ExtrasAt(F, n)) \in Int
        /\ Cardinality(NamesAt(T, n)) \in Int /\ Cardinality(StreamsAt(N, n)) \in Int
        /\ NodeGain(q, r, n) \in Int /\ ExtraGain(q, r, n) \in Int /\ NamesGain(T, U, n) \in Int
        /\ o[n] \in Int /\ owed[n] \in Int
    <3>1. /\ Cardinality(FilesAt(F, n)) \in Nat /\ Cardinality(ExtrasAt(F, n)) \in Nat
          /\ Cardinality(NamesAt(T, n)) \in Nat /\ Cardinality(StreamsAt(N, n)) \in Nat
      BY HoldersCounted
    <3>2. NodeGain(q, r, n) \in Int /\ ExtraGain(q, r, n) \in Int /\ NamesGain(T, U, n) \in Int
      BY GainsAreIntegers, Zenon
    <3>3. o[n] \in Nat /\ owed[n] \in Nat
      OBVIOUS
    <3> QED BY <3>1, <3>2, <3>3
  <2>8. \A a, b, c, d, e, x, y, z, w \in Int :
          (a + b + c + d + e) + x + y + z + w - e = (a + x) + (b + y) + (c + z) + d + w
    OBVIOUS
  <2>9. (Cardinality(FilesAt(F, n)) + Cardinality(ExtrasAt(F, n)) + Cardinality(NamesAt(T, n))
           + Cardinality(StreamsAt(N, n)) + owed[n])
           + NodeGain(q, r, n) + ExtraGain(q, r, n) + NamesGain(T, U, n) + o[n] - owed[n]
        = (Cardinality(FilesAt(F, n)) + NodeGain(q, r, n))
            + (Cardinality(ExtrasAt(F, n)) + ExtraGain(q, r, n))
            + (Cardinality(NamesAt(T, n)) + NamesGain(T, U, n))
            + Cardinality(StreamsAt(N, n)) + o[n]
    BY <2>7
  <2> QED BY <2>1, <2>2, <2>3, <2>4, <2>5, <2>6, <2>9
<1>11. Uses(M, G)
  <2> SUFFICES ASSUME NEW n \in Nodes
               PROVE
       /\ M[n].active = Cardinality(UsersAt(G, n)) + Cardinality(ExtrasAt(G, n))
       /\ M[n].open \in {0, M[n].active}
       /\ M[n].handles = Cardinality(HandlesAt(G, n)) + Cardinality(ExtrasAt(G, n))
       /\ M[n].share = SharersAt(G, n)
       /\ M[n].denyDelete = IF M[n].main = None THEN Cardinality(DeletersAt(G, n)) ELSE 0
       /\ M[n].denyStream = Cardinality(DeniersAt(M, G, n))
    BY DEF Uses
  <2>0. /\ M[n].main = N[n].main
        /\ M[n].active = N[n].active + UserGain(q, r, n) + ExtraGain(q, r, n)
        /\ M[n].open \in {0, M[n].active}
        /\ M[n].handles = N[n].handles + HandleGain(q, r, n) + ExtraGain(q, r, n)
        /\ M[n].share = IF r.node = n /\ r.pc \in HasHandle /\ HasAccess(r.mode)
                          THEN N[n].share \cup {f} ELSE N[n].share \ {f}
        /\ M[n].denyDelete =
             IF N[n].main = None THEN N[n].denyDelete + DeleterGain(q, r, n) ELSE 0
        /\ M[n].denyStream = N[n].denyStream + DenierGain(N, q, r, n)
    BY <1>5 DEF Follow
  <2>1. /\ N[n].active = Cardinality(UsersAt(F, n)) + Cardinality(ExtrasAt(F, n))
        /\ N[n].handles = Cardinality(HandlesAt(F, n)) + Cardinality(ExtrasAt(F, n))
        /\ N[n].share = SharersAt(F, n)
        /\ N[n].denyDelete = IF N[n].main = None THEN Cardinality(DeletersAt(F, n)) ELSE 0
        /\ N[n].denyStream = Cardinality(DeniersAt(N, F, n))
    BY <1>3 DEF Uses
  <2>2. /\ Cardinality(ExtrasAt(F, n)) \in Int /\ Cardinality(UsersAt(F, n)) \in Int
        /\ Cardinality(HandlesAt(F, n)) \in Int /\ Cardinality(DeletersAt(F, n)) \in Int
        /\ Cardinality(DeniersAt(N, F, n)) \in Int
        /\ ExtraGain(q, r, n) \in Int /\ UserGain(q, r, n) \in Int
        /\ HandleGain(q, r, n) \in Int /\ DeleterGain(q, r, n) \in Int
        /\ DenierGain(N, q, r, n) \in Int
    <3>1. /\ Cardinality(ExtrasAt(F, n)) \in Nat /\ Cardinality(UsersAt(F, n)) \in Nat
          /\ Cardinality(HandlesAt(F, n)) \in Nat /\ Cardinality(DeletersAt(F, n)) \in Nat
          /\ Cardinality(DeniersAt(N, F, n)) \in Nat
      BY HoldersCounted, UsersCounted
    <3>2. /\ ExtraGain(q, r, n) \in Int /\ UserGain(q, r, n) \in Int
          /\ HandleGain(q, r, n) \in Int /\ DeleterGain(q, r, n) \in Int
          /\ DenierGain(N, q, r, n) \in Int
      BY GainsAreIntegers, Zenon
    <3> QED BY <3>1, <3>2
  <2>5. Cardinality(ExtrasAt(G, n)) = Cardinality(ExtrasAt(F, n)) + ExtraGain(q, r, n)
    BY <1>1, <1>2, <1>3, FileMoves
  <2>6. Cardinality(UsersAt(G, n)) = Cardinality(UsersAt(F, n)) + UserGain(q, r, n)
    BY <1>1, <1>2, <1>3, FileMoves
  <2>7. Cardinality(HandlesAt(G, n)) = Cardinality(HandlesAt(F, n)) + HandleGain(q, r, n)
    BY <1>1, <1>2, <1>3, FileMoves
  <2>8. Cardinality(DeletersAt(G, n)) = Cardinality(DeletersAt(F, n)) + DeleterGain(q, r, n)
    BY <1>1, <1>2, <1>3, FileMoves
  <2>9. Cardinality(DeniersAt(N, G, n)) = Cardinality(DeniersAt(N, F, n)) + DenierGain(N, q, r, n)
    <3>1. Cardinality(DeniersAt(N, At1(F, f, r), n)) =
            Cardinality(DeniersAt(N, F, n)) + DenierGain(N, F[f], r, n)
      BY <1>3, DeniersMove
    <3> QED BY <1>1, <1>2, <3>1
  <2>10. SharersAt(G, n) = IF r.node = n /\ r.pc \in HasHandle /\ HasAccess(r.mode)
                             THEN SharersAt(F, n) \cup {f} ELSE SharersAt(F, n) \ {f}
    BY <1>1, <1>3, FileMoves
  <2>11. M[n].active = Cardinality(UsersAt(G, n)) + Cardinality(ExtrasAt(G, n))
    BY <2>0, <2>1, <2>2, <2>5, <2>6
  <2>12. M[n].handles = Cardinality(HandlesAt(G, n)) + Cardinality(ExtrasAt(G, n))
    BY <2>0, <2>1, <2>2, <2>5, <2>7
  <2>13. M[n].share = SharersAt(G, n)
    BY <2>0, <2>1, <2>10
  <2>14. M[n].denyDelete = IF M[n].main = None THEN Cardinality(DeletersAt(G, n)) ELSE 0
    BY <2>0, <2>1, <2>8
  <2>15. M[n].denyStream = Cardinality(DeniersAt(M, G, n))
    BY <1>9, <2>0, <2>1, <2>9
  <2> QED BY <2>0, <2>11, <2>12, <2>13, <2>14, <2>15
<1> QED BY <1>1, <1>4, <1>7, <1>10, <1>11 DEF Acc

LEMMA CountShareIs ==
  ASSUME NEW N, N \in [Nodes -> NodeType], NEW T, NEW n \in Nodes, N[n].main # n, NEW f,
         NEW by
  PROVE  CountShare([node |-> N, table |-> T], n, f, by)
         = [node |-> Counted(N, n, f, file[f].mode, by), table |-> T]
<1>1. PICK s : s = [node |-> N, table |-> T]
  OBVIOUS
<1>2. PICK mode : mode = file[f].mode
  OBVIOUS
<1>3. PICK main : main = N[n].main
  OBVIOUS
<1>4. PICK A : A = {g \in {f} : HasAccess(mode)}
  OBVIOUS
<1>5. PICK S : S = [N EXCEPT ![n].share = IF by = 1 THEN @ \cup A ELSE @ \ {f}]
  OBVIOUS
<1> DEFINE shared == IF by = 1 THEN s.node[n].share \cup A ELSE s.node[n].share \ {f}
<1>6. N[n] \in NodeType
  OBVIOUS
<1>7. [s EXCEPT !.node[n].share = shared] = [node |-> S, table |-> T]
  <2>1. PICK sh : sh = IF by = 1 THEN N[n].share \cup A ELSE N[n].share \ {f}
    OBVIOUS
  <2>2. shared = sh
    BY <1>1, <2>1
  <2> HIDE DEF shared
  <2>3. S = [N EXCEPT ![n].share = sh]
    BY <1>5, <1>6, <2>1 DEF NodeType
  <2>4. [s EXCEPT !.node[n].share = sh] = [node |-> [N EXCEPT ![n].share = sh], table |-> T]
    BY <1>1
  <2> QED BY <2>2, <2>3, <2>4
<1>8. PICK t : t = [node |-> S, table |-> T]
  OBVIOUS
<1>9. CountShare(s, n, f, by) =
        CASE main = None /\ mode.delete -> [t EXCEPT !.node[n].denyDelete = @ + by]
          [] main # None /\ HasAccess(mode) /\ ~mode.shareDelete ->
               [t EXCEPT !.node[main].denyStream = @ + by]
          [] OTHER -> t
  <2>1. s.node[n].main = main
    BY <1>1, <1>3
  <2>2. [s EXCEPT !.node[n].share = shared] = t
    BY <1>7, <1>8
  <2> QED BY <1>2, <1>4, <2>1, <2>2, Zenon DEF CountShare
<1>10. Counted(N, n, f, mode, by) =
         CASE main = None /\ mode.delete -> [S EXCEPT ![n].denyDelete = @ + by]
           [] main # None /\ HasAccess(mode) /\ ~mode.shareDelete ->
                [S EXCEPT ![main].denyStream = @ + by]
           [] OTHER -> S
  <2>1. A = Access(f, mode)
    BY <1>4 DEF Access
  <2> QED BY <1>3, <1>5, <2>1, Zenon DEF Counted
<1>11. [t EXCEPT !.node[n].denyDelete = @ + by]
        = [node |-> [S EXCEPT ![n].denyDelete = @ + by], table |-> T]
  BY <1>8
<1>12. [t EXCEPT !.node[main].denyStream = @ + by]
        = [node |-> [S EXCEPT ![main].denyStream = @ + by], table |-> T]
  BY <1>8
<1> HIDE DEF shared
<1>13. CASE main = None /\ mode.delete
  BY <1>1, <1>2, <1>9, <1>10, <1>11, <1>13
<1>14. CASE main # None /\ HasAccess(mode) /\ ~mode.shareDelete
  BY <1>1, <1>2, <1>9, <1>10, <1>12, <1>14
<1>15. CASE ~(main = None /\ mode.delete) /\ ~(main # None /\ HasAccess(mode) /\ ~mode.shareDelete)
  BY <1>1, <1>2, <1>8, <1>9, <1>10, <1>15
<1> QED BY <1>13, <1>14, <1>15

LEMMA CountedChanges ==
  ASSUME NEW N, N \in [Nodes -> NodeType], NEW n \in Nodes, N[n].main # n, NEW f \in Files,
         NEW mode, mode \in AllModes, NEW by \in {1, 0 - 1}
  PROVE  /\ Counted(N, n, f, mode, by) \in [Nodes -> NodeType]
         /\ Changes(N, Counted(N, n, f, mode, by), n, f, mode, by, 0, 0, N[n].open, 0)
<1>1. PICK main : main = N[n].main
  OBVIOUS
<1>2. PICK shared : shared = IF by = 1 THEN N[n].share \cup Access(f, mode) ELSE N[n].share \ {f}
  OBVIOUS
<1>3. \A k \in Nodes : N[k] \in NodeType
  OBVIOUS
<1>4. shared \in SUBSET Files
  BY <1>2, <1>3 DEF NodeType, Access
<1>5. shared = CASE by = 1 /\ HasAccess(mode) -> N[n].share \cup {f}
                 [] by = 0 - 1 -> N[n].share \ {f}
                 [] OTHER -> N[n].share
  <2>1. HasAccess(mode) => Access(f, mode) = {f}
    BY DEF Access
  <2>2. ~HasAccess(mode) => Access(f, mode) = {}
    BY DEF Access
  <2>3. CASE by = 1 /\ HasAccess(mode)
    BY <1>2, <2>1, <2>3
  <2>4. CASE by = 1 /\ ~HasAccess(mode)
    BY <1>2, <2>2, <2>4
  <2>5. CASE by = 0 - 1
    BY <1>2, <2>5
  <2> QED BY <2>3, <2>4, <2>5
<1>6. PICK S : S = [N EXCEPT ![n] = [@ EXCEPT !.share = shared]]
  OBVIOUS
<1>7. S = [N EXCEPT ![n].share = IF by = 1 THEN @ \cup Access(f, mode) ELSE @ \ {f}]
  BY <1>2, <1>3, <1>6 DEF NodeType
<1>8. /\ S \in [Nodes -> NodeType]
      /\ \A k \in Nodes : k # n => S[k] = N[k]
      /\ S[n] = [N[n] EXCEPT !.share = shared]
  BY <1>3, <1>4, <1>6 DEF NodeType
<1>9. /\ S[n].share = shared /\ S[n].denyDelete = N[n].denyDelete
      /\ S[n].name = N[n].name /\ S[n].main = N[n].main /\ S[n].refs = N[n].refs
      /\ S[n].active = N[n].active /\ S[n].open = N[n].open /\ S[n].handles = N[n].handles
      /\ S[n].pending = N[n].pending /\ S[n].posix = N[n].posix
      /\ S[n].denyStream = N[n].denyStream
  BY <1>3, <1>8 DEF NodeType
<1>10. PICK M : M = Counted(N, n, f, mode, by)
  OBVIOUS
<1>11. M = CASE main = None /\ mode.delete -> [S EXCEPT ![n].denyDelete = @ + by]
             [] main # None /\ HasAccess(mode) /\ ~mode.shareDelete ->
                  [S EXCEPT ![main].denyStream = @ + by]
             [] OTHER -> S
  BY <1>1, <1>7, <1>10, Zenon DEF Counted
<1>12. \A k \in Nodes : /\ N[k].refs \in Int /\ N[k].active \in Int /\ N[k].handles \in Int
                        /\ N[k].denyDelete \in Int /\ N[k].denyStream \in Int
  BY <1>3 DEF NodeType
<1>13. \A k \in Nodes : N[k].refs + 0 = N[k].refs /\ N[k].active + 0 = N[k].active
                        /\ N[k].handles + 0 = N[k].handles
  BY <1>12
<1>14. mode.delete => HasAccess(mode)
  BY DEF HasAccess
<1>15. CASE main = None /\ mode.delete
  <2>1. PICK x : x = N[n].denyDelete + by
    OBVIOUS
  <2>2. x \in Int
    BY <1>12, <2>1
  <2>3. M = [S EXCEPT ![n] = [S[n] EXCEPT !.denyDelete = x]]
    BY <1>9, <1>11, <1>15, <2>1
  <2>5. PICK c : c = S[n]
    OBVIOUS
  <2>c. PICK d : d = [c EXCEPT !.denyDelete = x]
    OBVIOUS
  <2>d. d \in NodeType
    <3>1. c \in NodeType
      BY <1>8, <2>5
    <3> QED BY <2>2, <2>c, <3>1 DEF NodeType
  <2>4. /\ M \in [Nodes -> NodeType]
        /\ \A k \in Nodes : k # n => M[k] = N[k]
        /\ M[n] = d
    BY <1>8, <2>3, <2>5, <2>c, <2>d
  <2>6. /\ M[n].share = shared /\ M[n].denyDelete = x
        /\ M[n].name = N[n].name /\ M[n].main = N[n].main /\ M[n].refs = N[n].refs
        /\ M[n].active = N[n].active /\ M[n].open = N[n].open /\ M[n].handles = N[n].handles
        /\ M[n].pending = N[n].pending /\ M[n].posix = N[n].posix
        /\ M[n].denyStream = N[n].denyStream
    <3>1. c \in NodeType /\ M[n] = [c EXCEPT !.denyDelete = x]
      BY <1>8, <2>4, <2>5, <2>c
    <3>2. /\ M[n].share = c.share /\ M[n].denyDelete = x
          /\ M[n].name = c.name /\ M[n].main = c.main /\ M[n].refs = c.refs
          /\ M[n].active = c.active /\ M[n].open = c.open /\ M[n].handles = c.handles
          /\ M[n].pending = c.pending /\ M[n].posix = c.posix
          /\ M[n].denyStream = c.denyStream
      BY <3>1 DEF NodeType
    <3> QED BY <1>9, <2>5, <3>2
  <2>7. \A k \in Nodes : k # N[n].main
    BY <1>1, <1>15, FileNodeAssumption
  <2>8. N[n].main = None /\ mode.delete
    BY <1>1, <1>15
  <2>9. M[n].refs = N[n].refs + 0 /\ M[n].active = N[n].active + 0
        /\ M[n].handles = N[n].handles + 0
    BY <1>13, <2>6
  <2> HIDE <1>15
  <2>10. ASSUME NEW k \in Nodes, k # n PROVE M[k] = N[k]
    BY <2>4, <2>10
  <2>11. Changes(N, M, n, f, mode, by, 0, 0, N[n].open, 0)
    BY <1>5, <2>1, <2>6, <2>7, <2>8, <2>9, <2>10 DEF Changes, Alike, Kept, Counts, Shares
  <2> QED BY <1>10, <2>4, <2>11
<1>16. CASE main # None /\ HasAccess(mode) /\ ~mode.shareDelete
  <2>1. main \in Nodes /\ main # n
    BY <1>1, <1>3, <1>16 DEF NodeType
  <2>2. PICK x : x = N[main].denyStream + by
    OBVIOUS
  <2>3. x \in Int
    BY <1>12, <2>1, <2>2
  <2>4. M = [S EXCEPT ![main] = [N[main] EXCEPT !.denyStream = x]]
    BY <1>8, <1>11, <1>16, <2>1, <2>2
  <2>5. N[main] \in NodeType
    BY <2>1
  <2>6. [N[main] EXCEPT !.denyStream = x] \in NodeType
    BY <2>3, <2>5 DEF NodeType
  <2>7. /\ M \in [Nodes -> NodeType]
        /\ \A k \in Nodes : k # n /\ k # main => M[k] = N[k]
        /\ M[main] = [N[main] EXCEPT !.denyStream = x]
        /\ M[n] = S[n]
    BY <1>8, <2>1, <2>4, <2>6
  <2>8. /\ M[main].share = N[main].share /\ M[main].denyDelete = N[main].denyDelete
        /\ M[main].name = N[main].name /\ M[main].main = N[main].main
        /\ M[main].refs = N[main].refs /\ M[main].active = N[main].active
        /\ M[main].open = N[main].open /\ M[main].handles = N[main].handles
        /\ M[main].pending = N[main].pending /\ M[main].posix = N[main].posix
        /\ M[main].denyStream = x
    BY <2>5, <2>7 DEF NodeType
  <2>9. Denying(mode)
    BY <1>16 DEF Denying
  <2>10. N[n].main = main
    BY <1>1
  <2> SUFFICES Changes(N, M, n, f, mode, by, 0, 0, N[n].open, 0)
    BY <1>10, <2>7
  <2>11. ASSUME NEW k \in Nodes, k # n, k # main
         PROVE  M[k] = N[k]
    BY <2>7, <2>11
  <2>12. M[n].denyStream = N[n].denyStream /\ M[n].denyDelete = N[n].denyDelete
         /\ M[n].share = shared
    BY <1>9, <2>7
  <2>13. /\ M[n].name = N[n].name /\ M[n].main = N[n].main /\ M[n].refs = N[n].refs
         /\ M[n].active = N[n].active /\ M[n].open = N[n].open /\ M[n].handles = N[n].handles
         /\ M[n].pending = N[n].pending /\ M[n].posix = N[n].posix
    BY <1>9, <2>7
  <2>14. M[n].refs = N[n].refs + 0 /\ M[n].active = N[n].active + 0
         /\ M[n].handles = N[n].handles + 0
    BY <1>13, <2>13
  <2>15. N[n].main # None
    BY <1>16, <2>10
  <2>16. \A k \in Nodes : M[k].name = N[k].name /\ M[k].main = N[k].main
           /\ M[k].pending = N[k].pending /\ M[k].posix = N[k].posix
    BY <2>8, <2>11, <2>13
  <2>17. \A k \in Nodes : k # n =>
           /\ M[k].refs = N[k].refs /\ M[k].active = N[k].active
           /\ M[k].open = N[k].open /\ M[k].handles = N[k].handles
           /\ M[k].share = N[k].share /\ M[k].denyDelete = N[k].denyDelete
    BY <2>8, <2>11
  <2>18. \A k \in Nodes : M[k].denyStream = IF k = N[n].main /\ Denying(mode)
                                               THEN N[k].denyStream + by ELSE N[k].denyStream
    BY <2>1, <2>2, <2>8, <2>9, <2>10, <2>11, <2>12
  <2> QED BY <1>5, <2>12, <2>13, <2>14, <2>15, <2>16, <2>17, <2>18 DEF Changes, Alike, Kept, Counts, Shares
<1>17. CASE ~(main = None /\ mode.delete)
            /\ ~(main # None /\ HasAccess(mode) /\ ~mode.shareDelete)
  <2>1. M = S
    BY <1>11, <1>17
  <2>2. \A k \in Nodes : ~(k = N[n].main /\ Denying(mode))
    BY <1>1, <1>17, FileNodeAssumption DEF Denying
  <2>3. M[n].refs = N[n].refs + 0 /\ M[n].active = N[n].active + 0
        /\ M[n].handles = N[n].handles + 0
    BY <1>9, <1>13, <2>1
  <2>4. ~(N[n].main = None /\ mode.delete)
    BY <1>1, <1>17
  <2>5. ASSUME NEW k \in Nodes, k # n PROVE M[k] = N[k]
    BY <1>8, <2>1, <2>5
  <2>6. Changes(N, M, n, f, mode, by, 0, 0, N[n].open, 0)
    BY <1>5, <1>9, <2>1, <2>2, <2>3, <2>4, <2>5 DEF Changes, Alike, Kept, Counts, Shares
  <2> QED BY <1>8, <1>10, <2>1, <2>6
<1> QED BY <1>15, <1>16, <1>17

LEMMA PlusIs ==
  ASSUME NEW r, r \in NodeType, NEW refs \in Int, NEW active \in Int, NEW open \in Int,
         NEW handles \in Int
  PROVE  LET p == Plus(r, refs, active, open, handles)
         IN /\ p \in NodeType
            /\ p.name = r.name /\ p.main = r.main /\ p.pending = r.pending
            /\ p.posix = r.posix /\ p.share = r.share /\ p.denyDelete = r.denyDelete
            /\ p.denyStream = r.denyStream
            /\ p.refs = r.refs + refs /\ p.active = r.active + active
            /\ p.open = open /\ p.handles = r.handles + handles
<1>1. PICK a, b, c : a = r.refs + refs /\ b = r.active + active /\ c = r.handles + handles
  OBVIOUS
<1>2. r.refs \in Int /\ r.active \in Int /\ r.handles \in Int
  BY DEF NodeType
<1>3. a \in Int /\ b \in Int /\ c \in Int
  BY <1>1, <1>2
<1>4. PICK p : p = [r EXCEPT !.refs = a, !.active = b, !.open = open, !.handles = c]
  OBVIOUS
<1>5. Plus(r, refs, active, open, handles) = p
  BY <1>1, <1>4 DEF Plus, NodeType
<1>6. p \in NodeType
  BY <1>3, <1>4 DEF NodeType
<1>7. /\ p.name = r.name /\ p.main = r.main /\ p.pending = r.pending
      /\ p.posix = r.posix /\ p.share = r.share /\ p.denyDelete = r.denyDelete
      /\ p.denyStream = r.denyStream
      /\ p.refs = a /\ p.active = b /\ p.open = open /\ p.handles = c
  BY <1>4 DEF NodeType
<1> QED BY <1>1, <1>5, <1>6, <1>7

(* Share access first, then the counts, and the other way around.          *)
LEMMA ChangesPlus ==
  ASSUME NEW N, N \in [Nodes -> NodeType], NEW S, S \in [Nodes -> NodeType],
         NEW n \in Nodes, NEW f \in Files, NEW mode, NEW by, NEW x,
         Changes(N, S, n, f, mode, by, 0, 0, x, 0),
         NEW refs \in Int, NEW active \in Int, NEW open \in Int, NEW handles \in Int
  PROVE  LET M == [S EXCEPT ![n] = Plus(S[n], refs, active, open, handles)]
         IN /\ M \in [Nodes -> NodeType]
            /\ Changes(N, M, n, f, mode, by, refs, active, open, handles)
<1>1. PICK p : p = Plus(S[n], refs, active, open, handles)
  OBVIOUS
<1>2. PICK M : M = [S EXCEPT ![n] = p]
  OBVIOUS
<1>3. /\ p \in NodeType
      /\ p.name = S[n].name /\ p.main = S[n].main /\ p.pending = S[n].pending
      /\ p.posix = S[n].posix /\ p.share = S[n].share /\ p.denyDelete = S[n].denyDelete
      /\ p.denyStream = S[n].denyStream
      /\ p.refs = S[n].refs + refs /\ p.active = S[n].active + active
      /\ p.open = open /\ p.handles = S[n].handles + handles
  <2>1. S[n] \in NodeType
    OBVIOUS
  <2> QED BY <1>1, <2>1, PlusIs
<1>4. M \in [Nodes -> NodeType] /\ M[n] = p /\ \A k \in Nodes : k # n => M[k] = S[k]
  BY <1>2, <1>3
<1>5. N[n].refs \in Int /\ N[n].active \in Int /\ N[n].handles \in Int
  BY DEF NodeType
<1>6. S[n].refs = N[n].refs /\ S[n].active = N[n].active /\ S[n].handles = N[n].handles
  <2>1. Counts(N[n], S[n], 0, 0, x, 0)
    BY DEF Changes
  <2> QED BY <1>5, <2>1 DEF Counts
<1>7. M[n].refs = N[n].refs + refs /\ M[n].active = N[n].active + active
      /\ M[n].handles = N[n].handles + handles /\ M[n].open = open
  BY <1>3, <1>4, <1>6
<1>8. M[n].share = S[n].share /\ M[n].denyDelete = S[n].denyDelete
      /\ M[n].denyStream = S[n].denyStream /\ M[n].name = S[n].name /\ M[n].main = S[n].main
      /\ M[n].pending = S[n].pending /\ M[n].posix = S[n].posix
  BY <1>3, <1>4
<1>9. ASSUME NEW k \in Nodes, k # n PROVE M[k] = S[k]
  BY <1>4, <1>9
<1>10. Changes(N, M, n, f, mode, by, refs, active, open, handles)
  <2>1. \A k \in Nodes : Alike(N[k], M[k])
    BY <1>8, <1>9 DEF Changes, Alike
  <2>2. \A k \in Nodes : k # n => Kept(N[k], M[k])
    BY <1>9 DEF Changes
  <2>3. Counts(N[n], M[n], refs, active, open, handles)
    BY <1>7 DEF Counts
  <2>4. Shares(N[n], M[n], f, mode, by)
    BY <1>8 DEF Changes, Shares
  <2>5. \A k \in Nodes : M[k].denyStream = S[k].denyStream
    BY <1>8, <1>9
  <2> QED BY <2>1, <2>2, <2>3, <2>4, <2>5 DEF Changes
<1> QED BY <1>1, <1>2, <1>4, <1>10

LEMMA PlusChanges ==
  ASSUME NEW N, N \in [Nodes -> NodeType], NEW S, S \in [Nodes -> NodeType],
         NEW M, M \in [Nodes -> NodeType],
         NEW n \in Nodes, NEW f \in Files, NEW mode, NEW by, NEW x,
         NEW refs \in Int, NEW active \in Int, NEW open \in Int, NEW handles \in Int,
         S = [N EXCEPT ![n] = Plus(N[n], refs, active, open, handles)],
         Changes(S, M, n, f, mode, by, 0, 0, open, 0)
  PROVE  Changes(N, M, n, f, mode, by, refs, active, open, handles)
<1>1. PICK p : p = Plus(N[n], refs, active, open, handles)
  OBVIOUS
<1>2. N[n] \in NodeType
  OBVIOUS
<1>3. /\ p \in NodeType
      /\ p.name = N[n].name /\ p.main = N[n].main /\ p.pending = N[n].pending
      /\ p.posix = N[n].posix /\ p.share = N[n].share /\ p.denyDelete = N[n].denyDelete
      /\ p.denyStream = N[n].denyStream
      /\ p.refs = N[n].refs + refs /\ p.active = N[n].active + active
      /\ p.open = open /\ p.handles = N[n].handles + handles
  BY <1>1, <1>2, PlusIs
<1>4. S[n] = p /\ \A k \in Nodes : k # n => S[k] = N[k]
  BY <1>1
<1>5. p.refs \in Int /\ p.active \in Int /\ p.handles \in Int
  BY <1>3 DEF NodeType
<1>6. M[n].refs = p.refs /\ M[n].active = p.active /\ M[n].handles = p.handles
      /\ M[n].open = open
  <2>1. Counts(p, M[n], 0, 0, open, 0)
    BY <1>4 DEF Changes
  <2> QED BY <1>5, <2>1 DEF Counts
<1>7. M[n].refs = N[n].refs + refs /\ M[n].active = N[n].active + active
      /\ M[n].handles = N[n].handles + handles /\ M[n].open = open
  BY <1>3, <1>6
<1>8. S[n].name = N[n].name /\ S[n].main = N[n].main /\ S[n].pending = N[n].pending
      /\ S[n].posix = N[n].posix /\ S[n].share = N[n].share
      /\ S[n].denyDelete = N[n].denyDelete /\ S[n].denyStream = N[n].denyStream
  BY <1>3, <1>4
<1>9. ASSUME NEW k \in Nodes, k # n PROVE S[k] = N[k]
  BY <1>4, <1>9
<1>10. \A k \in Nodes : Alike(N[k], M[k])
  BY <1>8, <1>9 DEF Changes, Alike
<1>11. \A k \in Nodes : k # n => Kept(N[k], M[k])
  BY <1>9 DEF Changes
<1>12. Counts(N[n], M[n], refs, active, open, handles)
  BY <1>7 DEF Counts
<1>13. Shares(N[n], M[n], f, mode, by)
  BY <1>8 DEF Changes, Shares
<1>14. \A k \in Nodes : S[k].denyStream = N[k].denyStream
  BY <1>8, <1>9
<1> QED BY <1>8, <1>10, <1>11, <1>12, <1>13, <1>14 DEF Changes

(* Nothing of the share access changes.                                    *)
LEMMA NoChange ==
  ASSUME NEW N, N \in [Nodes -> NodeType], NEW n \in Nodes, NEW f, NEW mode
  PROVE  Changes(N, N, n, f, mode, 0, 0, 0, N[n].open, 0)
<1>1. \A k \in Nodes : N[k] \in NodeType
  OBVIOUS
<1>2. \A k \in Nodes : /\ N[k].refs \in Int /\ N[k].active \in Int /\ N[k].handles \in Int
                       /\ N[k].denyDelete \in Int /\ N[k].denyStream \in Int
  BY <1>1 DEF NodeType
<1>3. 0 # 0 - 1 /\ 0 # 1
  OBVIOUS
<1> QED BY <1>2, <1>3 DEF Changes, Alike, Kept, Counts, Shares

-----------------------------------------------------------------------------
(* FspFileNodeClose. *)
LEMMA ClosedChanges ==
  ASSUME NEW N, N \in [Nodes -> NodeType], NEW n \in Nodes, N[n].main # n, NEW f \in Files,
         NEW mode, mode \in AllModes, NEW share, NEW handles \in {0, 1}
  PROVE  /\ Shared(N, n, f, mode, share) \in [Nodes -> NodeType]
         /\ Changes(N, Shared(N, n, f, mode, share), n, f, mode, Closing(share), 0, 0,
                    N[n].open, 0)
         /\ Shared(N, n, f, mode, share)[n].open = N[n].open
         /\ Closed(N, n, f, mode, share, handles) \in [Nodes -> NodeType]
         /\ Changes(N, Closed(N, n, f, mode, share, handles), n, f, mode, Closing(share),
                    0, -1, OneLess(N[n].open), 0 - handles)
<1>1. PICK S : S = Shared(N, n, f, mode, share)
  OBVIOUS
<1>2. PICK by : by = Closing(share)
  OBVIOUS
<1>3. S \in [Nodes -> NodeType] /\ Changes(N, S, n, f, mode, by, 0, 0, N[n].open, 0)
  <2>1. CASE share
    <3>1. S = Counted(N, n, f, mode, -1) /\ by = -1
      BY <1>1, <1>2, <2>1 DEF Shared, Closing
    <3>2. -1 \in {1, 0 - 1}
      OBVIOUS
    <3> QED BY <3>1, <3>2, CountedChanges
  <2>2. CASE ~share
    <3>1. S = N /\ by = 0
      BY <1>1, <1>2, <2>2 DEF Shared, Closing
    <3> QED BY <3>1, NoChange
  <2> QED BY <2>1, <2>2
<1>4. S[n].open = N[n].open
  BY <1>3 DEF Changes, Counts
<1>5. N[n].open \in Int
  BY DEF NodeType
<1>6. OneLess(N[n].open) \in Int /\ 0 - handles \in Int /\ -1 \in Int /\ 0 \in Int
  BY <1>5 DEF OneLess
<1>7. Closed(N, n, f, mode, share, handles)
      = [S EXCEPT ![n] = Plus(S[n], 0, -1, OneLess(N[n].open), 0 - handles)]
  BY <1>1, <1>4 DEF Closed
<1>8. PICK open, less : open = OneLess(N[n].open) /\ less = 0 - handles
  OBVIOUS
<1>9. PICK C : C = [S EXCEPT ![n] = Plus(S[n], 0, -1, open, less)]
  OBVIOUS
<1>10. C \in [Nodes -> NodeType] /\ Changes(N, C, n, f, mode, by, 0, -1, open, less)
  BY <1>3, <1>6, <1>8, <1>9, ChangesPlus
<1> QED BY <1>1, <1>2, <1>3, <1>4, <1>7, <1>8, <1>9, <1>10

LEMMA CloseNodeIs ==
  ASSUME NEW N, N \in [Nodes -> NodeType], NEW T, One(N, T), NEW n \in Nodes, N[n].main # n,
         N[n].name \in Names, NEW f \in Files, file[f].mode \in AllModes, NEW share,
         NEW handles \in {0, 1}
  PROVE  CloseNode([node |-> N, table |-> T], n, f, share, handles)
         = Shut(N, T, n, Closed(N, n, f, file[f].mode, share, handles))
<1>1. PICK mode : mode = file[f].mode
  OBVIOUS
<1>2. PICK S : S = Shared(N, n, f, mode, share)
  OBVIOUS
<1>3. PICK C : C = Closed(N, n, f, mode, share, handles)
  OBVIOUS
<1>4. S \in [Nodes -> NodeType] /\ S[n].open = N[n].open
      /\ Changes(N, S, n, f, mode, Closing(share), 0, 0, N[n].open, 0)
  BY <1>1, <1>2, ClosedChanges
<1>5. C \in [Nodes -> NodeType]
      /\ Changes(N, C, n, f, mode, Closing(share), 0, -1, OneLess(N[n].open), 0 - handles)
  BY <1>1, <1>3, ClosedChanges
<1> DEFINE s == [node |-> N, table |-> T]
           s1 == IF share THEN CountShare(s, n, f, -1) ELSE s
<1>6. s1 = [node |-> S, table |-> T]
  <2>1. CASE share
    <3>1. S = Counted(N, n, f, mode, -1)
      BY <1>2, <2>1 DEF Shared
    <3> QED BY <1>1, <2>1, <3>1, CountShareIs
  <2>2. CASE ~share
    BY <1>2, <2>2 DEF Shared
  <2> QED BY <2>1, <2>2
<1>7. PICK q : q = S[n]
  OBVIOUS
<1>8. q \in NodeType /\ q.open \in Int /\ q.active \in Int /\ q.handles \in Int /\ q.refs \in Int
  BY <1>4, <1>7 DEF NodeType
<1>9. PICK u : u = [node |-> S, table |-> T]
  OBVIOUS
<1>10. PICK r : r = [q EXCEPT !.handles = @ - handles, !.active = @ - 1]
  OBVIOUS
<1> DEFINE s2 == [u EXCEPT !.node[n].handles = @ - handles, !.node[n].active = @ - 1]
<1>11. s2 = [node |-> [S EXCEPT ![n] = r], table |-> T]
  <2>1. PICK h, a : h = q.handles - handles /\ a = q.active - 1
    OBVIOUS
  <2>2. r = [q EXCEPT !.handles = h, !.active = a]
    BY <1>8, <1>10, <2>1 DEF NodeType
  <2>3. u.node[n].handles = q.handles /\ u.node[n].active = q.active
    BY <1>7, <1>9
  <2>4. s2 = [u EXCEPT !.node[n].handles = h, !.node[n].active = a]
    BY <1>4, <1>8, <1>9, <2>1, <2>3 DEF NodeType
  <2>5. [u EXCEPT !.node[n].handles = h, !.node[n].active = a]
        = [u EXCEPT !.node = [S EXCEPT ![n].handles = h, ![n].active = a]]
    BY <1>4, <1>9 DEF NodeType
  <2>6. [S EXCEPT ![n].handles = h, ![n].active = a] = [S EXCEPT ![n] = r]
    BY <1>4, <1>7, <1>8, <2>2 DEF NodeType
  <2> QED BY <1>9, <2>4, <2>5, <2>6
<1>12. r.open = q.open /\ r.name = q.name
  BY <1>8, <1>10 DEF NodeType
<1>13. PICK s2v : s2v = [node |-> [S EXCEPT ![n] = r], table |-> T]
  OBVIOUS
<1>14. s2v.node[n] = r
  BY <1>4, <1>13
<1> DEFINE s3 == IF s2v.node[n].open > 0 THEN [s2v EXCEPT !.node[n].open = @ - 1] ELSE s2v
<1>15. s3 = [node |-> C, table |-> T]
  <2>1. C = [S EXCEPT ![n] = Plus(q, 0, -1, OneLess(q.open), 0 - handles)]
    BY <1>2, <1>3, <1>7 DEF Closed
  <2>2. Plus(q, 0, -1, OneLess(q.open), 0 - handles)
        = IF q.open > 0 THEN [r EXCEPT !.open = @ - 1] ELSE r
    <3>1. q.refs + 0 = q.refs /\ q.active + -1 = q.active - 1
          /\ q.handles + (0 - handles) = q.handles - handles
      BY <1>8
    <3>2. PICK a, h : a = q.active - 1 /\ h = q.handles - handles
      OBVIOUS
    <3>3. PICK o : o = OneLess(q.open)
      OBVIOUS
    <3>4. Plus(q, 0, -1, o, 0 - handles)
          = [q EXCEPT !.refs = q.refs, !.active = a, !.open = o, !.handles = h]
      BY <1>8, <3>1, <3>2 DEF Plus, NodeType
    <3>5. r = [q EXCEPT !.handles = h, !.active = a]
      BY <1>8, <1>10, <3>2 DEF NodeType
    <3>6. CASE q.open > 0
      <4>1. o = q.open - 1
        BY <3>3, <3>6 DEF OneLess
      <4>2. [r EXCEPT !.open = @ - 1] = [q EXCEPT !.refs = q.refs, !.active = a, !.open = o, !.handles = h]
        BY <1>8, <3>5, <4>1 DEF NodeType
      <4> QED BY <3>3, <3>4, <3>6, <4>2
    <3>7. CASE ~(q.open > 0)
      <4>1. o = q.open
        BY <3>3, <3>7 DEF OneLess
      <4>2. r = [q EXCEPT !.refs = q.refs, !.active = a, !.open = o, !.handles = h]
        BY <1>8, <3>5, <4>1 DEF NodeType
      <4> QED BY <3>3, <3>4, <3>7, <4>2
    <3> QED BY <3>6, <3>7
  <2>3. CASE q.open > 0
    <3>1. PICK r2 : r2 = [r EXCEPT !.open = @ - 1]
      OBVIOUS
    <3>2. [s2v EXCEPT !.node[n].open = @ - 1] = [node |-> [S EXCEPT ![n] = r2], table |-> T]
      BY <1>4, <1>13, <3>1
    <3> QED BY <1>12, <1>14, <2>1, <2>2, <2>3, <3>1, <3>2
  <2>4. CASE ~(q.open > 0)
    BY <1>12, <1>13, <1>14, <2>1, <2>2, <2>4
  <2> QED BY <2>3, <2>4
<1>16. PICK t : t = [node |-> C, table |-> T]
  OBVIOUS
<1>17. C[n].name = N[n].name
  BY <1>5 DEF Changes, Alike
<1> DEFINE name == t.node[n].name
           closed == CASE r.open = 1 /\ t.table[name] # None -> Dereference(Forget(t, name), n)
                       [] OTHER -> t
<1>18. CloseNode(s, n, f, share, handles) = closed
  <2>1. s1 = u
    BY <1>6, <1>9
  <2>2. s2 = s2v
    BY <1>11, <1>13
  <2>3. s3 = t
    BY <1>15, <1>16
  <2>4. CloseNode(s, n, f, share, handles)
        = CASE s2v.node[n].open = 1 /\ s3.table[s3.node[n].name] # None ->
                 Dereference(Forget(s3, s3.node[n].name), n)
            [] OTHER -> s3
    <3> HIDE DEF s
    <3> DEFINE before(v) == IF v.node[n].open > 0 THEN [v EXCEPT !.node[n].open = @ - 1] ELSE v
               after(v) == CASE v.node[n].open = 1 /\ before(v).table[before(v).node[n].name] # None ->
                                  Dereference(Forget(before(v), before(v).node[n].name), n)
                             [] OTHER -> before(v)
    <3>1. CloseNode(s, n, f, share, handles)
          = after([s1 EXCEPT !.node[n].handles = @ - handles, !.node[n].active = @ - 1])
      BY Zenon DEF CloseNode
    <3>2. before(s2v) = s3
      OBVIOUS
    <3>3. after(s2v) = CASE s2v.node[n].open = 1 /\ s3.table[s3.node[n].name] # None ->
                              Dereference(Forget(s3, s3.node[n].name), n)
                         [] OTHER -> s3
      BY <3>2, Zenon
    <3> HIDE DEF s1, after
    <3>4. [s1 EXCEPT !.node[n].handles = @ - handles, !.node[n].active = @ - 1] = s2v
      BY <2>1, <2>2
    <3> QED BY <3>1, <3>3, <3>4
  <2> HIDE DEF s3, s
  <2> QED BY <1>14, <2>3, <2>4, Zenon
<1>19. closed = IF N[n].open = 1
                  THEN Dereference([node |-> C, table |-> [T EXCEPT ![N[n].name] = None]], n)
                  ELSE [node |-> C, table |-> T]
  <2>1. name = N[n].name
    BY <1>16, <1>17
  <2>2. r.open = N[n].open
    BY <1>4, <1>7, <1>12
  <2>3. N[n].open = 1 => T[N[n].name] # None
    BY FileNodeAssumption DEF One
  <2>4. Forget(t, name) = [node |-> C, table |-> [T EXCEPT ![N[n].name] = None]]
    BY <1>16, <2>1 DEF Forget
  <2>5. t.table = T
    BY <1>16
  <2>6. CASE N[n].open = 1
    <3>1. r.open = 1 /\ t.table[name] # None
      BY <2>1, <2>2, <2>3, <2>5, <2>6
    <3> HIDE DEF name
    <3> QED BY <2>4, <2>6, <3>1
  <2>7. CASE N[n].open # 1
    <3> HIDE DEF name
    <3> QED BY <1>16, <2>2, <2>7
  <2> QED BY <2>6, <2>7
<1> HIDE DEF closed
<1>20. CloseNode([node |-> N, table |-> T], n, f, share, handles)
       = IF N[n].open = 1
           THEN Dereference([node |-> C, table |-> [T EXCEPT ![N[n].name] = None]], n)
           ELSE [node |-> C, table |-> T]
  BY <1>18, <1>19
<1> QED BY <1>1, <1>3, <1>20 DEF Shut, TableLeft

LEMMA AccessGains ==
  ASSUME NEW N, NodesOK(N), NEW F, Uses(N, F), NEW f \in Files, NEW q, q = F[f], NEW r,
         NEW n \in Nodes, NEW mode, NEW by, Takes(q, r, n, mode, by),
         NEW M, Shares(N[n], M[n], f, mode, by),
         \A k \in Nodes : k # n => M[k].share = N[k].share
  PROVE  AccessFits(N, M, f, q, r, n, mode, by)
<1> SUFFICES ASSUME NEW k \in Nodes
             PROVE
           /\ DeleterGain(q, r, k) = OnlyAt(k, n, IF mode.delete THEN by ELSE 0)
           /\ DenierGain(N, q, r, k) = IF k = N[n].main /\ Denying(mode) THEN by ELSE 0
           /\ M[k].share = IF r.node = k /\ r.pc \in HasHandle /\ HasAccess(r.mode)
                             THEN N[k].share \cup {f} ELSE N[k].share \ {f}
  BY DEF AccessFits
<1>1. f \in N[k].share <=> q.node = k /\ q.pc \in HasHandle /\ HasAccess(q.mode)
  BY DEF Uses, SharersAt, HandlesAt
<1>2. DeniesTo(N, r, k) <=> r.pc \in HasHandle /\ Denying(r.mode)
                              /\ \E j \in Nodes : N[j].main = k /\ r.node = j
  BY DEF DeniesTo, Denies, Denying
<1>3. DeniesTo(N, q, k) <=> q.pc \in HasHandle /\ Denying(q.mode)
                              /\ \E j \in Nodes : N[j].main = k /\ q.node = j
  BY DEF DeniesTo, Denies, Denying
<1>4. CASE by = 1
  <2>1. q.pc \notin HasHandle /\ r.pc \in HasHandle /\ r.node = n /\ r.mode = mode
    BY <1>4 DEF Takes
  <2>2. DeleterGain(q, r, k) = OnlyAt(k, n, IF mode.delete THEN by ELSE 0)
    BY <1>4, <2>1 DEF DeleterGain, Indicator, OnlyAt
  <2>3. DeniesTo(N, r, k) <=> k = N[n].main /\ Denying(mode)
    BY <1>2, <2>1
  <2>4. ~DeniesTo(N, q, k)
    BY <1>3, <2>1
  <2>5. DenierGain(N, q, r, k) = IF k = N[n].main /\ Denying(mode) THEN by ELSE 0
    BY <1>4, <2>3, <2>4 DEF DenierGain, Indicator
  <2>6. M[n].share = IF HasAccess(mode) THEN N[n].share \cup {f} ELSE N[n].share
    BY <1>4 DEF Shares
  <2>7. f \notin N[k].share
    BY <1>1, <2>1
  <2>8. M[k].share = IF r.node = k /\ r.pc \in HasHandle /\ HasAccess(r.mode)
                       THEN N[k].share \cup {f} ELSE N[k].share \ {f}
    BY <2>1, <2>6, <2>7
  <2> QED BY <2>2, <2>5, <2>8
<1>5. CASE by = 0 - 1
  <2>1. q.pc \in HasHandle /\ r.pc \notin HasHandle /\ q.node = n /\ q.mode = mode
    BY <1>5 DEF Takes
  <2>2. DeleterGain(q, r, k) = OnlyAt(k, n, IF mode.delete THEN by ELSE 0)
    BY <1>5, <2>1 DEF DeleterGain, Indicator, OnlyAt
  <2>3. DeniesTo(N, q, k) <=> k = N[n].main /\ Denying(mode)
    BY <1>3, <2>1
  <2>4. ~DeniesTo(N, r, k)
    BY <1>2, <2>1
  <2>5. DenierGain(N, q, r, k) = IF k = N[n].main /\ Denying(mode) THEN by ELSE 0
    BY <1>5, <2>3, <2>4 DEF DenierGain, Indicator
  <2>6. M[n].share = N[n].share \ {f}
    BY <1>5 DEF Shares
  <2>7. k # n => f \notin N[k].share
    BY <1>1, <2>1
  <2>8. M[k].share = N[k].share \ {f}
    BY <2>6, <2>7
  <2> QED BY <2>1, <2>2, <2>5, <2>8
<1>6. CASE by = 0
  <2>1. /\ q.pc \in HasHandle <=> r.pc \in HasHandle
        /\ r.pc \in HasHandle => q.node = r.node /\ q.mode = r.mode
    BY <1>6 DEF Takes
  <2>2. DeleterGain(q, r, k) = 0
    BY <2>1 DEF DeleterGain, Indicator
  <2>3. DeniesTo(N, q, k) <=> DeniesTo(N, r, k)
    BY <1>2, <1>3, <2>1
  <2>4. DenierGain(N, q, r, k) = 0
    BY <2>3 DEF DenierGain, Indicator
  <2>5. M[n].share = N[n].share
    BY <1>6 DEF Shares
  <2>6. M[k].share = N[k].share
    BY <2>5
  <2>7. r.node = k /\ r.pc \in HasHandle /\ HasAccess(r.mode) <=> f \in N[k].share
    BY <1>1, <2>1
  <2>8. M[k].share = IF r.node = k /\ r.pc \in HasHandle /\ HasAccess(r.mode)
                       THEN N[k].share \cup {f} ELSE N[k].share \ {f}
    BY <2>6, <2>7
  <2> QED BY <1>6, <2>2, <2>4, <2>8 DEF OnlyAt
<1> QED BY <1>4, <1>5, <1>6 DEF Takes

(* What nothing holds is free, and the other way around.                   *)
LEMMA FreeUnheld ==
  ASSUME NEW N, NEW T, NEW F, NEW owed, Refs(N, T, F, owed), owed \in [Nodes -> Nat],
         NEW k \in Nodes
  PROVE  /\ N[k].refs \in Nat
         /\ N[k].refs = 0 <=> Unheld(N, T, F, k) /\ owed[k] = 0
<1>1. PICK a, b, c, d, e : /\ a = Cardinality(FilesAt(F, k)) /\ b = Cardinality(ExtrasAt(F, k))
                           /\ c = Cardinality(NamesAt(T, k)) /\ d = Cardinality(StreamsAt(N, k))
                           /\ e = owed[k]
  OBVIOUS
<1>2. a \in Nat /\ b \in Nat /\ c \in Nat /\ d \in Nat /\ e \in Nat
  <2>1. /\ Cardinality(FilesAt(F, k)) \in Nat /\ Cardinality(ExtrasAt(F, k)) \in Nat
        /\ Cardinality(NamesAt(T, k)) \in Nat /\ Cardinality(StreamsAt(N, k)) \in Nat
    BY HoldersCounted
  <2>2. owed[k] \in Nat
    OBVIOUS
  <2> QED BY <1>1, <2>1, <2>2
<1>3. N[k].refs = a + b + c + d + e
  BY <1>1 DEF Refs
<1>4. a + b + c + d + e \in Nat
      /\ (a + b + c + d + e = 0 <=> a = 0 /\ b = 0 /\ c = 0 /\ d = 0 /\ e = 0)
  BY <1>2
<1>5. Unheld(N, T, F, k) <=> a = 0 /\ b = 0 /\ c = 0 /\ d = 0
  <2>1. /\ a = 0 <=> FilesAt(F, k) = {}
        /\ b = 0 <=> ExtrasAt(F, k) = {}
        /\ c = 0 <=> NamesAt(T, k) = {}
        /\ d = 0 <=> StreamsAt(N, k) = {}
    BY <1>1, HoldersCounted
  <2> QED BY <2>1 DEF Unheld
<1> QED BY <1>1, <1>3, <1>4, <1>5

(* One file object and the counts of one node change together.             *)
LEMMA Step ==
  ASSUME NEW N, NEW T, NEW F, NEW owed, Acc(N, T, F, owed), owed \in [Nodes -> Nat],
         NEW f \in Files, NEW q, q = F[f], NEW r, r \in FileType, FileOK(r),
         NEW M, M \in [Nodes -> NodeType], NEW U, One(M, U), NEW o, o \in [Nodes -> Nat],
         NEW n \in Nodes, N[n].refs # 0, NEW mode, NEW by, Takes(q, r, n, mode, by),
         NEW refs \in {0, 1}, NEW active \in Int, NEW open, NEW handles \in Int,
         Changes(N, M, n, f, mode, by, refs, active, open, handles),
         open \in {0, N[n].active + active},
         Gains(q, r, T, U, owed, o, n, refs, active, handles)
  PROVE  Acc(M, U, At1(F, f, r), o)
<1>0. \A k \in Nodes :
           /\ NodeGain(q, r, k) + ExtraGain(q, r, k) + NamesGain(T, U, k) + o[k] - owed[k]
              = OnlyAt(k, n, refs)
           /\ UserGain(q, r, k) + ExtraGain(q, r, k) = OnlyAt(k, n, active)
           /\ HandleGain(q, r, k) + ExtraGain(q, r, k) = OnlyAt(k, n, handles)
  BY DEF Gains
<1>1. NodesOK(N) /\ Refs(N, T, F, owed) /\ Uses(N, F)
  BY DEF Acc
<1>2. /\ \A k \in Nodes : Alike(N[k], M[k])
      /\ \A k \in Nodes : k # n => Kept(N[k], M[k])
      /\ Counts(N[n], M[n], refs, active, open, handles)
      /\ Shares(N[n], M[n], f, mode, by)
      /\ \A k \in Nodes : M[k].denyStream = IF k = N[n].main /\ Denying(mode)
                                              THEN N[k].denyStream + by ELSE N[k].denyStream
  BY DEF Changes
<1>3. \A k \in Nodes :
           /\ DeleterGain(q, r, k) = OnlyAt(k, n, IF mode.delete THEN by ELSE 0)
           /\ DenierGain(N, q, r, k) = IF k = N[n].main /\ Denying(mode) THEN by ELSE 0
           /\ M[k].share = IF r.node = k /\ r.pc \in HasHandle /\ HasAccess(r.mode)
                             THEN N[k].share \cup {f} ELSE N[k].share \ {f}
  <2>1. \A k \in Nodes : k # n => M[k].share = N[k].share
    BY <1>2 DEF Kept
  <2>2. AccessFits(N, M, f, q, r, n, mode, by)
    BY <1>1, <1>2, <2>1, AccessGains
  <2> QED BY <2>2 DEF AccessFits
<1>4. \A k \in Nodes : /\ N[k].refs \in Int /\ N[k].active \in Int /\ N[k].handles \in Int
                       /\ N[k].denyDelete \in Int /\ N[k].denyStream \in Int
                       /\ M[k].refs \in Int
                       /\ N[k] \in NodeType /\ M[k] \in NodeType
  BY <1>1 DEF NodesOK, NodeType
<1>5. N[n].refs > 0
  BY <1>1, FreeUnheld
<1>6. Follow(N, M, T, U, q, r, f, owed, o)
  <2> SUFFICES ASSUME NEW k \in Nodes
               PROVE
    /\ M[k].name = N[k].name /\ M[k].main = N[k].main
    /\ M[k].refs = N[k].refs + NodeGain(q, r, k) + ExtraGain(q, r, k)
                   + NamesGain(T, U, k) + o[k] - owed[k]
    /\ M[k].active = N[k].active + UserGain(q, r, k) + ExtraGain(q, r, k)
    /\ M[k].open \in {0, M[k].active}
    /\ M[k].handles = N[k].handles + HandleGain(q, r, k) + ExtraGain(q, r, k)
    /\ M[k].share = IF r.node = k /\ r.pc \in HasHandle /\ HasAccess(r.mode)
                      THEN N[k].share \cup {f} ELSE N[k].share \ {f}
    /\ M[k].denyDelete = IF N[k].main = None THEN N[k].denyDelete + DeleterGain(q, r, k) ELSE 0
    /\ M[k].denyStream = N[k].denyStream + DenierGain(N, q, r, k)
    /\ N[k].refs = 0 => M[k] = N[k]
    /\ M[k].refs = 0 => N[k].refs = 0
    BY DEF Follow
  <2>1. M[k].name = N[k].name /\ M[k].main = N[k].main
    BY <1>2 DEF Alike
  <2>2. /\ M[k].refs = N[k].refs + OnlyAt(k, n, refs)
        /\ M[k].active = N[k].active + OnlyAt(k, n, active)
        /\ M[k].handles = N[k].handles + OnlyAt(k, n, handles)
    <3>1. CASE k = n
      BY <1>2, <3>1 DEF Counts, OnlyAt
    <3>2. CASE k # n
      BY <1>2, <1>4, <3>2 DEF Kept, OnlyAt
    <3> QED BY <3>1, <3>2
  <2>3. /\ NodeGain(q, r, k) \in Int /\ ExtraGain(q, r, k) \in Int
        /\ HandleGain(q, r, k) \in Int /\ UserGain(q, r, k) \in Int
        /\ NamesGain(T, U, k) \in Int
    BY GainsAreIntegers, Zenon
  <2>4. o[k] \in Nat /\ owed[k] \in Nat
    OBVIOUS
  <2>5. M[k].refs = N[k].refs + NodeGain(q, r, k) + ExtraGain(q, r, k)
                   + NamesGain(T, U, k) + o[k] - owed[k]
    <3>1. NodeGain(q, r, k) + ExtraGain(q, r, k) + NamesGain(T, U, k) + o[k] - owed[k]
          = OnlyAt(k, n, refs)
      BY <1>0
    <3>2. N[k].refs \in Int
      BY <1>4
    <3> QED BY <2>2, <2>3, <2>4, <3>1, <3>2
  <2>6. M[k].active = N[k].active + UserGain(q, r, k) + ExtraGain(q, r, k)
    <3>1. UserGain(q, r, k) + ExtraGain(q, r, k) = OnlyAt(k, n, active)
      BY <1>0
    <3>2. N[k].active \in Int
      BY <1>4
    <3> QED BY <2>2, <2>3, <3>1, <3>2
  <2>7. M[k].handles = N[k].handles + HandleGain(q, r, k) + ExtraGain(q, r, k)
    <3>1. HandleGain(q, r, k) + ExtraGain(q, r, k) = OnlyAt(k, n, handles)
      BY <1>0
    <3>2. N[k].handles \in Int
      BY <1>4
    <3> QED BY <2>2, <2>3, <3>1, <3>2
  <2>8. M[k].open \in {0, M[k].active}
    <3>1. CASE k = n
      BY <1>2, <3>1 DEF Counts
    <3>2. CASE k # n
      <4>1. M[k].open = N[k].open /\ M[k].active = N[k].active
        BY <1>2, <3>2 DEF Kept
      <4>2. N[k].open \in {0, N[k].active}
        BY <1>1 DEF Uses
      <4> QED BY <4>1, <4>2
    <3> QED BY <3>1, <3>2
  <2>9. M[k].denyDelete = IF N[k].main = None THEN N[k].denyDelete + DeleterGain(q, r, k) ELSE 0
    <3>1. DeleterGain(q, r, k) = OnlyAt(k, n, IF mode.delete THEN by ELSE 0)
      BY <1>3
    <3>2. N[k].denyDelete \in Int
      BY <1>4
    <3>3. N[k].main # None => N[k].denyDelete = 0
      BY <1>1 DEF Uses
    <3>4. CASE k = n
      BY <1>2, <3>1, <3>2, <3>3, <3>4 DEF Shares, OnlyAt
    <3>5. CASE k # n
      BY <1>2, <3>1, <3>2, <3>3, <3>5 DEF Kept, OnlyAt
    <3> QED BY <3>4, <3>5
  <2>10. M[k].denyStream = N[k].denyStream + DenierGain(N, q, r, k)
    <3>1. DenierGain(N, q, r, k) = IF k = N[n].main /\ Denying(mode) THEN by ELSE 0
      BY <1>3
    <3>2. N[k].denyStream \in Int
      BY <1>4
    <3>3. M[k].denyStream = IF k = N[n].main /\ Denying(mode)
                              THEN N[k].denyStream + by ELSE N[k].denyStream
      BY <1>2
    <3> QED BY <3>1, <3>2, <3>3
  <2>11. N[k].refs = 0 => M[k] = N[k]
    <3> SUFFICES ASSUME N[k].refs = 0 PROVE M[k] = N[k]
      OBVIOUS
    <3>1. k # n
      BY <1>5
    <3>2. N[k] = FreeNode
      BY <1>1 DEF NodesOK
    <3>3. Unheld(N, T, F, k)
      BY <1>1, FreeUnheld
    <3>4. k # N[n].main
      BY <3>3 DEF Unheld, StreamsAt
    <3>5. Kept(N[k], M[k]) /\ Alike(N[k], M[k]) /\ M[k].denyStream = N[k].denyStream
      BY <1>2, <3>1, <3>4
    <3>6. N[k] \in NodeType /\ M[k] \in NodeType
      BY <1>4
    <3>7. PICK a, b : a = N[k] /\ b = M[k]
      OBVIOUS
    <3>8. a \in NodeType /\ b \in NodeType
      BY <3>6, <3>7
    <3>9. Kept(a, b) /\ Alike(a, b) /\ b.denyStream = a.denyStream
      BY <3>5, <3>7
    <3>10. a = b
      BY <3>8, <3>9 DEF Kept, Alike, NodeType
    <3> QED BY <3>7, <3>10
  <2>12. M[k].refs = 0 => N[k].refs = 0
    <3>1. CASE k = n
      BY <1>5, <2>2, <3>1, <1>4 DEF OnlyAt
    <3>2. CASE k # n
      BY <1>2, <3>2 DEF Kept
    <3> QED BY <3>1, <3>2
  <2> QED BY <1>3, <2>1, <2>5, <2>6, <2>7, <2>8, <2>9, <2>10, <2>11, <2>12
<1> QED BY <1>6, Moves

-----------------------------------------------------------------------------
(* What a step of one file object keeps of the names and of the nodes of   *)
(* the Creates.                                                            *)
LEMMA At1Is ==
  ASSUME NEW F, F \in [Files -> FileType], NEW f \in Files, NEW r
  PROVE  At1(F, f, r)[f] = r /\ \A g \in Files : g # f => At1(F, f, r)[g] = F[g]
BY DEF At1

LEMMA OwnMoves ==
  ASSUME NEW N, NEW T, NEW F, F \in [Files -> FileType], Own(N, T, F), NEW f \in Files,
         NEW r, NEW M, NEW U, \A k \in Nodes : M[k].main = N[k].main,
         \A g \in Files \ {f} : F[g].pc \in Private =>
            r.node # F[g].node /\ r.extra # F[g].node /\ \A x \in Names : U[x] # F[g].node,
         r.pc \in Private => /\ F[f].pc \in Private /\ r.node = F[f].node /\ r.extra # r.node
                             /\ \A x \in Names : U[x] # r.node
  PROVE  Own(M, U, At1(F, f, r))
<1>1. PICK G : G = At1(F, f, r)
  OBVIOUS
<1>2. G[f] = r /\ \A g \in Files : g # f => G[g] = F[g]
  BY <1>1, At1Is
<1>3. ASSUME NEW g \in Files, G[g].pc \in Private
      PROVE  LET n == G[g].node
             IN /\ \A h \in Files : (h # g => G[h].node # n) /\ G[h].extra # n
                /\ \A x \in Names : U[x] # n
                /\ \A k \in Nodes : M[k].main # n
  <2>1. CASE g = f
    <3>1. F[f].pc \in Private /\ r.node = F[f].node /\ r.extra # r.node
          /\ \A x \in Names : U[x] # r.node
      BY <1>2, <1>3, <2>1
    <3>2. /\ \A h \in Files : (h # f => F[h].node # r.node) /\ F[h].extra # r.node
          /\ \A k \in Nodes : N[k].main # r.node
      BY <3>1 DEF Own
    <3> QED BY <1>2, <2>1, <3>1, <3>2
  <2>2. CASE g # f
    <3>1. G[g] = F[g] /\ F[g].pc \in Private
      BY <1>2, <1>3, <2>2
    <3>2. /\ \A h \in Files : (h # g => F[h].node # F[g].node) /\ F[h].extra # F[g].node
          /\ \A k \in Nodes : N[k].main # F[g].node
      BY <3>1 DEF Own
    <3>3. r.node # F[g].node /\ r.extra # F[g].node /\ \A x \in Names : U[x] # F[g].node
      BY <2>2, <3>1
    <3> QED BY <1>2, <2>2, <3>1, <3>2, <3>3
  <2> QED BY <2>1, <2>2
<1> QED BY <1>1, <1>3 DEF Own

(* The node stays, or there is none any longer; the names in the table     *)
(* stay, or lead nowhere.                                                  *)
LEMMA OwnStays ==
  ASSUME NEW N, NEW T, NEW F, F \in [Files -> FileType], \A g \in Files : FileOK(F[g]),
         Own(N, T, F), NEW f \in Files,
         NEW r, NEW M, NEW U, \A k \in Nodes : M[k].main = N[k].main,
         \A x \in Names : U[x] \in {T[x], None},
         r.node \in {F[f].node, None}, r.extra \in {F[f].extra, None},
         r.pc \in Private => F[f].pc \in Private /\ r.node = F[f].node
  PROVE  Own(M, U, At1(F, f, r))
<1>1. \A g \in Files : F[g].pc \in Private => F[g].node \in Nodes /\ F[g].node # None
  <2>1. \A label \in Private : label \notin Ended
    BY DEF Private, Ended
  <2> QED BY <2>1, FileNodeAssumption DEF FileOK
<1>2. ASSUME NEW g \in Files \ {f}, F[g].pc \in Private
      PROVE  r.node # F[g].node /\ r.extra # F[g].node /\ \A x \in Names : U[x] # F[g].node
  BY <1>1, <1>2 DEF Own
<1>3. ASSUME r.pc \in Private
      PROVE  r.extra # r.node /\ \A x \in Names : U[x] # r.node
  BY <1>1, <1>3 DEF Own
<1> QED BY <1>2, <1>3, OwnMoves

LEMMA NamedStays ==
  ASSUME NEW N, NEW F, F \in [Files -> FileType], Named(N, F), NEW f \in Files,
         NEW r, NEW M, \A k \in Nodes : M[k].name = N[k].name,
         F[f].pc \notin Ended, r.pc # "new", r.pc # "done" => r.name = F[f].name,
         r.node \in Nodes => N[r.node].name[2] = r.name[2],
         r.pc = "main" => F[f].pc = "main" /\ r.main = F[f].main,
         r.pc = "rename" => /\ F[f].pc = "rename" /\ r.to = F[f].to /\ r.node = F[f].node
  PROVE  Named(M, At1(F, f, r))
<1>1. PICK G : G = At1(F, f, r)
  OBVIOUS
<1>2. G[f] = r /\ \A g \in Files : g # f => G[g] = F[g]
  BY <1>1, At1Is
<1>3. ASSUME NEW g \in Files
      PROVE  /\ G[g].node \in Nodes => M[G[g].node].name[2] = G[g].name[2]
             /\ G[g].pc = "main" =>
                  /\ G[G[g].main].pc # "new"
                  /\ G[G[g].main].pc # "done" => G[G[g].main].name[2] = NoStream
             /\ G[g].pc = "rename" =>
                  /\ G[g].to \in FileNames
                  /\ G[g].node \in Nodes => G[g].to # M[G[g].node].name[1]
                  /\ \A h \in Files : G[h].pc = "rename" => h = g
  <2>1. G[g].node \in Nodes => M[G[g].node].name[2] = G[g].name[2]
    BY <1>2 DEF Named
  <2>2. ASSUME G[g].pc = "main"
        PROVE  /\ G[G[g].main].pc # "new"
               /\ G[G[g].main].pc # "done" => G[G[g].main].name[2] = NoStream
    <3>1. F[g].pc = "main" /\ G[g].main = F[g].main
      BY <1>2, <2>2
    <3>2. PICK m : m = F[g].main
      OBVIOUS
    <3>3. F[m].pc # "new" /\ (F[m].pc # "done" => F[m].name[2] = NoStream)
      BY <3>1, <3>2 DEF Named
    <3>4. CASE m = f
      BY <1>2, <3>1, <3>2, <3>3, <3>4 DEF Ended
    <3>5. CASE m # f /\ m \in Files
      BY <1>2, <3>1, <3>2, <3>3, <3>5
    <3>6. CASE m \notin Files
      BY <1>1, <3>1, <3>2, <3>3, <3>6 DEF At1
    <3> QED BY <3>4, <3>5, <3>6
  <2>3. ASSUME G[g].pc = "rename"
        PROVE  /\ G[g].to \in FileNames
               /\ G[g].node \in Nodes => G[g].to # M[G[g].node].name[1]
               /\ \A h \in Files : G[h].pc = "rename" => h = g
    <3>1. \A h \in Files : G[h].pc = "rename" =>
            F[h].pc = "rename" /\ G[h].to = F[h].to /\ G[h].node = F[h].node
      BY <1>2
    <3> QED BY <2>3, <3>1 DEF Named
  <2> QED BY <2>1, <2>2, <2>3
<1> QED BY <1>1, <1>3 DEF Named

-----------------------------------------------------------------------------
(* The end of a file object's use of a node. *)
LEMMA NameSet ==
  ASSUME NEW T, NEW U, NEW x \in Names, NEW v, Put(T, U, x, v), NEW k
  PROVE  NamesGain(T, U, k) = (IF v = k THEN 1 ELSE 0) - (IF T[x] = k THEN 1 ELSE 0)
<1>1. U[x] = v /\ \A y \in Names : y # x => U[y] = T[y]
  BY DEF Put
<1>2. /\ NamesAt(T, k) \subseteq Names /\ NamesAt(U, k) \subseteq Names
      /\ \A y \in Names : y # x => (y \in NamesAt(T, k) <=> y \in NamesAt(U, k))
      /\ x \in NamesAt(U, k) <=> v = k
      /\ x \in NamesAt(T, k) <=> T[x] = k
  BY <1>1 DEF NamesAt
<1>3. /\ Cardinality(NamesAt(T, k)) \in Nat
      /\ Cardinality(NamesAt(U, k)) = Cardinality(NamesAt(T, k))
           + Indicator(x \in NamesAt(U, k)) - Indicator(x \in NamesAt(T, k))
  BY <1>2, NamesFinite, CountStep
<1> QED BY <1>2, <1>3 DEF NamesGain, Indicator

LEMMA NamesStay ==
  ASSUME NEW T, NEW k
  PROVE  NamesGain(T, T, k) = 0
<1>1. NamesAt(T, k) \subseteq Names
  BY DEF NamesAt
<1>2. Cardinality(NamesAt(T, k)) \in Nat
  BY <1>1, NamesFinite, CountIs
<1> QED BY <1>2 DEF NamesGain

LEMMA OweNothing == \A n : Owe(n, 0) = Nothing
BY DEF Owe, Nothing

LEMMA LabelsDiffer ==
  /\ HasHandle \subseteq UserPC /\ "cleaned" \in UserPC /\ "cleaned" \notin HasHandle
  /\ "done" \notin UserPC /\ "again" \notin UserPC /\ "done" \notin Refusing
  /\ "again" \notin Refusing /\ "again" \notin Ended /\ "again" \in Private
  /\ \A label \in Refusing : label \in Private /\ label # "main" /\ label # "create"
  /\ \A label \in Private : label \notin UserPC /\ label \notin HasHandle /\ label \notin Ended
  /\ \A label \in HasHandle \cup {"cleaned"} :
       label \notin Ended /\ label \notin Private /\ label \notin Refusing
  /\ "done" \in Ended /\ "done" \notin Private /\ "new" \in Ended
BY DEF HasHandle, UserPC, Refusing, Ended, Private

LEMMA LeavesGains ==
  ASSUME NEW q, FileOK(q), NEW r, NEW n \in Nodes, NEW share, NEW handles,
         Leaves(q, r, n, share, handles)
  PROVE  \A k \in Nodes :
           /\ NodeGain(q, r, k) + ExtraGain(q, r, k) = 0 - Indicator(k = n)
           /\ UserGain(q, r, k) + ExtraGain(q, r, k) = OnlyAt(k, n, -1)
           /\ HandleGain(q, r, k) + ExtraGain(q, r, k) = OnlyAt(k, n, 0 - handles)
<1> SUFFICES ASSUME NEW k \in Nodes
             PROVE
           /\ NodeGain(q, r, k) + ExtraGain(q, r, k) = 0 - Indicator(k = n)
           /\ UserGain(q, r, k) + ExtraGain(q, r, k) = OnlyAt(k, n, -1)
           /\ HandleGain(q, r, k) + ExtraGain(q, r, k) = OnlyAt(k, n, 0 - handles)
  OBVIOUS
<1>0. k # None
  BY FileNodeAssumption
<1>1. CASE share /\ handles = 1 /\ q.pc \in HasHandle /\ q.node = n /\ Gone(r)
  <2>1. q.extra = None /\ q.pc \in UserPC
    BY <1>1, LabelsDiffer DEF FileOK
  <2>2. r.pc \notin HasHandle /\ r.pc \notin UserPC /\ r.node = None /\ r.extra = None
    BY <1>1, LabelsDiffer DEF Gone
  <2>3. NodeGain(q, r, k) = 0 - Indicator(k = n) /\ ExtraGain(q, r, k) = 0
    BY <1>0, <1>1, <2>1, <2>2 DEF NodeGain, ExtraGain, Indicator
  <2>4. UserGain(q, r, k) = OnlyAt(k, n, -1)
    BY <1>0, <1>1, <2>1, <2>2 DEF UserGain, Indicator, OnlyAt
  <2>5. HandleGain(q, r, k) = OnlyAt(k, n, 0 - handles)
    BY <1>0, <1>1, <2>1, <2>2 DEF HandleGain, Indicator, OnlyAt
  <2> QED BY <1>1, <2>3, <2>4, <2>5 DEF Indicator, OnlyAt
<1>2. CASE ~share /\ handles = 0 /\ q.pc = "cleaned" /\ q.node = n /\ Gone(r)
  <2>1. q.extra = None /\ q.pc \in UserPC /\ q.pc \notin HasHandle
    BY <1>2, LabelsDiffer DEF FileOK
  <2>2. r.pc \notin HasHandle /\ r.pc \notin UserPC /\ r.node = None /\ r.extra = None
    BY <1>2, LabelsDiffer DEF Gone
  <2>3. NodeGain(q, r, k) = 0 - Indicator(k = n) /\ ExtraGain(q, r, k) = 0
    BY <1>0, <1>2, <2>1, <2>2 DEF NodeGain, ExtraGain, Indicator
  <2>4. UserGain(q, r, k) = OnlyAt(k, n, -1)
    BY <1>0, <1>2, <2>1, <2>2 DEF UserGain, Indicator, OnlyAt
  <2>5. HandleGain(q, r, k) = 0
    BY <2>1, <2>2 DEF HandleGain, Indicator
  <2> QED BY <1>2, <2>3, <2>4, <2>5 DEF Indicator, OnlyAt
<1>3. CASE /\ ~share /\ handles = 1 /\ q.pc \in Refusing /\ q.extra = n
           /\ r.pc = "again" /\ r.extra = None /\ r.node = q.node
  <2>1. q.pc \notin UserPC /\ q.pc \notin HasHandle
    BY <1>3, LabelsDiffer
  <2>2. r.pc \notin HasHandle /\ r.pc \notin UserPC
    BY <1>3, LabelsDiffer
  <2>3. NodeGain(q, r, k) = 0 /\ ExtraGain(q, r, k) = 0 - Indicator(k = n)
    BY <1>0, <1>3 DEF NodeGain, ExtraGain, Indicator
  <2>4. UserGain(q, r, k) = 0 /\ HandleGain(q, r, k) = 0
    BY <2>1, <2>2 DEF UserGain, HandleGain, Indicator
  <2> QED BY <1>3, <2>3, <2>4 DEF Indicator, OnlyAt
<1> QED BY <1>1, <1>2, <1>3 DEF Leaves

(* A node that is used has references and a name. *)
LEMMA UsedNode ==
  ASSUME NEW N, NEW T, NEW F, NEW owed, Acc(N, T, F, owed), owed \in [Nodes -> Nat],
         NEW f \in Files, NEW n \in Nodes, F[f].node = n \/ F[f].extra = n
  PROVE  N[n].refs # 0 /\ N[n].name \in Names /\ N[n].main # n /\ N[n] \in NodeType
<1>1. ~Unheld(N, T, F, n)
  BY DEF Unheld, FilesAt, ExtrasAt
<1>2. N[n].refs # 0
  BY <1>1, FreeUnheld DEF Acc
<1>3. N[n].main # n
  BY FileNodeAssumption DEF Acc, NodesOK
<1> QED BY <1>2, <1>3 DEF Acc, NodesOK

LEMMA CloseCounts ==
  ASSUME NEW N, NEW T, NEW F, Acc(N, T, F, Nothing), NEW f \in Files, NEW r, r \in FileType,
         FileOK(r), NEW n \in Nodes, NEW share, NEW handles, Leaves(F[f], r, n, share, handles)
  PROVE  LET C == Closed(N, n, f, F[f].mode, share, handles)
         IN /\ C \in [Nodes -> NodeType]
            /\ Changes(N, C, n, f, F[f].mode, Closing(share), 0, -1, OneLess(N[n].open),
                       0 - handles)
            /\ Acc(C, TableLeft(N, T, n), At1(F, f, r), OwedLeft(N, n))
<1>1. PICK q : q = F[f]
  OBVIOUS
<1>2. q \in FileType /\ FileOK(q) /\ q.mode \in AllModes
  BY <1>1 DEF Acc, FilesOK, FileType
<1>3. NodesOK(N) /\ Uses(N, F) /\ One(N, T) /\ N \in [Nodes -> NodeType]
  BY DEF Acc, NodesOK
<1>4. Nothing \in [Nodes -> Nat] /\ \A k \in Nodes : Nothing[k] = 0
  BY DEF Nothing
<1>5. q.node = n \/ q.extra = n
  BY <1>1 DEF Leaves
<1>6. N[n].refs # 0 /\ N[n].name \in Names /\ N[n].main # n
  BY <1>1, <1>4, <1>5, UsedNode
<1>7. handles \in {0, 1}
  BY DEF Leaves
<1>8. PICK C : C = Closed(N, n, f, q.mode, share, handles)
  OBVIOUS
<1>9. PICK by, open, less : by = Closing(share) /\ open = OneLess(N[n].open) /\ less = 0 - handles
  OBVIOUS
<1>10. C \in [Nodes -> NodeType] /\ Changes(N, C, n, f, q.mode, by, 0, -1, open, less)
  BY <1>2, <1>3, <1>6, <1>7, <1>8, <1>9, ClosedChanges
<1>11. PICK U : U = TableLeft(N, T, n)
  OBVIOUS
<1>12. PICK o : o = OwedLeft(N, n)
  OBVIOUS
<1>13. o \in [Nodes -> Nat]
  BY <1>12 DEF OwedLeft, Owe
<1>14. N[n].open \in Int /\ N[n].active \in Nat /\ N[n].open \in {0, N[n].active}
  <2>1. N[n].open \in Int
    BY <1>3 DEF NodeType
  <2>2. N[n].active = Cardinality(UsersAt(F, n)) + Cardinality(ExtrasAt(F, n))
        /\ N[n].open \in {0, N[n].active}
    BY <1>3 DEF Uses
  <2>3. Cardinality(UsersAt(F, n)) \in Nat /\ Cardinality(ExtrasAt(F, n)) \in Nat
    BY HoldersCounted, UsersCounted
  <2> QED BY <2>1, <2>2, <2>3
<1>15. open \in {0, N[n].active + (-1)}
  BY <1>9, <1>14 DEF OneLess
<1>16. Takes(q, r, n, q.mode, by)
  <2>1. CASE share
    <3>1. by = 0 - 1
      BY <1>9, <2>1 DEF Closing
    <3>2. q.pc \in HasHandle /\ q.node = n /\ r.pc = "done"
      BY <1>1, <2>1 DEF Leaves, Gone
    <3> QED BY <3>1, <3>2, LabelsDiffer DEF Takes
  <2>2. CASE ~share
    <3>1. by = 0
      BY <1>9, <2>2 DEF Closing
    <3>2. q.pc \notin HasHandle /\ r.pc \notin HasHandle
      BY <1>1, <2>2, LabelsDiffer DEF Leaves, Gone
    <3> QED BY <3>1, <3>2 DEF Takes
  <2> QED BY <2>1, <2>2
<1>17. One(C, U)
  <2>1. \A k \in Nodes : C[k].name = N[k].name
    BY <1>10 DEF Changes, Alike
  <2>2. \A k \in Nodes : k # n => C[k].open = N[k].open
    BY <1>10 DEF Changes, Kept
  <2>3. C[n].open = open
    BY <1>10 DEF Changes, Counts
  <2>4. T \in TableType
    BY <1>3 DEF One
  <2>5. CASE N[n].open = 1
    <3>1. U = [T EXCEPT ![N[n].name] = None]
      BY <1>11, <2>5 DEF TableLeft
    <3>2. U \in TableType /\ U[N[n].name] = None
          /\ \A x \in Names : x # N[n].name => U[x] = T[x]
      BY <1>6, <2>4, <3>1 DEF TableType
    <3>3. C[n].open = 0
      BY <1>9, <2>3, <2>5 DEF OneLess
    <3>4. T[N[n].name] = n
      BY <1>3, <2>5 DEF One
    <3>5. ASSUME NEW k \in Nodes, C[k].open > 0 PROVE U[C[k].name] = k
      <4>1. k # n /\ N[k].open > 0
        BY <2>2, <3>3, <3>5
      <4>2. T[N[k].name] = k
        BY <1>3, <4>1 DEF One
      <4>3. k # None
        BY FileNodeAssumption
      <4>4. N[k].name \in Names
        <5>1. NodesOK(N) /\ FreeNode.open = 0
          BY <1>3, FreeNodeIs
        <5> QED BY <4>1, <5>1 DEF NodesOK
      <4> QED BY <2>1, <3>2, <3>4, <4>1, <4>2, <4>4
    <3>6. ASSUME NEW x \in Names, U[x] # None PROVE C[U[x]].name = x /\ C[U[x]].open > 0
      <4>1. PICK k : k = U[x]
        OBVIOUS
      <4>2. x # N[n].name /\ T[x] = k /\ k \in Nodes
        BY <2>4, <3>2, <3>6, <4>1 DEF TableType
      <4>3. N[k].name = x /\ N[k].open > 0
        BY <1>3, <3>6, <4>1, <4>2 DEF One
      <4>4. k # n
        BY <4>2, <4>3
      <4> QED BY <2>1, <2>2, <4>1, <4>2, <4>3, <4>4
    <3> QED BY <3>2, <3>5, <3>6 DEF One
  <2>6. CASE N[n].open # 1
    <3>1. U = T
      BY <1>11, <2>6 DEF TableLeft
    <3>2. C[n].open > 0 <=> N[n].open > 0
      BY <1>9, <1>14, <2>3, <2>6 DEF OneLess
    <3>3. \A k \in Nodes : C[k].open > 0 <=> N[k].open > 0
      BY <2>2, <3>2
    <3>4. \A x \in Names : T[x] # None => T[x] \in Nodes
      BY <2>4 DEF TableType
    <3> QED BY <1>3, <2>1, <2>4, <3>1, <3>3, <3>4 DEF One
  <2> QED BY <2>5, <2>6
<1>18. ASSUME NEW k \in Nodes
       PROVE
           /\ NodeGain(q, r, k) + ExtraGain(q, r, k) + NamesGain(T, U, k) + o[k] - Nothing[k]
              = OnlyAt(k, n, 0)
           /\ UserGain(q, r, k) + ExtraGain(q, r, k) = OnlyAt(k, n, -1)
           /\ HandleGain(q, r, k) + ExtraGain(q, r, k) = OnlyAt(k, n, less)
  <2>1. /\ NodeGain(q, r, k) + ExtraGain(q, r, k) = 0 - Indicator(k = n)
        /\ UserGain(q, r, k) + ExtraGain(q, r, k) = OnlyAt(k, n, -1)
        /\ HandleGain(q, r, k) + ExtraGain(q, r, k) = OnlyAt(k, n, less)
    BY <1>1, <1>2, <1>9, LeavesGains
  <2>2. NamesGain(T, U, k) = 0 - (IF N[n].open = 1 /\ k = n THEN 1 ELSE 0)
    <3>1. CASE N[n].open = 1
      <4>1. U = [T EXCEPT ![N[n].name] = None]
        BY <1>11, <3>1 DEF TableLeft
      <4>2. NamesGain(T, U, k) = (IF None = k THEN 1 ELSE 0) - (IF T[N[n].name] = k THEN 1 ELSE 0)
        <5>1. T \in TableType
          BY <1>3 DEF One
        <5>2. PICK x : x = N[n].name
          OBVIOUS
        <5>3. x \in Names /\ Put(T, U, x, None)
          BY <1>6, <4>1, <5>1, <5>2 DEF Put, TableType
        <5>4. NamesGain(T, U, k) = (IF None = k THEN 1 ELSE 0) - (IF T[x] = k THEN 1 ELSE 0)
          BY <5>3, NameSet
        <5> QED BY <5>2, <5>4
      <4>3. T[N[n].name] = n /\ k # None
        BY <1>3, <3>1, FileNodeAssumption DEF One
      <4> QED BY <3>1, <4>2, <4>3
    <3>2. CASE N[n].open # 1
      BY <1>11, <3>2, NamesStay DEF TableLeft
    <3> QED BY <3>1, <3>2
  <2>3. o[k] = IF k = n THEN (IF N[n].open = 1 THEN 2 ELSE 1) ELSE 0
    BY <1>12 DEF OwedLeft, Owe
  <2>4. OnlyAt(k, n, 0) = 0 /\ Nothing[k] = 0
    BY <1>4 DEF OnlyAt
  <2>5. NodeGain(q, r, k) \in Int /\ ExtraGain(q, r, k) \in Int
    BY GainsAreIntegers, Zenon
  <2> QED BY <2>1, <2>2, <2>3, <2>4, <2>5 DEF Indicator
<1>19. Acc(C, U, At1(F, f, r), o)
  <2>1. PICK one : one = -1
    OBVIOUS
  <2>2. one \in Int /\ less \in Int /\ 0 \in {0, 1} /\ Nothing \in [Nodes -> Nat]
    BY <1>4, <1>7, <1>9, <2>1
  <2>3. Changes(N, C, n, f, q.mode, by, 0, one, open, less)
    BY <1>10, <2>1
  <2>4. open \in {0, N[n].active + one}
    BY <1>15, <2>1
  <2>5. Gains(q, r, T, U, Nothing, o, n, 0, one, less)
    BY <1>18, <2>1 DEF Gains
  <2> QED BY <1>1, <1>6, <1>10, <1>13, <1>16, <1>17, <2>2, <2>3, <2>4, <2>5, Step
<1> QED BY <1>1, <1>8, <1>9, <1>10, <1>11, <1>12, <1>19

-----------------------------------------------------------------------------
(* FspFileNodeClose followed by FspFileNodeDereference.                    *)
LEMMA RestTwice ==
  ASSUME NEW N, NEW L, NEW M, NEW T, NEW F, Rest(N, L, T, F), Rest(L, M, T, F),
         Acc(M, T, F, Nothing)
  PROVE  Rest(N, M, T, F)
<1> SUFFICES ASSUME NEW k \in Nodes
             PROVE (M[k] = FreeNode /\ Unheld(M, T, F, k)) \/ Same(M[k], N[k])
  BY DEF Rest
<1>1. CASE M[k] = FreeNode /\ Unheld(M, T, F, k)
  BY <1>1
<1>2. CASE Same(M[k], L[k]) /\ Same(L[k], N[k])
  BY <1>2 DEF Same
<1>3. CASE Same(M[k], L[k]) /\ L[k] = FreeNode /\ Unheld(L, T, F, k)
  <2>1. ASSUME NEW d \in Nodes, M[d].main = k PROVE FALSE
    <3>1. M[d] # FreeNode
      BY <2>1, FreeNodeIs, FileNodeAssumption
    <3>2. L[d].main = k
      BY <2>1, <3>1 DEF Rest, Same
    <3> QED BY <1>3, <3>2 DEF Unheld, StreamsAt
  <2>2. Unheld(M, T, F, k)
    BY <1>3, <2>1 DEF Unheld, StreamsAt
  <2>3. M[k].refs = 0
    <3>1. Nothing \in [Nodes -> Nat] /\ Nothing[k] = 0
      BY DEF Nothing
    <3> QED BY <2>2, <3>1, FreeUnheld DEF Acc
  <2> QED BY <2>2, <2>3 DEF Acc, NodesOK
<1> QED BY <1>1, <1>2, <1>3 DEF Rest

LEMMA Pay ==
  ASSUME NEW N, NEW T, NEW F, NEW n \in Nodes, NEW c \in Nat, c # 0,
         Acc(N, T, F, Owe(n, c)), Own(N, T, F), Named(N, F)
  PROVE  \E M : /\ Dereference([node |-> N, table |-> T], n) = [node |-> M, table |-> T]
                /\ Acc(M, T, F, Owe(n, c - 1)) /\ Own(M, T, F) /\ Named(M, F)
                /\ Rest(N, M, T, F)
<1>1. PICK owed : owed = Owe(n, c)
  OBVIOUS
<1>2. owed \in [Nodes -> Nat] /\ owed[n] = c
  BY <1>1 DEF Owe
<1>3. owed[n] > 0
  BY <1>2
<1>4. Acc(N, T, F, owed)
  BY <1>1
<1>5. PICK M : M = Lowered(N, n)
  OBVIOUS
<1>6. /\ Dereference([node |-> N, table |-> T], n) = [node |-> M, table |-> T]
      /\ Acc(M, T, F, [owed EXCEPT ![n] = @ - 1])
      /\ Own(M, T, F) /\ Named(M, F)
      /\ \A k \in Nodes : \/ M[k] = FreeNode /\ Unheld(M, T, F, k)
                          \/ Same(M[k], N[k])
  BY <1>2, <1>3, <1>4, <1>5, DereferenceKeeps
<1>7. [owed EXCEPT ![n] = @ - 1] = Owe(n, c - 1)
  BY <1>1 DEF Owe
<1> QED BY <1>6, <1>7 DEF Rest

LEMMA CloseKeeps ==
  ASSUME NEW N, NEW T, Whole(N, T, file), NEW f \in Files, NEW r, r \in FileType, FileOK(r),
         NEW n \in Nodes, NEW share, NEW handles, Leaves(file[f], r, n, share, handles)
  PROVE  \E M, U : /\ Dereference(CloseNode([node |-> N, table |-> T], n, f, share, handles), n)
                      = [node |-> M, table |-> U]
                   /\ Whole(M, U, At1(file, f, r))
                   /\ Carried(N, M, U, At1(file, f, r), n, OneLess(N[n].open))
<1>1. PICK C : C = Closed(N, n, f, file[f].mode, share, handles)
  OBVIOUS
<1>2. PICK U : U = TableLeft(N, T, n)
  OBVIOUS
<1>3. PICK G : G = At1(file, f, r)
  OBVIOUS
<1>4. Acc(N, T, file, Nothing) /\ Own(N, T, file) /\ Named(N, file)
  BY DEF Whole
<1>5. /\ C \in [Nodes -> NodeType]
      /\ Changes(N, C, n, f, file[f].mode, Closing(share), 0, -1, OneLess(N[n].open),
                 0 - handles)
      /\ Acc(C, U, G, OwedLeft(N, n))
  BY <1>1, <1>2, <1>3, <1>4, CloseCounts
<1>6. /\ file \in [Files -> FileType] /\ \A g \in Files : FileOK(file[g])
      /\ N \in [Nodes -> NodeType] /\ One(N, T) /\ file[f].mode \in AllModes
  <2>1. file \in [Files -> FileType] /\ \A g \in Files : FileOK(file[g])
    BY <1>4 DEF Acc, FilesOK
  <2> QED BY <1>4, <2>1 DEF Acc, NodesOK, FileType
<1>7. N[n].refs # 0 /\ N[n].name \in Names /\ N[n].main # n /\ N[n] \in NodeType
  <2>1. file[f].node = n \/ file[f].extra = n
    BY DEF Leaves
  <2>2. Nothing \in [Nodes -> Nat]
    BY DEF Nothing
  <2> QED BY <1>4, <2>1, <2>2, UsedNode
<1>8. handles \in {0, 1}
  BY DEF Leaves
<1>9. \A k \in Nodes : Alike(N[k], C[k]) /\ C[k].open = IF k = n THEN OneLess(N[n].open)
                                                                 ELSE N[k].open
  BY <1>5 DEF Changes, Kept, Counts
<1>10. \A x \in Names : U[x] \in {T[x], None}
  BY <1>2, <1>6 DEF TableLeft, One, TableType
<1>11. Own(C, U, G)
  <2>1. \A k \in Nodes : C[k].main = N[k].main
    BY <1>9 DEF Alike
  <2>2. r.node \in {file[f].node, None} /\ r.extra \in {file[f].extra, None}
        /\ (r.pc \in Private => file[f].pc \in Private /\ r.node = file[f].node)
    BY LabelsDiffer DEF Leaves, Gone
  <2> QED BY <1>3, <1>4, <1>6, <1>10, <2>1, <2>2, OwnStays
<1>12. Named(C, G)
  <2>1. \A k \in Nodes : C[k].name = N[k].name
    BY <1>9 DEF Alike
  <2>2. file[f].pc \notin Ended /\ r.pc \in {"done", "again"}
    BY LabelsDiffer DEF Leaves, Gone
  <2>3. r.pc # "done" => r.name = file[f].name /\ r.node = file[f].node
    BY DEF Leaves, Gone
  <2>4. r.node \in Nodes => N[r.node].name[2] = r.name[2]
    BY <1>4, <2>2, <2>3, FileNodeAssumption DEF Leaves, Gone, Named
  <2> QED BY <1>3, <1>4, <1>6, <2>1, <2>2, <2>3, <2>4, NamedStays
<1>13. PICK c \in {1, 2} : c = IF N[n].open = 1 THEN 2 ELSE 1
  OBVIOUS
<1>14. Acc(C, U, G, Owe(n, c))
  BY <1>5, <1>13 DEF OwedLeft
<1>15. PICK L : /\ Dereference([node |-> C, table |-> U], n) = [node |-> L, table |-> U]
                /\ Acc(L, U, G, Owe(n, c - 1)) /\ Own(L, U, G) /\ Named(L, G)
                /\ Rest(C, L, U, G)
  BY <1>11, <1>12, <1>13, <1>14, Pay
<1>16. CloseNode([node |-> N, table |-> T], n, f, share, handles)
       = IF N[n].open = 1 THEN Dereference([node |-> C, table |-> U], n)
                          ELSE [node |-> C, table |-> U]
  <2>1. CloseNode([node |-> N, table |-> T], n, f, share, handles) = Shut(N, T, n, C)
    BY <1>1, <1>6, <1>7, <1>8, CloseNodeIs
  <2>2. CASE N[n].open = 1
    BY <1>2, <2>1, <2>2 DEF Shut
  <2>3. CASE N[n].open # 1
    BY <1>2, <2>1, <2>3 DEF Shut, TableLeft
  <2> QED BY <2>2, <2>3
<1>17. PICK M : /\ Dereference(CloseNode([node |-> N, table |-> T], n, f, share, handles), n)
                   = [node |-> M, table |-> U]
                /\ Acc(M, U, G, Nothing) /\ Own(M, U, G) /\ Named(M, G)
                /\ Rest(C, M, U, G)
  <2>1. CASE N[n].open = 1
    <3>1. c - 1 = 1 /\ c - 1 \in Nat /\ c - 1 # 0
      BY <1>13, <2>1
    <3>2. Acc(L, U, G, Owe(n, 1))
      BY <1>15, <3>1
    <3>3. PICK M : /\ Dereference([node |-> L, table |-> U], n) = [node |-> M, table |-> U]
                   /\ Acc(M, U, G, Owe(n, 1 - 1)) /\ Own(M, U, G) /\ Named(M, G)
                   /\ Rest(L, M, U, G)
      BY <1>15, <3>2, Pay
    <3>4. Acc(M, U, G, Nothing)
      BY <3>3, OweNothing
    <3>5. Rest(C, M, U, G)
      BY <1>15, <3>3, <3>4, RestTwice
    <3> QED BY <1>15, <1>16, <2>1, <3>3, <3>4, <3>5
  <2>2. CASE N[n].open # 1
    <3>1. c - 1 = 0
      BY <1>13, <2>2
    <3>2. Acc(L, U, G, Nothing)
      BY <1>15, <3>1, OweNothing
    <3> QED BY <1>15, <1>16, <2>2, <3>2
  <2> QED BY <2>1, <2>2
<1>18. Carried(N, M, U, G, n, OneLess(N[n].open))
  BY <1>9, <1>17 DEF Carried, Rest, Same, Alike
<1> QED BY <1>3, <1>17, <1>18 DEF Whole

-----------------------------------------------------------------------------
(* The end of a Create that holds nothing but its node.                    *)
LEMMA DropKeeps ==
  ASSUME NEW N, NEW T, NEW F, Whole(N, T, F), NEW f \in Files, NEW r, r \in FileType,
         FileOK(r), Gone(r), F[f].pc \in Private \ Refusing, NEW n, n = F[f].node
  PROVE  \E M : /\ Dereference([node |-> N, table |-> T], n) = [node |-> M, table |-> T]
                /\ Whole(M, T, At1(F, f, r))
                /\ Carried(N, M, T, At1(F, f, r), n, N[n].open)
<1>1. PICK q : q = F[f]
  OBVIOUS
<1>2. PICK G : G = At1(F, f, r)
  OBVIOUS
<1>3. Acc(N, T, F, Nothing) /\ Own(N, T, F) /\ Named(N, F)
  BY DEF Whole
<1>4. /\ F \in [Files -> FileType] /\ \A g \in Files : FileOK(F[g])
      /\ NodesOK(N) /\ N \in [Nodes -> NodeType] /\ One(N, T)
  BY <1>3 DEF Acc, FilesOK, NodesOK
<1>5. q.node = n /\ n \in Nodes /\ q.extra = None /\ q.pc \notin HasHandle
      /\ q.pc \notin UserPC /\ q.pc \notin Ended
  BY <1>1, <1>4, LabelsDiffer DEF FileOK
<1>6. r.pc \notin HasHandle /\ r.pc \notin UserPC /\ r.pc \notin Private
      /\ r.node = None /\ r.extra = None /\ r.pc = "done"
  BY LabelsDiffer DEF Gone
<1>7. Nothing \in [Nodes -> Nat] /\ \A k \in Nodes : Nothing[k] = 0
  BY DEF Nothing
<1>8. N[n].refs # 0
  BY <1>1, <1>3, <1>5, <1>7, UsedNode
<1>9. PICK o : o = Owe(n, 1)
  OBVIOUS
<1>10. o \in [Nodes -> Nat]
  BY <1>9 DEF Owe
<1>11. Gains(q, r, T, T, Nothing, o, n, 0, 0, 0)
  <2> SUFFICES ASSUME NEW k \in Nodes
               PROVE  /\ NodeGain(q, r, k) + ExtraGain(q, r, k) + NamesGain(T, T, k) + o[k]
                           - Nothing[k] = OnlyAt(k, n, 0)
                      /\ UserGain(q, r, k) + ExtraGain(q, r, k) = OnlyAt(k, n, 0)
                      /\ HandleGain(q, r, k) + ExtraGain(q, r, k) = OnlyAt(k, n, 0)
    BY DEF Gains
  <2>1. k # None
    BY FileNodeAssumption
  <2>2. NodeGain(q, r, k) = 0 - (IF k = n THEN 1 ELSE 0)
    BY <1>5, <1>6, <2>1 DEF NodeGain, Indicator
  <2>3. ExtraGain(q, r, k) = 0
    BY <1>5, <1>6, <2>1 DEF ExtraGain, Indicator
  <2>4. UserGain(q, r, k) = 0 /\ HandleGain(q, r, k) = 0
    BY <1>5, <1>6 DEF UserGain, HandleGain, Indicator
  <2>5. NamesGain(T, T, k) = 0
    BY NamesStay
  <2>6. o[k] = IF k = n THEN 1 ELSE 0
    BY <1>9 DEF Owe
  <2> QED BY <1>7, <2>2, <2>3, <2>4, <2>5, <2>6 DEF OnlyAt
<1>12. Changes(N, N, n, f, q.mode, 0, 0, 0, N[n].open, 0)
  BY <1>4, <1>5, NoChange
<1>13. Takes(q, r, n, q.mode, 0)
  BY <1>5, <1>6 DEF Takes
<1>14. N[n].open \in {0, N[n].active + 0}
  <2>1. N[n].open \in {0, N[n].active} /\ N[n].active \in Int
    BY <1>3, <1>4, <1>5 DEF Acc, Uses, NodeType
  <2> QED BY <2>1
<1>15. Acc(N, T, G, o)
  <2>1. 0 \in {0, 1} /\ 0 \in Int
    OBVIOUS
  <2>2. Acc(N, T, F, Nothing) /\ Nothing \in [Nodes -> Nat]
    BY <1>3, <1>7
  <2>3. N \in [Nodes -> NodeType] /\ One(N, T) /\ n \in Nodes
    BY <1>4, <1>5
  <2>4. Acc(N, T, At1(F, f, r), o)
    BY <1>1, <1>8, <1>10, <1>11, <1>12, <1>13, <1>14, <2>1, <2>2, <2>3, Step
  <2> QED BY <1>2, <2>4
<1>16. Own(N, T, G)
  BY <1>1, <1>2, <1>3, <1>4, <1>5, <1>6, OwnStays
<1>17. Named(N, G)
  <2>1. r.node \notin Nodes
    BY <1>6, FileNodeAssumption
  <2> QED BY <1>1, <1>2, <1>3, <1>4, <1>5, <1>6, <2>1, NamedStays
<1>18. PICK M : /\ Dereference([node |-> N, table |-> T], n) = [node |-> M, table |-> T]
                /\ Acc(M, T, G, Owe(n, 1 - 1)) /\ Own(M, T, G) /\ Named(M, G)
                /\ Rest(N, M, T, G)
  BY <1>5, <1>9, <1>15, <1>16, <1>17, Pay
<1>19. Acc(M, T, G, Nothing)
  BY <1>18, OweNothing
<1>20. Carried(N, M, T, G, n, N[n].open)
  BY <1>18 DEF Carried, Rest, Same, Alike
<1> QED BY <1>2, <1>18, <1>19, <1>20 DEF Whole

-----------------------------------------------------------------------------
(* Steps that change the state of a file object, but not what it holds,    *)
(* and the marks of nodes.                                                 *)
LEMMA MarkKeeps ==
  ASSUME NEW N, NEW T, NEW F, Whole(N, T, F), NEW f \in Files, NEW r, r \in FileType,
         FileOK(r), Holds(F[f], r), r.pc # "main", RenameNamed(N, F, f, r),
         NEW M, M \in [Nodes -> NodeType], \A k \in Nodes : Marked(N[k], M[k])
  PROVE  Whole(M, T, At1(F, f, r))
<1>1. PICK q : q = F[f]
  OBVIOUS
<1>2. PICK G : G = At1(F, f, r)
  OBVIOUS
<1>3. Acc(N, T, F, Nothing) /\ Own(N, T, F) /\ Named(N, F)
  BY DEF Whole
<1>4. /\ F \in [Files -> FileType] /\ \A g \in Files : FileOK(F[g])
      /\ NodesOK(N) /\ N \in [Nodes -> NodeType] /\ One(N, T) /\ Uses(N, F)
  BY <1>3 DEF Acc, FilesOK, NodesOK
<1>5. /\ r.node = q.node /\ r.extra = q.extra /\ r.name = q.name /\ r.mode = q.mode
      /\ r.main = q.main
      /\ q.pc \notin Ended /\ r.pc \notin Ended
      /\ q.pc \in HasHandle <=> r.pc \in HasHandle
      /\ q.pc \in Private <=> r.pc \in Private
  BY <1>1 DEF Holds
<1>6. q.pc \in UserPC <=> r.pc \in UserPC
  <2>1. q.pc \in FilePCs /\ r.pc \in FilePCs
    BY <1>1, <1>4 DEF FileType
  <2> QED BY <1>5, <2>1, LabelsDiffer DEF FilePCs, UserPC
<1>7. PICK o : o = Nothing
  OBVIOUS
<1>8. o \in [Nodes -> Nat] /\ \A k \in Nodes : o[k] = 0
  BY <1>7 DEF Nothing
<1>9. One(M, T)
  <2>1. \A k \in Nodes : M[k].name = N[k].name /\ M[k].open = N[k].open
    BY DEF Marked
  <2>2. T \in TableType /\ \A x \in Names : T[x] # None => T[x] \in Nodes
    BY <1>4 DEF One, TableType
  <2> QED BY <1>4, <2>1, <2>2 DEF One
<1>10. Follow(N, M, T, T, q, r, f, o, o)
  <2> SUFFICES ASSUME NEW k \in Nodes
               PROVE
    /\ M[k].name = N[k].name /\ M[k].main = N[k].main
    /\ M[k].refs = N[k].refs + NodeGain(q, r, k) + ExtraGain(q, r, k)
                   + NamesGain(T, T, k) + o[k] - o[k]
    /\ M[k].active = N[k].active + UserGain(q, r, k) + ExtraGain(q, r, k)
    /\ M[k].open \in {0, M[k].active}
    /\ M[k].handles = N[k].handles + HandleGain(q, r, k) + ExtraGain(q, r, k)
    /\ M[k].share = IF r.node = k /\ r.pc \in HasHandle /\ HasAccess(r.mode)
                      THEN N[k].share \cup {f} ELSE N[k].share \ {f}
    /\ M[k].denyDelete = IF N[k].main = None THEN N[k].denyDelete + DeleterGain(q, r, k) ELSE 0
    /\ M[k].denyStream = N[k].denyStream + DenierGain(N, q, r, k)
    /\ N[k].refs = 0 => M[k] = N[k]
    /\ M[k].refs = 0 => N[k].refs = 0
    BY DEF Follow
  <2>1. Marked(N[k], M[k])
    OBVIOUS
  <2>2. /\ N[k].refs \in Int /\ N[k].active \in Int /\ N[k].handles \in Int
        /\ N[k].denyDelete \in Int /\ N[k].denyStream \in Int
    BY <1>4 DEF NodeType
  <2>3. NodeGain(q, r, k) = 0 /\ ExtraGain(q, r, k) = 0
    BY <1>5 DEF NodeGain, ExtraGain, Indicator
  <2>4. HandleGain(q, r, k) = 0 /\ UserGain(q, r, k) = 0
    BY <1>5, <1>6 DEF HandleGain, UserGain, Indicator
  <2>5. DeleterGain(q, r, k) = 0
    BY <1>5 DEF DeleterGain, Indicator
  <2>6. DenierGain(N, q, r, k) = 0
    <3>1. Denies(q) <=> Denies(r)
      BY <1>5 DEF Denies
    <3>2. DeniesTo(N, q, k) <=> DeniesTo(N, r, k)
      BY <1>5, <3>1 DEF DeniesTo
    <3> QED BY <3>2 DEF DenierGain, Indicator
  <2>7. NamesGain(T, T, k) = 0
    BY NamesStay
  <2>8. N[k].share = IF r.node = k /\ r.pc \in HasHandle /\ HasAccess(r.mode)
                      THEN N[k].share \cup {f} ELSE N[k].share \ {f}
    <3>1. N[k].share = SharersAt(F, k)
      BY <1>4 DEF Uses
    <3>2. f \in SharersAt(F, k) <=> q.node = k /\ q.pc \in HasHandle /\ HasAccess(q.mode)
      BY <1>1 DEF SharersAt, HandlesAt
    <3> QED BY <1>5, <3>1, <3>2
  <2>9. N[k].open \in {0, N[k].active} /\ (N[k].main # None => N[k].denyDelete = 0)
    BY <1>4 DEF Uses
  <2> QED BY <1>8, <2>1, <2>2, <2>3, <2>4, <2>5, <2>6, <2>7, <2>8, <2>9 DEF Marked
<1>11. Acc(M, T, G, o)
  BY <1>1, <1>2, <1>3, <1>7, <1>8, <1>9, <1>10, Moves
<1>12. Own(M, T, G)
  <2>1. \A k \in Nodes : M[k].main = N[k].main
    BY DEF Marked
  <2> QED BY <1>1, <1>2, <1>3, <1>4, <1>5, <2>1, OwnStays
<1>13. Named(M, G)
  <2>1. \A k \in Nodes : M[k].name = N[k].name
    BY DEF Marked
  <2>2. G[f] = r /\ \A g \in Files : g # f => G[g] = F[g]
    BY <1>2, <1>4, At1Is
  <2>3. ASSUME NEW g \in Files
        PROVE  /\ G[g].node \in Nodes => M[G[g].node].name[2] = G[g].name[2]
               /\ G[g].pc = "main" =>
                    LET h == G[g].main
                    IN G[h].pc # "new" /\ (G[h].pc # "done" => G[h].name[2] = NoStream)
               /\ G[g].pc = "rename" =>
                    /\ G[g].to \in FileNames
                    /\ G[g].node \in Nodes => G[g].to # M[G[g].node].name[1]
                    /\ \A h \in Files : G[h].pc = "rename" => h = g
    <3>1. G[g].node = F[g].node /\ G[g].name = F[g].name /\ G[g].main = F[g].main
      BY <1>1, <1>5, <2>2
    <3>2. G[g].node \in Nodes => M[G[g].node].name[2] = G[g].name[2]
      BY <1>3, <2>1, <3>1 DEF Named
    <3>3. ASSUME G[g].pc = "main"
          PROVE  LET h == G[g].main
                 IN G[h].pc # "new" /\ (G[h].pc # "done" => G[h].name[2] = NoStream)
      <4>1. g # f /\ F[g].pc = "main"
        BY <2>2, <3>3
      <4>2. PICK h : h = F[g].main
        OBVIOUS
      <4>3. h \in Files
        BY <1>4, <4>1, <4>2 DEF FileOK
      <4>4. F[h].pc # "new" /\ (F[h].pc # "done" => F[h].name[2] = NoStream)
        BY <1>3, <4>1, <4>2 DEF Named
      <4>5. h = f => F[h].pc # "done" /\ G[h].pc # "new" /\ G[h].name = F[h].name
        BY <1>1, <1>5, <2>2 DEF Ended
      <4> QED BY <2>2, <3>1, <4>2, <4>3, <4>4, <4>5
    <3>4. ASSUME G[g].pc = "rename"
          PROVE  /\ G[g].to \in FileNames
                 /\ G[g].node \in Nodes => G[g].to # M[G[g].node].name[1]
                 /\ \A h \in Files : G[h].pc = "rename" => h = g
      <4>1. CASE g = f
        BY <2>1, <2>2, <3>4, <4>1 DEF RenameNamed
      <4>2. CASE g # f
        <5>1. F[g].pc = "rename" /\ G[g] = F[g]
          BY <2>2, <3>4, <4>2
        <5>2. r.pc # "rename"
          BY <4>2, <5>1 DEF RenameNamed
        <5> QED BY <1>3, <2>1, <2>2, <5>1, <5>2 DEF Named
      <4> QED BY <4>1, <4>2
    <3> QED BY <3>2, <3>3, <3>4
  <2> QED BY <2>3 DEF Named
<1> QED BY <1>2, <1>7, <1>11, <1>12, <1>13 DEF Whole

-----------------------------------------------------------------------------
(* Nodes that leave the table and are not found again.                     *)

(* A node in the table is in use, by a file object that also holds it.     *)
LEMMA TabledUsed ==
  ASSUME NEW N, NEW T, NEW F, Acc(N, T, F, Nothing), NEW d \in Nodes,
         N[d].name \in Names, T[N[d].name] = d
  PROVE  /\ N[d].refs \in Nat /\ N[d].refs # 0 /\ N[d].refs # 1
         /\ NamesAt(T, d) = {N[d].name} /\ Cardinality(NamesAt(T, d)) = 1
<1>1. d # None
  BY FileNodeAssumption
<1>2. N[d].open > 0 /\ \A x \in Names : T[x] = d => x = N[d].name
  BY <1>1 DEF Acc, One
<1>3. NamesAt(T, d) = {N[d].name}
  BY <1>2 DEF NamesAt
<1>4. Cardinality(NamesAt(T, d)) = 1
  BY <1>3, FS_Singleton
<1>5. N[d].open \in {0, N[d].active}
      /\ N[d].active = Cardinality(UsersAt(F, d)) + Cardinality(ExtrasAt(F, d))
  BY DEF Acc, Uses
<1>6. PICK u, e : u = Cardinality(UsersAt(F, d)) /\ e = Cardinality(ExtrasAt(F, d))
  OBVIOUS
<1>7. u \in Nat /\ e \in Nat /\ (u = 0 <=> UsersAt(F, d) = {})
  BY <1>6, UsersCounted, HoldersCounted
<1>8. u + e > 0
  BY <1>2, <1>5, <1>6, <1>7
<1>9. UsersAt(F, d) # {} => FilesAt(F, d) # {}
  BY DEF UsersAt, FilesAt
<1>10. PICK h, s : h = Cardinality(FilesAt(F, d)) /\ s = Cardinality(StreamsAt(N, d))
  OBVIOUS
<1>11. h \in Nat /\ s \in Nat /\ (h = 0 <=> FilesAt(F, d) = {})
  BY <1>10, HoldersCounted
<1>12. h + e > 0
  BY <1>7, <1>8, <1>9, <1>11
<1>13. N[d].refs = h + e + 1 + s
  <2>1. Nothing[d] = 0
    BY DEF Nothing
  <2>2. N[d].refs = Cardinality(FilesAt(F, d)) + Cardinality(ExtrasAt(F, d))
                + Cardinality(NamesAt(T, d)) + Cardinality(StreamsAt(N, d)) + Nothing[d]
    BY DEF Acc, Refs
  <2> QED BY <1>4, <1>6, <1>7, <1>10, <1>11, <2>1, <2>2
<1>14. N[d].refs \in Nat /\ N[d].refs # 0 /\ N[d].refs # 1
  BY <1>7, <1>11, <1>12, <1>13
<1> QED BY <1>3, <1>4, <1>14

LEMMA UntabledIs ==
  ASSUME NEW N, N \in [Nodes -> NodeType], NEW D, NEW k \in Nodes
  PROVE  LET p == Untabled(N, D)[k]
             q == N[k]
         IN /\ p \in NodeType /\ Alike(q, p)
            /\ p.active = q.active /\ p.handles = q.handles /\ p.share = q.share
            /\ p.denyDelete = q.denyDelete /\ p.denyStream = q.denyStream
            /\ p.refs = q.refs - (IF k \in D THEN 1 ELSE 0)
            /\ p.open = IF k \in D THEN 0 ELSE q.open
            /\ k \notin D => p = q
<1>1. PICK q : q = N[k]
  OBVIOUS
<1>2. PICK p : p = Untabled(N, D)[k]
  OBVIOUS
<1>3. q \in NodeType
  BY <1>1
<1>4. CASE k \in D
  <2>1. PICK refs, zero : refs = q.refs - 1 /\ zero = 0
    OBVIOUS
  <2>2. refs \in Int /\ zero \in Int
    BY <1>3, <2>1 DEF NodeType
  <2>3. p = [q EXCEPT !.open = zero, !.refs = refs]
    BY <1>1, <1>2, <1>4, <2>1 DEF Untabled
  <2>4. p \in NodeType
    BY <1>3, <2>2, <2>3 DEF NodeType
  <2>5. Alike(q, p) /\ p.active = q.active /\ p.handles = q.handles /\ p.share = q.share
        /\ p.denyDelete = q.denyDelete /\ p.denyStream = q.denyStream
        /\ p.refs = refs /\ p.open = zero
    BY <1>3, <2>3 DEF NodeType, Alike
  <2> QED BY <1>1, <1>2, <1>4, <2>1, <2>4, <2>5
<1>5. CASE k \notin D
  <2>1. p = q
    BY <1>1, <1>2, <1>5 DEF Untabled
  <2>2. q.refs \in Int
    BY <1>3 DEF NodeType
  <2> QED BY <1>1, <1>2, <1>3, <1>5, <2>1, <2>2 DEF Alike
<1> QED BY <1>4, <1>5

LEMMA UntableKeeps ==
  ASSUME NEW N, NEW T, NEW F, Whole(N, T, F), NEW D, Tabled(N, T, D)
  PROVE  Whole(Untabled(N, D), TableWithout(N, T, D), F)
<1>1. PICK M : M = Untabled(N, D)
  OBVIOUS
<1>2. PICK U : U = TableWithout(N, T, D)
  OBVIOUS
<1>3. Acc(N, T, F, Nothing) /\ Own(N, T, F) /\ Named(N, F)
  BY DEF Whole
<1>4. /\ FilesOK(F) /\ F \in [Files -> FileType] /\ \A g \in Files : FileOK(F[g])
      /\ NodesOK(N) /\ N \in [Nodes -> NodeType] /\ One(N, T) /\ Uses(N, F)
      /\ Refs(N, T, F, Nothing) /\ T \in TableType
  BY <1>3 DEF Acc, FilesOK, NodesOK, One
<1>5. \A k \in Nodes :
        /\ M[k] \in NodeType /\ Alike(N[k], M[k])
        /\ M[k].active = N[k].active /\ M[k].handles = N[k].handles /\ M[k].share = N[k].share
        /\ M[k].denyDelete = N[k].denyDelete /\ M[k].denyStream = N[k].denyStream
        /\ M[k].refs = N[k].refs - (IF k \in D THEN 1 ELSE 0)
        /\ M[k].open = IF k \in D THEN 0 ELSE N[k].open
        /\ k \notin D => M[k] = N[k]
  BY <1>1, <1>4, UntabledIs
<1>6. M \in [Nodes -> NodeType]
  BY <1>1, <1>5 DEF Untabled
<1>7. \A x \in Names : U[x] = IF \E d \in D : N[d].name = x THEN None ELSE T[x]
  BY <1>2 DEF TableWithout
<1>8. U \in TableType
  BY <1>2, <1>4, <1>7 DEF TableType, TableWithout
<1>9. \A d \in D : d \in Nodes /\ N[d].name \in Names /\ T[N[d].name] = d
  BY DEF Tabled
<1>10. \A d \in D : /\ N[d].refs \in Nat /\ N[d].refs # 0 /\ N[d].refs # 1
                    /\ NamesAt(T, d) = {N[d].name} /\ Cardinality(NamesAt(T, d)) = 1
  BY <1>3, <1>9, TabledUsed
<1>11. \A x \in Names : U[x] # None => U[x] = T[x] /\ T[x] \notin D
  <2> SUFFICES ASSUME NEW x \in Names, U[x] # None PROVE U[x] = T[x] /\ T[x] \notin D
    OBVIOUS
  <2>1. U[x] = T[x] /\ ~\E d \in D : N[d].name = x
    BY <1>7
  <2>2. N[T[x]].name = x
    BY <1>4, <2>1 DEF One
  <2> QED BY <2>1, <2>2
<1>12. One(M, U)
  <2>1. ASSUME NEW k \in Nodes, M[k].open > 0 PROVE U[M[k].name] = k
    <3>1. k \notin D /\ N[k].open > 0 /\ M[k].name = N[k].name
      BY <1>5, <2>1
    <3>2. T[N[k].name] = k
      BY <1>4, <3>1 DEF One
    <3>3. N[k].name \in Names
      BY <1>4, <3>1, FreeNodeIs DEF NodesOK
    <3>4. ~\E d \in D : N[d].name = N[k].name
      BY <1>9, <3>1, <3>2
    <3> QED BY <1>7, <3>1, <3>2, <3>3, <3>4
  <2>2. ASSUME NEW x \in Names, U[x] # None PROVE M[U[x]].name = x /\ M[U[x]].open > 0
    <3>1. U[x] = T[x] /\ T[x] \notin D /\ T[x] \in Nodes
      BY <1>4, <1>11, <2>2 DEF TableType
    <3>2. N[T[x]].name = x /\ N[T[x]].open > 0
      BY <1>4, <2>2, <3>1 DEF One
    <3> QED BY <1>5, <3>1, <3>2
  <2> QED BY <1>8, <2>1, <2>2 DEF One
<1>13. NodesOK(M)
  <2>1. \A k \in Nodes : M[k].name = N[k].name /\ M[k].main = N[k].main
    BY <1>5 DEF Alike
  <2>2. ASSUME NEW k \in Nodes
        PROVE  /\ M[k].refs = 0 => M[k] = FreeNode
               /\ M[k].refs # 0 => M[k].name \in Names
    <3>1. CASE k \in D
      <4>1. N[k].refs \in Nat /\ N[k].refs # 0 /\ N[k].refs # 1 /\ M[k].refs = N[k].refs - 1
        BY <1>5, <1>10, <3>1
      <4>2. M[k].refs # 0
        BY <4>1
      <4> QED BY <1>9, <2>1, <3>1, <4>2
    <3>2. CASE k \notin D
      BY <1>4, <1>5, <3>2 DEF NodesOK
    <3> QED BY <3>1, <3>2
  <2>3. ASSUME NEW k \in Nodes, M[k].main # None
        PROVE  IsStream(M[k].name) /\ M[M[k].main].main = None
    <3>1. N[k].main # None /\ N[k].main \in Nodes
      BY <1>4, <2>1, <2>3 DEF NodeType
    <3> QED BY <1>4, <2>1, <3>1 DEF NodesOK
  <2> QED BY <1>6, <2>2, <2>3 DEF NodesOK
<1>14. \A k \in Nodes : StreamsAt(M, k) = StreamsAt(N, k)
  BY <1>5 DEF StreamsAt, Alike
<1>15. Refs(M, U, F, Nothing)
  <2> SUFFICES ASSUME NEW k \in Nodes
               PROVE  M[k].refs = Cardinality(FilesAt(F, k)) + Cardinality(ExtrasAt(F, k))
                        + Cardinality(NamesAt(U, k)) + Cardinality(StreamsAt(M, k)) + Nothing[k]
    BY DEF Refs
  <2>1. N[k].refs = Cardinality(FilesAt(F, k)) + Cardinality(ExtrasAt(F, k))
                      + Cardinality(NamesAt(T, k)) + Cardinality(StreamsAt(N, k)) + Nothing[k]
    BY <1>4 DEF Refs
  <2>2. /\ Cardinality(FilesAt(F, k)) \in Nat /\ Cardinality(ExtrasAt(F, k)) \in Nat
        /\ Cardinality(NamesAt(T, k)) \in Nat /\ Cardinality(StreamsAt(N, k)) \in Nat
    BY HoldersCounted
  <2>3. Nothing[k] = 0
    BY DEF Nothing
  <2>4. k # None
    BY FileNodeAssumption
  <2>5. CASE k \in D
    <3>1. NamesAt(U, k) = {}
      BY <1>11, <2>4, <2>5 DEF NamesAt
    <3>2. Cardinality(NamesAt(U, k)) = 0 /\ Cardinality(NamesAt(T, k)) = 1
      BY <1>10, <2>5, <3>1, FS_EmptySet
    <3>3. M[k].refs = N[k].refs - 1
      BY <1>5, <2>5
    <3> QED BY <1>14, <2>1, <2>2, <2>3, <3>2, <3>3
  <2>6. CASE k \notin D
    <3>1. NamesAt(U, k) = NamesAt(T, k)
      <4>1. ASSUME NEW x \in Names, T[x] = k PROVE U[x] = k
        <5>1. \A d \in D : N[d].name # x
          BY <1>9, <2>6, <4>1
        <5> QED BY <1>7, <4>1, <5>1
      <4>2. \A x \in Names : U[x] = k => T[x] = k
        BY <1>11, <2>4
      <4> QED BY <4>1, <4>2 DEF NamesAt
    <3>2. M[k].refs = N[k].refs
      BY <1>5, <2>6
    <3> QED BY <1>14, <2>1, <3>1, <3>2
  <2> QED BY <2>5, <2>6
<1>16. Uses(M, F)
  <2> SUFFICES ASSUME NEW k \in Nodes
               PROVE
      /\ M[k].active = Cardinality(UsersAt(F, k)) + Cardinality(ExtrasAt(F, k))
      /\ M[k].open \in {0, M[k].active}
      /\ M[k].handles = Cardinality(HandlesAt(F, k)) + Cardinality(ExtrasAt(F, k))
      /\ M[k].share = SharersAt(F, k)
      /\ M[k].denyDelete = IF M[k].main = None THEN Cardinality(DeletersAt(F, k)) ELSE 0
      /\ M[k].denyStream = Cardinality(DeniersAt(M, F, k))
    BY DEF Uses
  <2>1. \A d \in Nodes : M[d].main = N[d].main
    BY <1>5 DEF Alike
  <2>2. DeniersAt(M, F, k) = DeniersAt(N, F, k)
    BY <2>1 DEF DeniersAt
  <2>3. M[k].open \in {0, N[k].open}
    BY <1>5
  <2>4. /\ N[k].active = Cardinality(UsersAt(F, k)) + Cardinality(ExtrasAt(F, k))
        /\ N[k].open \in {0, N[k].active}
        /\ N[k].handles = Cardinality(HandlesAt(F, k)) + Cardinality(ExtrasAt(F, k))
        /\ N[k].share = SharersAt(F, k)
        /\ N[k].denyDelete = IF N[k].main = None THEN Cardinality(DeletersAt(F, k)) ELSE 0
        /\ N[k].denyStream = Cardinality(DeniersAt(N, F, k))
    BY <1>4 DEF Uses
  <2>5. /\ M[k].active = N[k].active /\ M[k].handles = N[k].handles
        /\ M[k].share = N[k].share /\ M[k].denyDelete = N[k].denyDelete
        /\ M[k].denyStream = N[k].denyStream
    BY <1>5
  <2> QED BY <2>1, <2>2, <2>3, <2>4, <2>5
<1>17. Own(M, U, F)
  <2> SUFFICES ASSUME NEW f \in Files, F[f].pc \in Private
               PROVE  LET n == F[f].node
                      IN /\ \A g \in Files : (g # f => F[g].node # n) /\ F[g].extra # n
                         /\ \A x \in Names : U[x] # n
                         /\ \A k \in Nodes : M[k].main # n
    BY DEF Own
  <2>1. PICK n : n = F[f].node
    OBVIOUS
  <2>2. /\ \A g \in Files : (g # f => F[g].node # n) /\ F[g].extra # n
        /\ \A x \in Names : T[x] # n
        /\ \A k \in Nodes : N[k].main # n
    BY <1>3, <2>1 DEF Own
  <2>3. n # None
    BY <1>4, <2>1, LabelsDiffer, FileNodeAssumption DEF FileOK
  <2>4. \A x \in Names : U[x] # n
    BY <1>7, <2>2, <2>3
  <2>5. \A k \in Nodes : M[k].main # n
    BY <1>5, <2>2 DEF Alike
  <2> QED BY <2>1, <2>2, <2>4, <2>5
<1>18. Named(M, F)
  <2>1. \A k \in Nodes : M[k].name = N[k].name
    BY <1>5 DEF Alike
  <2> QED BY <1>3, <2>1 DEF Named
<1>19. Acc(M, U, F, Nothing)
  BY <1>4, <1>12, <1>13, <1>15, <1>16 DEF Acc
<1> QED BY <1>1, <1>2, <1>17, <1>18, <1>19 DEF Whole

-----------------------------------------------------------------------------
(* FspFileNodeCleanupComplete: a handle is gone, and the file object stays *)
(* as a user of its node until it is closed.                               *)
LEMMA CleanedKeeps ==
  ASSUME NEW N, NEW T, Whole(N, T, file), NEW f \in Files, NEW r, r \in FileType, FileOK(r),
         Cleaned(file[f], r), NEW n, n = file[f].node
  PROVE  /\ n \in Nodes /\ N[n].name \in Names
         /\ \E M : /\ WithoutHandle(N, T, n, f) = [node |-> M, table |-> T]
                   /\ Whole(M, T, At1(file, f, r))
                   /\ \A k \in Nodes : Alike(N[k], M[k]) /\ M[k].open = N[k].open
<1>1. PICK q : q = file[f]
  OBVIOUS
<1>2. PICK G : G = At1(file, f, r)
  OBVIOUS
<1>3. Acc(N, T, file, Nothing) /\ Own(N, T, file) /\ Named(N, file)
  BY DEF Whole
<1>4. /\ file \in [Files -> FileType] /\ \A g \in Files : FileOK(file[g])
      /\ NodesOK(N) /\ N \in [Nodes -> NodeType] /\ One(N, T) /\ q.mode \in AllModes
  <2>1. file \in [Files -> FileType] /\ \A g \in Files : FileOK(file[g])
    BY <1>3 DEF Acc, FilesOK
  <2> QED BY <1>1, <1>3, <2>1 DEF Acc, NodesOK, FileType
<1>5. /\ q.pc = "cleanup" /\ r.pc = "cleaned" /\ r.node = n /\ q.node = n
      /\ r.extra = q.extra /\ r.name = q.name /\ r.mode = q.mode
  BY <1>1 DEF Cleaned
<1>6. /\ q.pc \in HasHandle /\ q.pc \in UserPC /\ q.pc \notin Ended /\ q.pc # "main"
      /\ r.pc \notin HasHandle /\ r.pc \in UserPC /\ r.pc \notin Private /\ r.pc \notin Ended
  BY <1>5 DEF HasHandle, UserPC, Ended, Private
<1>7. n \in Nodes
  BY <1>1, <1>4, <1>5, <1>6 DEF FileOK
<1>8. Nothing \in [Nodes -> Nat] /\ \A k \in Nodes : Nothing[k] = 0
  BY DEF Nothing
<1>9. N[n].refs # 0 /\ N[n].name \in Names /\ N[n].main # n /\ N[n] \in NodeType
  BY <1>1, <1>3, <1>5, <1>7, <1>8, UsedNode
<1>10. PICK by, less : by = 0 - 1 /\ less = 0 - 1
  OBVIOUS
<1>11. by \in {1, 0 - 1} /\ less \in Int
  BY <1>10
<1>12. PICK S : S = Counted(N, n, f, q.mode, by)
  OBVIOUS
<1>13. S \in [Nodes -> NodeType] /\ Changes(N, S, n, f, q.mode, by, 0, 0, N[n].open, 0)
  BY <1>4, <1>7, <1>9, <1>11, <1>12, CountedChanges
<1>14. PICK M : M = [S EXCEPT ![n] = Plus(S[n], 0, 0, N[n].open, less)]
  OBVIOUS
<1>15. N[n].open \in Int /\ N[n].active \in Int /\ N[n].open \in {0, N[n].active}
  BY <1>3, <1>7, <1>9 DEF NodeType, Acc, Uses
<1>16. M \in [Nodes -> NodeType] /\ Changes(N, M, n, f, q.mode, by, 0, 0, N[n].open, less)
  <2>1. 0 \in Int
    OBVIOUS
  <2> QED BY <1>4, <1>7, <1>11, <1>13, <1>14, <1>15, <2>1, ChangesPlus
<1>17. WithoutHandle(N, T, n, f) = [node |-> M, table |-> T]
  <2>1. CountShare([node |-> N, table |-> T], n, f, -1) = [node |-> S, table |-> T]
    <3>1. by = -1
      BY <1>10
    <3>2. CountShare([node |-> N, table |-> T], n, f, by) = [node |-> S, table |-> T]
      BY <1>1, <1>4, <1>7, <1>9, <1>12, CountShareIs
    <3> QED BY <3>1, <3>2
  <2>2. PICK s1 : s1 = [node |-> S, table |-> T]
    OBVIOUS
  <2>3. WithoutHandle(N, T, n, f) = [s1 EXCEPT !.node[n].handles = @ - 1]
    BY <2>1, <2>2 DEF WithoutHandle
  <2>4. PICK c : c = S[n]
    OBVIOUS
  <2>5. c \in NodeType /\ c.handles \in Int /\ c.refs \in Int /\ c.active \in Int
        /\ c.open = N[n].open
    <3>1. c \in NodeType
      BY <1>7, <1>13, <2>4
    <3>2. c.open = N[n].open
      BY <1>13, <2>4 DEF Changes, Counts
    <3> QED BY <3>1, <3>2 DEF NodeType
  <2>6. PICK h : h = c.handles - 1
    OBVIOUS
  <2>7. [s1 EXCEPT !.node[n].handles = @ - 1] = [s1 EXCEPT !.node[n].handles = h]
    BY <1>7, <1>13, <2>2, <2>4, <2>6 DEF NodeType
  <2>8. PICK d : d = [c EXCEPT !.handles = h]
    OBVIOUS
  <2>9. [s1 EXCEPT !.node[n].handles = h] = [node |-> [S EXCEPT ![n] = d], table |-> T]
    BY <1>7, <1>13, <2>2, <2>4, <2>8 DEF NodeType
  <2>10. Plus(c, 0, 0, N[n].open, less) = d
    <3>1. c.handles + less = h /\ c.refs + 0 = c.refs /\ c.active + 0 = c.active
      BY <1>10, <2>5, <2>6
    <3> QED BY <2>5, <2>8, <3>1 DEF Plus, NodeType
  <2> QED BY <1>14, <2>3, <2>4, <2>7, <2>9, <2>10
<1>18. Gains(q, r, T, T, Nothing, Nothing, n, 0, 0, less)
  <2> SUFFICES ASSUME NEW k \in Nodes
               PROVE  /\ NodeGain(q, r, k) + ExtraGain(q, r, k) + NamesGain(T, T, k)
                           + Nothing[k] - Nothing[k] = OnlyAt(k, n, 0)
                      /\ UserGain(q, r, k) + ExtraGain(q, r, k) = OnlyAt(k, n, 0)
                      /\ HandleGain(q, r, k) + ExtraGain(q, r, k) = OnlyAt(k, n, less)
    BY DEF Gains
  <2>1. NodeGain(q, r, k) = 0 /\ ExtraGain(q, r, k) = 0
    BY <1>5 DEF NodeGain, ExtraGain, Indicator
  <2>2. UserGain(q, r, k) = 0
    BY <1>5, <1>6 DEF UserGain, Indicator
  <2>3. HandleGain(q, r, k) = OnlyAt(k, n, less)
    BY <1>5, <1>6, <1>10 DEF HandleGain, Indicator, OnlyAt
  <2>4. NamesGain(T, T, k) = 0 /\ OnlyAt(k, n, 0) = 0 /\ OnlyAt(k, n, less) \in Int
    BY <1>11, NamesStay DEF OnlyAt
  <2> QED BY <1>8, <2>1, <2>2, <2>3, <2>4
<1>19. Takes(q, r, n, q.mode, by)
  BY <1>5, <1>6, <1>10 DEF Takes
<1>20. \A k \in Nodes : Alike(N[k], M[k]) /\ M[k].open = N[k].open
  BY <1>16 DEF Changes, Kept, Counts
<1>21. One(M, T)
  <2>1. \A k \in Nodes : M[k].name = N[k].name /\ M[k].open = N[k].open
    BY <1>20 DEF Alike
  <2>2. T \in TableType /\ \A x \in Names : T[x] # None => T[x] \in Nodes
    BY <1>4 DEF One, TableType
  <2> QED BY <1>4, <2>1, <2>2 DEF One
<1>22. Acc(M, T, G, Nothing)
  <2>1. 0 \in {0, 1} /\ 0 \in Int /\ N[n].open \in {0, N[n].active + 0}
    BY <1>15
  <2>2. r \in FileType /\ FileOK(r) /\ Acc(N, T, file, Nothing) /\ Nothing \in [Nodes -> Nat]
    BY <1>1, <1>3, <1>8
  <2>3. N[n].refs # 0 /\ less \in Int
    BY <1>9, <1>11
  <2>4. Acc(M, T, At1(file, f, r), Nothing)
    BY <1>1, <1>7, <1>16, <1>18, <1>19, <1>21, <2>1, <2>2, <2>3, Step
  <2> QED BY <1>2, <2>4
<1>23. \A k \in Nodes : M[k].main = N[k].main /\ M[k].name = N[k].name
  BY <1>20 DEF Alike
<1>24. Own(M, T, G)
  BY <1>1, <1>2, <1>3, <1>4, <1>5, <1>6, <1>23, OwnStays
<1>25. Named(M, G)
  <2>1. r.pc # "new" /\ r.pc # "main" /\ r.pc # "rename" /\ r.name = q.name
    BY <1>5
  <2>2. N[r.node].name[2] = r.name[2]
    BY <1>1, <1>3, <1>5, <1>7 DEF Named
  <2> QED BY <1>1, <1>2, <1>3, <1>4, <1>6, <1>23, <2>1, <2>2, NamedStays
<1> QED BY <1>2, <1>7, <1>9, <1>17, <1>20, <1>22, <1>24, <1>25 DEF Whole

-----------------------------------------------------------------------------
(* A deleted file leaves the table, and so do its streams.                 *)
LEMMA DeletedIs ==
  ASSUME NEW N, NEW T, NEW F, Whole(N, T, F), NEW n \in Nodes, N[n].name \in Names,
         T[N[n].name] \in {n, None}
  PROVE  \E D : /\ Deleted([node |-> N, table |-> T], n)
                   = [node |-> Untabled(N, D), table |-> TableWithout(N, T, D)]
                /\ Tabled(N, T, D)
                /\ \A d \in D : d = n \/ (N[n].main = None /\ N[d].name[1] = N[n].name[1]
                                           /\ N[d].name # N[n].name)
<1>1. Acc(N, T, F, Nothing) /\ NodesOK(N) /\ N \in [Nodes -> NodeType] /\ One(N, T)
      /\ T \in TableType /\ Uses(N, F)
  BY DEF Whole, Acc, NodesOK, One
<1>2. PICK name : name = N[n].name
  OBVIOUS
<1>3. PICK found : found = (T[name] # None)
  OBVIOUS
<1>4. PICK streams : streams = Companions(N, T, n)
  OBVIOUS
<1>5. PICK D : D = streams \cup {d \in {n} : T[name] # None}
  OBVIOUS
<1>6. None \notin Nodes
  BY FileNodeAssumption
<1>7. \A d \in streams : /\ d \in Nodes /\ N[d].name \in Names /\ T[N[d].name] = d
                         /\ N[d].name # name /\ N[d].name[1] = name[1] /\ N[n].main = None
  <2> SUFFICES ASSUME NEW d \in streams
               PROVE  /\ d \in Nodes /\ N[d].name \in Names /\ T[N[d].name] = d
                      /\ N[d].name # name /\ N[d].name[1] = name[1] /\ N[n].main = None
    OBVIOUS
  <2>1. PICK x \in Names : x[1] = name[1] /\ x # name /\ T[x] # None /\ d = T[x]
    BY <1>2, <1>4 DEF Companions
  <2>2. N[n].main = None
    BY <1>4 DEF Companions
  <2>3. d \in Nodes /\ N[d].name = x
    BY <1>1, <2>1 DEF One, TableType
  <2> QED BY <2>1, <2>2, <2>3
<1>8. Tabled(N, T, D)
  <2>1. T[name] # None => T[name] = n
    BY <1>2
  <2> QED BY <1>2, <1>5, <1>7, <2>1 DEF Tabled
<1>9. \A d \in D : d = n \/ (N[n].main = None /\ N[d].name[1] = N[n].name[1]
                              /\ N[d].name # N[n].name)
  BY <1>2, <1>5, <1>7
<1>10. PICK s : s = [node |-> N, table |-> T]
  OBVIOUS
<1>11. PICK W : W = [T EXCEPT ![name] = None]
  OBVIOUS
<1>12. W \in [Names -> Nodes \cup {None}] /\ W[name] = None
       /\ \A x \in Names : x # name => W[x] = T[x]
  BY <1>1, <1>2, <1>11 DEF TableType
<1>13. (IF volume.streams /\ N[n].main = None THEN Descendants(Forget(s, name), name) ELSE {})
       = streams
  <2>1. Forget(s, name) = [node |-> N, table |-> W]
    BY <1>10, <1>11 DEF Forget
  <2>2. Descendants(Forget(s, name), name)
        = {W[x] : x \in {y \in Names : y[1] = name[1] /\ W[y] # None}}
    BY <2>1 DEF Descendants
  <2>3. {W[x] : x \in {y \in Names : y[1] = name[1] /\ W[y] # None}}
        = {T[x] : x \in {y \in Names : y[1] = name[1] /\ y # name /\ T[y] # None}}
    BY <1>12
  <2> QED BY <1>2, <1>4, <2>2, <2>3 DEF Companions
<1>14. PICK gone : gone = {name} \cup {N[d].name : d \in streams}
  OBVIOUS
<1>15. PICK L : L = [d \in Nodes |-> IF d \in streams \cup {n}
                                       THEN [N[d] EXCEPT !.open = 0] ELSE N[d]]
  OBVIOUS
<1>16. PICK U : U = [x \in Names |-> IF x \in gone THEN None ELSE T[x]]
  OBVIOUS
<1>17. Deleted(s, n) = DereferenceAll([node |-> L, table |-> U], D)
  BY <1>2, <1>5, <1>10, <1>13, <1>14, <1>15, <1>16 DEF Deleted
<1>18. U = TableWithout(N, T, D)
  <2>1. ASSUME NEW x \in Names
        PROVE  (IF x \in gone THEN None ELSE T[x])
               = (IF \E d \in D : N[d].name = x THEN None ELSE T[x])
    <3>1. CASE x = name
      <4>1. CASE T[name] # None
        BY <1>2, <1>5, <1>14, <3>1, <4>1
      <4>2. CASE T[name] = None
        BY <1>14, <3>1, <4>2
      <4> QED BY <4>1, <4>2
    <3>2. CASE x # name
      <4>1. x \in gone <=> \E d \in streams : N[d].name = x
        BY <1>14, <3>2
      <4>2. (\E d \in D : N[d].name = x) <=> \E d \in streams : N[d].name = x
        BY <1>2, <1>5, <3>2
      <4> QED BY <4>1, <4>2
    <3> QED BY <3>1, <3>2
  <2> QED BY <1>16, <2>1 DEF TableWithout
<1>19. ASSUME NEW d \in Nodes
       PROVE  L[d] \in NodeType /\ L[d].refs = N[d].refs
              /\ (d \notin D => L[d] = N[d])
              /\ (d \in D => L[d] = [N[d] EXCEPT !.open = 0])
  <2>1. PICK q, zero : q = N[d] /\ zero = 0
    OBVIOUS
  <2>2. q \in NodeType /\ zero \in Int
    BY <1>1, <2>1
  <2>3. [q EXCEPT !.open = zero] \in NodeType /\ [q EXCEPT !.open = zero].refs = q.refs
    BY <2>2 DEF NodeType
  <2>4. L[d] = IF d \in streams \cup {n} THEN [q EXCEPT !.open = zero] ELSE q
    BY <1>15, <2>1
  <2>5. L[d] \in NodeType /\ L[d].refs = N[d].refs
    BY <2>1, <2>2, <2>3, <2>4
  <2>6. d \in D => L[d] = [N[d] EXCEPT !.open = 0]
    BY <1>5, <2>1, <2>4
  <2>7. ASSUME d \notin D PROVE L[d] = N[d]
    <3>1. CASE d \notin streams \cup {n}
      BY <2>1, <2>4, <3>1
    <3>2. CASE d \in streams \cup {n}
      <4>1. d = n /\ T[name] = None
        BY <1>5, <2>7, <3>2
      <4>2. ~(q.open > 0)
        BY <1>1, <1>2, <1>6, <2>1, <4>1 DEF One
      <4>3. q.open = 0
        <5>1. N[d].open \in {0, N[d].active}
              /\ N[d].active = Cardinality(UsersAt(F, d)) + Cardinality(ExtrasAt(F, d))
          BY <1>1 DEF Uses
        <5>2. Cardinality(UsersAt(F, d)) \in Nat /\ Cardinality(ExtrasAt(F, d)) \in Nat
          BY UsersCounted, HoldersCounted
        <5>3. q.open \in Nat
          BY <2>1, <5>1, <5>2
        <5> QED BY <4>2, <5>3
      <4>4. [q EXCEPT !.open = zero] = q
        BY <2>1, <2>2, <4>3 DEF NodeType
      <4> QED BY <2>1, <2>4, <4>4
    <3> QED BY <3>1, <3>2
  <2> QED BY <2>5, <2>6, <2>7
<1>20. L \in [Nodes -> NodeType]
  BY <1>15, <1>19
<1>21. D \subseteq Nodes /\ \A d \in D : L[d].refs # 1 /\ L[d].refs # 0
  <2>1. \A d \in D : d \in Nodes /\ N[d].name \in Names /\ T[N[d].name] = d
    BY <1>8 DEF Tabled
  <2>2. \A d \in D : N[d].refs # 1 /\ N[d].refs # 0
    BY <1>1, <2>1, TabledUsed
  <2> QED BY <1>19, <2>1, <2>2
<1>22. PICK M : M = [k \in Nodes |-> IF k \in D THEN [L[k] EXCEPT !.refs = @ - 1] ELSE L[k]]
  OBVIOUS
<1>23. DereferenceAll([node |-> L, table |-> U], D) = [node |-> M, table |-> U]
  BY <1>20, <1>21, <1>22, DereferenceAllIs
<1>24. M = Untabled(N, D)
  <2>1. ASSUME NEW k \in Nodes
        PROVE  (IF k \in D THEN [L[k] EXCEPT !.refs = @ - 1] ELSE L[k])
               = (IF k \in D THEN [N[k] EXCEPT !.open = 0, !.refs = @ - 1] ELSE N[k])
    <3>1. CASE k \in D
      <4>1. PICK q : q = N[k]
        OBVIOUS
      <4>2. q \in NodeType
        BY <1>1, <4>1
      <4>3. PICK p : p = [q EXCEPT !.open = 0]
        OBVIOUS
      <4>4. L[k] = p
        BY <1>19, <3>1, <4>1, <4>3
      <4>5. [p EXCEPT !.refs = @ - 1] = [q EXCEPT !.open = 0, !.refs = @ - 1]
        BY <4>2, <4>3 DEF NodeType
      <4> QED BY <3>1, <4>1, <4>4, <4>5
    <3>2. CASE k \notin D
      BY <1>19, <3>2
    <3> QED BY <3>1, <3>2
  <2> QED BY <1>22, <2>1 DEF Untabled
<1> QED BY <1>8, <1>9, <1>10, <1>17, <1>18, <1>23, <1>24

-----------------------------------------------------------------------------
(* An open takes a node.                                                   *)
LEMMA CountTakes ==
  ASSUME NEW N, N \in [Nodes -> NodeType], NEW T, NEW k \in Nodes
  PROVE  Count([node |-> N, table |-> T], k) = [node |-> Taken(N, k), table |-> T]
<1>1. PICK q : q = N[k]
  OBVIOUS
<1>2. q \in NodeType /\ q.refs \in Int /\ q.active \in Int /\ q.open \in Int /\ q.handles \in Int
  BY <1>1 DEF NodeType
<1>3. PICK a, b, c, d : a = q.refs + 1 /\ b = q.active + 1 /\ c = q.open + 1 /\ d = q.handles + 1
  OBVIOUS
<1>4. PICK p : p = [q EXCEPT !.refs = a]
  OBVIOUS
<1>5. p \in NodeType /\ p.active = q.active /\ p.open = q.open /\ p.handles = q.handles
  BY <1>2, <1>3, <1>4 DEF NodeType
<1>6. PICK s : s = [node |-> N, table |-> T]
  OBVIOUS
<1>7. PICK R : R = [N EXCEPT ![k] = p]
  OBVIOUS
<1>8. R \in [Nodes -> NodeType] /\ R[k] = p
  BY <1>5, <1>7
<1>9. Reference(s, k) = [node |-> R, table |-> T]
  BY <1>1, <1>2, <1>3, <1>4, <1>6, <1>7 DEF Reference, NodeType
<1>10. PICK u : u = [node |-> R, table |-> T]
  OBVIOUS
<1>11. Count(s, k) = [u EXCEPT !.node[k].active = @ + 1, !.node[k].open = @ + 1,
                               !.node[k].handles = @ + 1]
  BY <1>9, <1>10 DEF Count
<1>12. [u EXCEPT !.node[k].active = @ + 1, !.node[k].open = @ + 1, !.node[k].handles = @ + 1]
       = [u EXCEPT !.node[k].active = b, !.node[k].open = c, !.node[k].handles = d]
  BY <1>3, <1>5, <1>8, <1>10 DEF NodeType
<1>13. PICK z : z = [p EXCEPT !.active = b, !.open = c, !.handles = d]
  OBVIOUS
<1>14. [u EXCEPT !.node[k].active = b, !.node[k].open = c, !.node[k].handles = d]
       = [node |-> [R EXCEPT ![k] = z], table |-> T]
  <2>1. [u EXCEPT !.node[k].active = b, !.node[k].open = c, !.node[k].handles = d]
        = [u EXCEPT !.node = [R EXCEPT ![k].active = b, ![k].open = c, ![k].handles = d]]
    BY <1>8, <1>10 DEF NodeType
  <2>2. [R EXCEPT ![k].active = b, ![k].open = c, ![k].handles = d] = [R EXCEPT ![k] = z]
    BY <1>5, <1>8, <1>13 DEF NodeType
  <2> QED BY <1>10, <2>1, <2>2
<1>15. [R EXCEPT ![k] = z] = [N EXCEPT ![k] = z]
  BY <1>7
<1>16. z = Plus(q, 1, 1, c, 1)
  <2>1. Plus(q, 1, 1, c, 1) = [q EXCEPT !.refs = a, !.active = b, !.open = c, !.handles = d]
    BY <1>2, <1>3 DEF Plus, NodeType
  <2>2. z = [q EXCEPT !.refs = a, !.active = b, !.open = c, !.handles = d]
    BY <1>2, <1>4, <1>13 DEF NodeType
  <2> QED BY <2>1, <2>2
<1>17. Taken(N, k) = [N EXCEPT ![k] = z]
  BY <1>1, <1>3, <1>16 DEF Taken
<1> QED BY <1>6, <1>11, <1>12, <1>14, <1>15, <1>17

LEMMA TakenChanges ==
  ASSUME NEW N, N \in [Nodes -> NodeType], NEW k \in Nodes, NEW f \in Files, NEW mode
  PROVE  /\ Taken(N, k) \in [Nodes -> NodeType]
         /\ Changes(N, Taken(N, k), k, f, mode, 0, 1, 1, N[k].open + 1, 1)
<1>1. Changes(N, N, k, f, mode, 0, 0, 0, N[k].open, 0)
  BY NoChange
<1>2. PICK open : open = N[k].open + 1
  OBVIOUS
<1>3. open \in Int /\ 1 \in Int
  BY <1>2 DEF NodeType
<1>4. PICK M : M = [N EXCEPT ![k] = Plus(N[k], 1, 1, open, 1)]
  OBVIOUS
<1>5. M \in [Nodes -> NodeType] /\ Changes(N, M, k, f, mode, 0, 1, 1, open, 1)
  BY <1>1, <1>3, <1>4, ChangesPlus
<1> QED BY <1>2, <1>4, <1>5 DEF Taken

(* A node that is open is in the table, and open counts all its uses.      *)
LEMMA OpenIs ==
  ASSUME NEW N, NEW T, NEW F, NEW owed, Acc(N, T, F, owed), NEW k \in Nodes
  PROVE  /\ N[k].open \in Nat /\ N[k].active \in Nat
         /\ N[k].open > 0 => /\ N[k].open = N[k].active
                             /\ N[k].name \in Names /\ T[N[k].name] = k
<1>1. /\ N[k].active = Cardinality(UsersAt(F, k)) + Cardinality(ExtrasAt(F, k))
      /\ N[k].open \in {0, N[k].active}
  BY DEF Acc, Uses
<1>2. Cardinality(UsersAt(F, k)) \in Nat /\ Cardinality(ExtrasAt(F, k)) \in Nat
  BY UsersCounted, HoldersCounted
<1>3. N[k].open \in Nat /\ N[k].active \in Nat
  BY <1>1, <1>2
<1>4. N[k].open > 0 => N[k].open = N[k].active
  BY <1>1
<1>5. N[k].open > 0 => N[k].name \in Names
  BY FreeNodeIs DEF Acc, NodesOK
<1>6. N[k].open > 0 => T[N[k].name] = k
  BY DEF Acc, One
<1> QED BY <1>3, <1>4, <1>5, <1>6

-----------------------------------------------------------------------------
(* A sharing violation is counted on the node that caused it.              *)
LEMMA RefuseKeeps ==
  ASSUME NEW N, NEW T, NEW F, Whole(N, T, F), NEW f \in Files, NEW r, r \in FileType,
         FileOK(r), NEW k \in Nodes, N[k].open > 0, Refuses(F[f], r, k)
  PROVE  \E M : /\ Count([node |-> N, table |-> T], k) = [node |-> M, table |-> T]
                /\ Whole(M, T, At1(F, f, r))
                /\ CountedOpen(N, M, k)
<1>1. PICK q : q = F[f]
  OBVIOUS
<1>2. PICK G : G = At1(F, f, r)
  OBVIOUS
<1>3. Acc(N, T, F, Nothing) /\ Own(N, T, F) /\ Named(N, F)
  BY DEF Whole
<1>4. /\ F \in [Files -> FileType] /\ \A g \in Files : FileOK(F[g])
      /\ NodesOK(N) /\ N \in [Nodes -> NodeType] /\ One(N, T)
  BY <1>3 DEF Acc, FilesOK, NodesOK
<1>5. /\ q.pc \in {"answered", "again"} /\ r.pc \in Refusing /\ r.extra = k
      /\ r.node = q.node /\ r.name = q.name /\ r.mode = q.mode
  BY <1>1 DEF Refuses
<1>6. /\ q.pc \in Private /\ q.pc \notin HasHandle /\ q.pc \notin UserPC /\ q.pc \notin Ended
      /\ q.pc \notin Refusing /\ q.extra = None
  <2>1. /\ q.pc \in Private /\ q.pc \notin HasHandle /\ q.pc \notin UserPC /\ q.pc \notin Ended
        /\ q.pc \notin Refusing
    BY <1>5 DEF Private, HasHandle, UserPC, Ended, Refusing
  <2> QED BY <1>1, <1>4, <2>1 DEF FileOK
<1>7. r.pc \in Private /\ r.pc \notin HasHandle /\ r.pc \notin UserPC
      /\ r.pc # "new" /\ r.pc # "main" /\ r.pc # "rename"
  BY <1>5 DEF Refusing, Private, HasHandle, UserPC
<1>8. Nothing \in [Nodes -> Nat] /\ \A j \in Nodes : Nothing[j] = 0
  BY DEF Nothing
<1>9. N[k].open \in Nat /\ N[k].active \in Nat /\ N[k].open = N[k].active
      /\ N[k].name \in Names /\ T[N[k].name] = k
  BY <1>3, OpenIs
<1>10. N[k].refs # 0
  BY <1>4, FreeNodeIs DEF NodesOK
<1>11. PICK M : M = Taken(N, k)
  OBVIOUS
<1>12. PICK open : open = N[k].open + 1
  OBVIOUS
<1>13. M \in [Nodes -> NodeType] /\ Changes(N, M, k, f, q.mode, 0, 1, 1, open, 1)
  BY <1>4, <1>11, <1>12, TakenChanges
<1>14. \A j \in Nodes : Alike(N[j], M[j]) /\ M[j].open = IF j = k THEN open ELSE N[j].open
  BY <1>13 DEF Changes, Kept, Counts
<1>15. \A j \in Nodes : M[j].main = N[j].main /\ M[j].name = N[j].name
  BY <1>14 DEF Alike
<1>16. One(M, T)
  <2>1. \A j \in Nodes : M[j].open > 0 <=> N[j].open > 0
    BY <1>9, <1>12, <1>14
  <2>2. T \in TableType /\ \A x \in Names : T[x] # None => T[x] \in Nodes
    BY <1>4 DEF One, TableType
  <2> QED BY <1>4, <1>15, <2>1, <2>2 DEF One
<1>17. Gains(q, r, T, T, Nothing, Nothing, k, 1, 1, 1)
  <2> SUFFICES ASSUME NEW j \in Nodes
               PROVE  /\ NodeGain(q, r, j) + ExtraGain(q, r, j) + NamesGain(T, T, j)
                           + Nothing[j] - Nothing[j] = OnlyAt(j, k, 1)
                      /\ UserGain(q, r, j) + ExtraGain(q, r, j) = OnlyAt(j, k, 1)
                      /\ HandleGain(q, r, j) + ExtraGain(q, r, j) = OnlyAt(j, k, 1)
    BY DEF Gains
  <2>1. NodeGain(q, r, j) = 0
    BY <1>5 DEF NodeGain, Indicator
  <2>2. j # None
    BY FileNodeAssumption
  <2>3. ExtraGain(q, r, j) = OnlyAt(j, k, 1)
    BY <1>5, <1>6, <2>2 DEF ExtraGain, Indicator, OnlyAt
  <2>4. UserGain(q, r, j) = 0 /\ HandleGain(q, r, j) = 0
    BY <1>6, <1>7 DEF UserGain, HandleGain, Indicator
  <2>5. NamesGain(T, T, j) = 0 /\ OnlyAt(j, k, 1) \in Int
    BY NamesStay DEF OnlyAt
  <2> QED BY <1>8, <2>1, <2>3, <2>4, <2>5
<1>18. Takes(q, r, k, q.mode, 0)
  BY <1>6, <1>7 DEF Takes
<1>19. Acc(M, T, G, Nothing)
  <2>1. 1 \in {0, 1} /\ 1 \in Int /\ open \in {0, N[k].active + 1}
    BY <1>9, <1>12
  <2> QED BY <1>1, <1>2, <1>3, <1>8, <1>10, <1>13, <1>16, <1>17, <1>18, <2>1, Step
<1>20. Own(M, T, G)
  <2>1. ASSUME NEW g \in Files \ {f}, F[g].pc \in Private
        PROVE  r.node # F[g].node /\ r.extra # F[g].node /\ \A x \in Names : T[x] # F[g].node
    <3>1. \A x \in Names : T[x] # F[g].node
      BY <1>3, <2>1 DEF Own
    <3>2. r.extra # F[g].node
      BY <1>5, <1>9, <3>1
    <3>3. q.node # F[g].node
      BY <1>1, <1>3, <2>1 DEF Own
    <3> QED BY <1>5, <3>1, <3>2, <3>3
  <2>2. r.node = q.node /\ r.extra # r.node /\ \A x \in Names : T[x] # r.node
    <3>1. \A x \in Names : T[x] # q.node
      BY <1>1, <1>3, <1>6 DEF Own
    <3> QED BY <1>5, <1>9, <3>1
  <2> QED BY <1>1, <1>2, <1>3, <1>4, <1>6, <1>15, <2>1, <2>2, OwnMoves
<1>21. Named(M, G)
  <2>1. r.node \in Nodes => N[r.node].name[2] = r.name[2]
    BY <1>1, <1>3, <1>5 DEF Named
  <2> QED BY <1>1, <1>2, <1>3, <1>4, <1>5, <1>6, <1>7, <1>15, <2>1, NamedStays
<1>22. Count([node |-> N, table |-> T], k) = [node |-> M, table |-> T]
  BY <1>4, <1>11, CountTakes
<1> QED BY <1>2, <1>12, <1>14, <1>19, <1>20, <1>21, <1>22 DEF Whole, CountedOpen

-----------------------------------------------------------------------------
(* An open that succeeds: its own node goes into the table, or it moves to *)
(* the node that is there.                                                 *)
LEMMA SharedIs ==
  ASSUME NEW N, N \in [Nodes -> NodeType], NEW T, NEW k \in Nodes, N[k].main # k,
         NEW f \in Files, NEW mode, mode = file[f].mode, mode \in AllModes
  PROVE  \E M : /\ Shared1(N, T, k, f) = [node |-> M, table |-> T]
                /\ M \in [Nodes -> NodeType]
                /\ Changes(N, M, k, f, mode, 1, 1, 1, N[k].open + 1, 1)
<1>1. PICK S : S = Taken(N, k)
  OBVIOUS
<1>2. PICK open : open = N[k].open + 1
  OBVIOUS
<1>3. open \in Int /\ 1 \in Int /\ 1 \in {1, 0 - 1}
  BY <1>2 DEF NodeType
<1>4. S \in [Nodes -> NodeType] /\ Changes(N, S, k, f, mode, 0, 1, 1, open, 1)
  BY <1>1, <1>2, TakenChanges
<1>5. S[k].main # k /\ S[k].open = open
  BY <1>4 DEF Changes, Alike, Counts
<1>6. PICK M : M = Counted(S, k, f, mode, 1)
  OBVIOUS
<1>7. M \in [Nodes -> NodeType] /\ Changes(S, M, k, f, mode, 1, 0, 0, open, 0)
  <2>1. M \in [Nodes -> NodeType] /\ Changes(S, M, k, f, mode, 1, 0, 0, S[k].open, 0)
    BY <1>3, <1>4, <1>5, <1>6, CountedChanges
  <2> QED BY <1>5, <2>1
<1>8. Shared1(N, T, k, f) = [node |-> M, table |-> T]
  <2>1. Count([node |-> N, table |-> T], k) = [node |-> S, table |-> T]
    BY <1>1, CountTakes
  <2>2. CountShare([node |-> S, table |-> T], k, f, 1) = [node |-> M, table |-> T]
    BY <1>4, <1>5, <1>6, CountShareIs
  <2> QED BY <2>1, <2>2 DEF Shared1
<1>9. S = [N EXCEPT ![k] = Plus(N[k], 1, 1, open, 1)]
  BY <1>1, <1>2 DEF Taken
<1>10. Changes(N, M, k, f, mode, 1, 1, 1, open, 1)
  BY <1>3, <1>4, <1>7, <1>9, PlusChanges
<1> QED BY <1>2, <1>7, <1>8, <1>10

LEMMA OpensIs ==
  ASSUME NEW N, NEW T, NEW F, Whole(N, T, F), NEW f \in Files, NEW r, NEW k,
         NEW q, q = F[f], NEW n, n = q.node, Opens(q, r, k)
  PROVE  Opening(N, T, q, r, n)
<1>1. q = F[f]
  OBVIOUS
<1>2. /\ q \in FileType /\ FileOK(q) /\ Acc(N, T, F, Nothing) /\ Own(N, T, F)
  BY <1>1 DEF Whole, Acc, FilesOK
<1>3. /\ q.pc \in {"answered", "again"} /\ r.pc \in {"overwrite", "tryopen"}
      /\ r.extra = q.extra
  BY <1>1 DEF Opens
<1>4. /\ q.pc \in Private /\ q.pc \notin HasHandle /\ q.pc \notin UserPC /\ q.pc \notin Ended
      /\ q.pc \notin Refusing /\ q.pc # "main"
  BY <1>3 DEF Private, HasHandle, UserPC, Ended, Refusing
<1>5. /\ r.pc \in HasHandle /\ r.pc \in UserPC /\ r.pc \notin Private
      /\ r.pc \notin Ended /\ r.pc # "main" /\ r.pc # "rename"
  BY <1>3 DEF Private, HasHandle, UserPC, Ended
<1>6. q.extra = None /\ q.node \in Nodes /\ q.mode \in AllModes
  BY <1>2, <1>4 DEF FileOK, FileType
<1>7. \A x \in Names : T[x] # q.node
  BY <1>1, <1>2, <1>4 DEF Own
<1>8. Nothing \in [Nodes -> Nat]
  BY DEF Nothing
<1>9. N[q.node].refs # 0 /\ N[q.node].name \in Names /\ N[q.node].main # q.node
  BY <1>1, <1>2, <1>6, <1>8, UsedNode
<1>10. N[q.node].open = 0
  <2>1. N[q.node].open \in Nat /\ (N[q.node].open > 0 => T[N[q.node].name] = q.node)
    BY <1>2, <1>6, OpenIs
  <2> QED BY <1>7, <1>9, <2>1
<1>11. N[q.node].active = 0
  <2>1. UsersAt(F, q.node) = {}
    <3>1. ASSUME NEW g \in UsersAt(F, q.node) PROVE FALSE
      <4>1. g \in Files /\ F[g].node = q.node /\ F[g].pc \in UserPC
        BY <3>1 DEF UsersAt, UserPC
      <4>2. g = f
        BY <1>1, <1>2, <1>4, <4>1 DEF Own
      <4> QED BY <1>1, <1>4, <4>1, <4>2
    <3> QED BY <3>1
  <2>2. ExtrasAt(F, q.node) = {}
    BY <1>1, <1>2, <1>4 DEF Own, ExtrasAt
  <2>3. Cardinality(UsersAt(F, q.node)) = 0 /\ Cardinality(ExtrasAt(F, q.node)) = 0
    BY <2>1, <2>2, FS_EmptySet
  <2>4. N[q.node].active = Cardinality(UsersAt(F, q.node)) + Cardinality(ExtrasAt(F, q.node))
    BY <1>2, <1>6 DEF Acc, Uses
  <2> QED BY <2>3, <2>4
<1> QED BY <1>3, <1>4, <1>5, <1>6, <1>7, <1>9, <1>10, <1>11 DEF Opening

LEMMA InsertKeeps ==
  ASSUME NEW N, NEW T, Whole(N, T, file), NEW f \in Files, NEW r, r \in FileType, FileOK(r),
         NEW n, n = file[f].node, T[N[n].name] = None, Opens(file[f], r, n)
  PROVE  \E M, U : /\ [Shared1(N, T, n, f) EXCEPT !.table[N[n].name] = n]
                      = [node |-> M, table |-> U]
                   /\ Whole(M, U, At1(file, f, r))
                   /\ Carried(N, M, U, At1(file, f, r), n, N[n].open + 1)
<1>1. PICK q : q = file[f]
  OBVIOUS
<1>2. PICK G : G = At1(file, f, r)
  OBVIOUS
<1>3. Acc(N, T, file, Nothing) /\ Own(N, T, file) /\ Named(N, file)
  BY DEF Whole
<1>4. /\ file \in [Files -> FileType] /\ \A g \in Files : FileOK(file[g])
      /\ NodesOK(N) /\ N \in [Nodes -> NodeType] /\ One(N, T) /\ T \in TableType
  BY <1>3 DEF Acc, FilesOK, NodesOK, One
<1>5. /\ q.pc \in Private /\ q.pc \notin HasHandle /\ q.pc \notin UserPC
      /\ q.pc \notin Ended /\ q.pc # "main" /\ q.extra = None /\ r.extra = None
      /\ q.node = n /\ n \in Nodes /\ q.mode \in AllModes
      /\ r.pc \in HasHandle /\ r.pc \in UserPC /\ r.pc \notin Private
      /\ r.pc \notin Ended /\ r.pc # "main" /\ r.pc # "rename"
      /\ N[n].open = 0 /\ N[n].active = 0 /\ N[n].refs # 0
      /\ N[n].name \in Names /\ N[n].main # n
      /\ \A x \in Names : T[x] # n
  <2>1. q.node = n /\ Opening(N, T, q, r, n)
    BY <1>1, OpensIs
  <2> QED BY <2>1 DEF Opening
<1>6. r.node = n /\ r.name = q.name /\ r.mode = q.mode
  BY <1>1 DEF Opens
<1>7. PICK M : /\ Shared1(N, T, n, f) = [node |-> M, table |-> T]
               /\ M \in [Nodes -> NodeType]
               /\ Changes(N, M, n, f, q.mode, 1, 1, 1, N[n].open + 1, 1)
  BY <1>1, <1>4, <1>5, SharedIs
<1>8. PICK open : open = N[n].open + 1
  OBVIOUS
<1>9. open = 1 /\ Changes(N, M, n, f, q.mode, 1, 1, 1, open, 1)
  BY <1>5, <1>7, <1>8
<1>10. PICK name : name = N[n].name
  OBVIOUS
<1>11. PICK U : U = [T EXCEPT ![name] = n]
  OBVIOUS
<1>12. U \in TableType /\ U[name] = n /\ \A x \in Names : x # name => U[x] = T[x]
  BY <1>4, <1>5, <1>10, <1>11 DEF TableType
<1>13. \A j \in Nodes : /\ Alike(N[j], M[j]) /\ M[j].main = N[j].main /\ M[j].name = N[j].name
                        /\ M[j].open = IF j = n THEN open ELSE N[j].open
  BY <1>9 DEF Changes, Kept, Counts, Alike
<1>14. One(M, U)
  <2>1. ASSUME NEW k \in Nodes, M[k].open > 0 PROVE U[M[k].name] = k
    <3>1. CASE k = n
      BY <1>10, <1>12, <1>13, <3>1
    <3>2. CASE k # n
      <4>1. N[k].open > 0 /\ M[k].name = N[k].name
        BY <1>13, <2>1, <3>2
      <4>2. N[k].name \in Names /\ T[N[k].name] = k
        BY <1>3, <4>1, OpenIs
      <4>3. N[k].name # name
        BY <1>10, <4>2, FileNodeAssumption
      <4> QED BY <1>12, <4>1, <4>2, <4>3
    <3> QED BY <3>1, <3>2
  <2>2. ASSUME NEW x \in Names, U[x] # None PROVE M[U[x]].name = x /\ M[U[x]].open > 0
    <3>1. CASE x = name
      BY <1>5, <1>9, <1>10, <1>12, <1>13, <3>1
    <3>2. CASE x # name
      <4>1. U[x] = T[x] /\ T[x] \in Nodes /\ T[x] # n
        BY <1>4, <1>5, <1>12, <2>2, <3>2 DEF TableType
      <4>2. N[T[x]].name = x /\ N[T[x]].open > 0
        BY <1>4, <2>2, <4>1 DEF One
      <4> QED BY <1>13, <4>1, <4>2
    <3> QED BY <3>1, <3>2
  <2> QED BY <1>12, <2>1, <2>2 DEF One
<1>15. Nothing \in [Nodes -> Nat] /\ \A j \in Nodes : Nothing[j] = 0
  BY DEF Nothing
<1>16. Gains(q, r, T, U, Nothing, Nothing, n, 1, 1, 1)
  <2> SUFFICES ASSUME NEW j \in Nodes
               PROVE  /\ NodeGain(q, r, j) + ExtraGain(q, r, j) + NamesGain(T, U, j)
                           + Nothing[j] - Nothing[j] = OnlyAt(j, n, 1)
                      /\ UserGain(q, r, j) + ExtraGain(q, r, j) = OnlyAt(j, n, 1)
                      /\ HandleGain(q, r, j) + ExtraGain(q, r, j) = OnlyAt(j, n, 1)
    BY DEF Gains
  <2>1. NodeGain(q, r, j) = 0 /\ ExtraGain(q, r, j) = 0
    BY <1>5, <1>6 DEF NodeGain, ExtraGain, Indicator
  <2>2. j # None
    BY FileNodeAssumption
  <2>3. UserGain(q, r, j) = OnlyAt(j, n, 1) /\ HandleGain(q, r, j) = OnlyAt(j, n, 1)
    BY <1>5, <1>6 DEF UserGain, HandleGain, Indicator, OnlyAt
  <2>4. NamesGain(T, U, j) = OnlyAt(j, n, 1)
    <3>1. Put(T, U, name, n) /\ name \in Names
      BY <1>5, <1>10, <1>12 DEF Put
    <3>2. NamesGain(T, U, j) = (IF n = j THEN 1 ELSE 0) - (IF T[name] = j THEN 1 ELSE 0)
      BY <3>1, NameSet
    <3> QED BY <1>10, <2>2, <3>2 DEF OnlyAt
  <2>5. OnlyAt(j, n, 1) \in Int
    BY DEF OnlyAt
  <2> QED BY <1>15, <2>1, <2>3, <2>4, <2>5
<1>17. Takes(q, r, n, q.mode, 1)
  BY <1>5, <1>6 DEF Takes
<1>18. Acc(M, U, G, Nothing)
  <2>1. 1 \in {0, 1} /\ 1 \in Int /\ open \in {0, N[n].active + 1}
    BY <1>5, <1>9
  <2> QED BY <1>1, <1>2, <1>3, <1>5, <1>7, <1>9, <1>14, <1>15, <1>16, <1>17, <2>1, Step
<1>19. Own(M, U, G)
  <2>1. ASSUME NEW g \in Files \ {f}, file[g].pc \in Private
        PROVE  r.node # file[g].node /\ r.extra # file[g].node
               /\ \A x \in Names : U[x] # file[g].node
    <3>1. q.node # file[g].node /\ \A x \in Names : T[x] # file[g].node
      BY <1>1, <1>3, <2>1 DEF Own
    <3>2. file[g].node \in Nodes
      BY <1>4, <2>1, LabelsDiffer DEF FileOK
    <3> QED BY <1>5, <1>6, <1>12, <3>1, <3>2, FileNodeAssumption
  <2> QED BY <1>2, <1>3, <1>4, <1>5, <1>13, <2>1, OwnMoves
<1>20. Named(M, G)
  <2>1. N[r.node].name[2] = r.name[2]
    BY <1>1, <1>3, <1>5, <1>6 DEF Named
  <2>2. r.pc # "new"
    BY <1>5 DEF Ended
  <2> QED BY <1>1, <1>2, <1>3, <1>4, <1>5, <1>6, <1>13, <2>1, <2>2, NamedStays
<1>21. [Shared1(N, T, n, f) EXCEPT !.table[N[n].name] = n] = [node |-> M, table |-> U]
  BY <1>4, <1>5, <1>7, <1>10, <1>11 DEF TableType
<1>22. Carried(N, M, U, G, n, N[n].open + 1)
  BY <1>8, <1>13 DEF Carried
<1> QED BY <1>2, <1>18, <1>19, <1>20, <1>21, <1>22 DEF Whole

LEMMA JoinKeeps ==
  ASSUME NEW N, NEW T, Whole(N, T, file), NEW f \in Files, NEW r, r \in FileType, FileOK(r),
         NEW n, n = file[f].node, NEW k \in Nodes, T[N[n].name] = k, Opens(file[f], r, k)
  PROVE  \E M : /\ Dereference(Shared1(N, T, k, f), n) = [node |-> M, table |-> T]
                /\ Whole(M, T, At1(file, f, r))
                /\ Carried(N, M, T, At1(file, f, r), k, N[k].open + 1)
                /\ N[k].name = N[n].name /\ k # n /\ N[k].open \in Nat /\ N[k].open > 0
<1>1. PICK q : q = file[f]
  OBVIOUS
<1>2. PICK G : G = At1(file, f, r)
  OBVIOUS
<1>3. Acc(N, T, file, Nothing) /\ Own(N, T, file) /\ Named(N, file)
  BY DEF Whole
<1>4. /\ file \in [Files -> FileType] /\ \A g \in Files : FileOK(file[g])
      /\ NodesOK(N) /\ N \in [Nodes -> NodeType] /\ One(N, T) /\ T \in TableType
  BY <1>3 DEF Acc, FilesOK, NodesOK, One
<1>5. /\ q.pc \in Private /\ q.pc \notin HasHandle /\ q.pc \notin UserPC
      /\ q.pc \notin Ended /\ q.pc # "main" /\ q.extra = None /\ r.extra = None
      /\ q.node = n /\ n \in Nodes /\ q.mode \in AllModes
      /\ r.pc \in HasHandle /\ r.pc \in UserPC /\ r.pc \notin Private
      /\ r.pc \notin Ended /\ r.pc # "main" /\ r.pc # "rename"
      /\ N[n].name \in Names
      /\ \A x \in Names : T[x] # n
  <2>1. q.node = n /\ Opening(N, T, q, r, n)
    BY <1>1, OpensIs
  <2> QED BY <2>1 DEF Opening
<1>6. r.node = k /\ r.name = q.name /\ r.mode = q.mode
  BY <1>1 DEF Opens
<1>7. k # n /\ k # None /\ n # None
  BY <1>5, FileNodeAssumption
<1>8. N[k].name = N[n].name /\ N[k].open > 0
  BY <1>4, <1>5, <1>7 DEF One
<1>9. N[k].open \in Nat /\ N[k].active \in Nat /\ N[k].open = N[k].active
  BY <1>3, <1>8, OpenIs
<1>10. N[k].refs # 0 /\ N[k].main # k
  <2>1. N[k].refs # 0
    BY <1>4, <1>8, FreeNodeIs DEF NodesOK
  <2> QED BY <1>4, <1>7, <2>1 DEF NodesOK
<1>11. PICK L : /\ Shared1(N, T, k, f) = [node |-> L, table |-> T]
                /\ L \in [Nodes -> NodeType]
                /\ Changes(N, L, k, f, q.mode, 1, 1, 1, N[k].open + 1, 1)
  BY <1>1, <1>4, <1>5, <1>10, SharedIs
<1>12. PICK open : open = N[k].open + 1
  OBVIOUS
<1>13. Changes(N, L, k, f, q.mode, 1, 1, 1, open, 1)
  BY <1>11, <1>12
<1>14. \A j \in Nodes : /\ Alike(N[j], L[j]) /\ L[j].main = N[j].main /\ L[j].name = N[j].name
                        /\ L[j].open = IF j = k THEN open ELSE N[j].open
  BY <1>13 DEF Changes, Kept, Counts, Alike
<1>15. One(L, T)
  <2>1. \A j \in Nodes : L[j].open > 0 <=> N[j].open > 0
    BY <1>9, <1>8, <1>12, <1>14
  <2>2. \A x \in Names : T[x] # None => T[x] \in Nodes
    BY <1>4 DEF TableType
  <2> QED BY <1>4, <1>14, <2>1, <2>2 DEF One
<1>16. Nothing \in [Nodes -> Nat] /\ \A j \in Nodes : Nothing[j] = 0
  BY DEF Nothing
<1>17. PICK o : o = Owe(n, 1)
  OBVIOUS
<1>18. o \in [Nodes -> Nat]
  BY <1>17 DEF Owe
<1>19. Gains(q, r, T, T, Nothing, o, k, 1, 1, 1)
  <2> SUFFICES ASSUME NEW j \in Nodes
               PROVE  /\ NodeGain(q, r, j) + ExtraGain(q, r, j) + NamesGain(T, T, j)
                           + o[j] - Nothing[j] = OnlyAt(j, k, 1)
                      /\ UserGain(q, r, j) + ExtraGain(q, r, j) = OnlyAt(j, k, 1)
                      /\ HandleGain(q, r, j) + ExtraGain(q, r, j) = OnlyAt(j, k, 1)
    BY DEF Gains
  <2>1. ExtraGain(q, r, j) = 0 /\ NamesGain(T, T, j) = 0
    BY <1>5, NamesStay DEF ExtraGain, Indicator
  <2>2. NodeGain(q, r, j) = (IF j = k THEN 1 ELSE 0) - (IF j = n THEN 1 ELSE 0)
    BY <1>5, <1>6 DEF NodeGain, Indicator
  <2>3. UserGain(q, r, j) = OnlyAt(j, k, 1) /\ HandleGain(q, r, j) = OnlyAt(j, k, 1)
    BY <1>5, <1>6 DEF UserGain, HandleGain, Indicator, OnlyAt
  <2>4. o[j] = IF j = n THEN 1 ELSE 0
    BY <1>17 DEF Owe
  <2>5. OnlyAt(j, k, 1) = IF j = k THEN 1 ELSE 0
    BY DEF OnlyAt
  <2> QED BY <1>16, <2>1, <2>2, <2>3, <2>4, <2>5
<1>20. Takes(q, r, k, q.mode, 1)
  BY <1>5, <1>6 DEF Takes
<1>21. Acc(L, T, G, o)
  <2>1. 1 \in {0, 1} /\ 1 \in Int /\ open \in {0, N[k].active + 1}
    BY <1>9, <1>12
  <2> QED BY <1>1, <1>2, <1>3, <1>10, <1>11, <1>13, <1>15, <1>16, <1>18, <1>19, <1>20,
             <2>1, Step
<1>22. Own(L, T, G)
  <2>1. ASSUME NEW g \in Files \ {f}, file[g].pc \in Private
        PROVE  r.node # file[g].node /\ r.extra # file[g].node
               /\ \A x \in Names : T[x] # file[g].node
    <3>1. \A x \in Names : T[x] # file[g].node
      BY <1>3, <2>1 DEF Own
    <3>2. file[g].node \in Nodes
      BY <1>4, <2>1, LabelsDiffer DEF FileOK
    <3> QED BY <1>5, <1>6, <3>1, <3>2, FileNodeAssumption
  <2> QED BY <1>2, <1>3, <1>4, <1>5, <1>14, <2>1, OwnMoves
<1>23. Named(L, G)
  <2>1. N[r.node].name[2] = r.name[2]
    BY <1>1, <1>3, <1>5, <1>6, <1>8 DEF Named
  <2>2. r.pc # "new"
    BY <1>5 DEF Ended
  <2> QED BY <1>1, <1>2, <1>3, <1>4, <1>5, <1>6, <1>14, <2>1, <2>2, NamedStays
<1>24. PICK M : /\ Dereference([node |-> L, table |-> T], n) = [node |-> M, table |-> T]
                /\ Acc(M, T, G, Owe(n, 1 - 1)) /\ Own(M, T, G) /\ Named(M, G)
                /\ Rest(L, M, T, G)
  BY <1>5, <1>17, <1>21, <1>22, <1>23, Pay
<1>25. Acc(M, T, G, Nothing)
  BY <1>24, OweNothing
<1>26. Carried(N, M, T, G, k, N[k].open + 1)
  BY <1>12, <1>14, <1>24 DEF Carried, Rest, Same, Alike
<1> QED BY <1>2, <1>7, <1>8, <1>9, <1>11, <1>24, <1>25, <1>26 DEF Whole

-----------------------------------------------------------------------------
(* The start of a Create: a new node, and the main file of a stream.       *)
LEMMA MinIs ==
  ASSUME NEW S, S \subseteq Nat, S # {}
  PROVE  Min(S) \in S
<1>1. PICK R : R = OpToRel(<, Nat)
  OBVIOUS
<1>2. IsWellFoundedOn(R, Nat)
  BY <1>1, NatLessThanWellFounded, Zenon
<1>3. \A x, y \in Nat : <<y, x>> \in R <=> y < x
  BY <1>1 DEF OpToRel
<1>4. \E x \in S : \A y \in S : ~ (<<y, x>> \in R)
  BY <1>2, WFMin
<1>5. PICK x \in S : \A y \in S : ~ (<<y, x>> \in R)
  BY <1>4
<1>6. \A y \in S : x =< y
  <2> SUFFICES ASSUME NEW y \in S PROVE x =< y
    OBVIOUS
  <2>1. x \in Nat /\ y \in Nat /\ ~(y < x)
    BY <1>3, <1>5
  <2> QED BY <2>1
<1> QED BY <1>6 DEF Min

LEMMA LinkedIs ==
  ASSUME NEW N, N \in [Nodes -> NodeType], NEW n \in Nodes, NEW k \in Nodes, n # k
  PROVE  /\ Linked(N, n, k) \in [Nodes -> NodeType]
         /\ \A T : [Reference([node |-> N, table |-> T], k).node EXCEPT ![n].main = k]
                   = Linked(N, n, k)
         /\ \A j \in Nodes :
              LET p == Linked(N, n, k)[j]
                  q == N[j]
              IN /\ p.name = q.name /\ p.active = q.active /\ p.open = q.open
                 /\ p.handles = q.handles /\ p.share = q.share
                 /\ p.pending = q.pending /\ p.posix = q.posix
                 /\ p.denyDelete = q.denyDelete /\ p.denyStream = q.denyStream
                 /\ p.refs = q.refs + (IF j = k THEN 1 ELSE 0)
                 /\ p.main = IF j = n THEN k ELSE q.main
                 /\ j # n /\ j # k => p = q
<1>1. PICK M : M = Linked(N, n, k)
  OBVIOUS
<1>2. PICK a, b, refs : a = N[n] /\ b = N[k] /\ refs = b.refs + 1
  OBVIOUS
<1>3. a \in NodeType /\ b \in NodeType /\ b.refs \in Int /\ refs \in Int /\ a.refs \in Int
  BY <1>2 DEF NodeType
<1>4. PICK c, d : c = [a EXCEPT !.main = k] /\ d = [b EXCEPT !.refs = refs]
  OBVIOUS
<1>5. c \in NodeType /\ d \in NodeType
  BY <1>3, <1>4 DEF NodeType
<1>6. /\ c.name = a.name /\ c.active = a.active /\ c.open = a.open /\ c.handles = a.handles
      /\ c.share = a.share /\ c.pending = a.pending /\ c.posix = a.posix
      /\ c.denyDelete = a.denyDelete /\ c.denyStream = a.denyStream
      /\ c.refs = a.refs /\ c.main = k
  BY <1>3, <1>4 DEF NodeType
<1>7. /\ d.name = b.name /\ d.active = b.active /\ d.open = b.open /\ d.handles = b.handles
      /\ d.share = b.share /\ d.pending = b.pending /\ d.posix = b.posix
      /\ d.denyDelete = b.denyDelete /\ d.denyStream = b.denyStream
      /\ d.refs = refs /\ d.main = b.main
  BY <1>3, <1>4 DEF NodeType
<1>8. M[n] = c /\ M[k] = d /\ \A j \in Nodes : j # n /\ j # k => M[j] = N[j]
  BY <1>1, <1>2, <1>4 DEF Linked
<1>9. M \in [Nodes -> NodeType]
  <2>1. \A j \in Nodes : M[j] \in NodeType
    BY <1>5, <1>8
  <2> QED BY <1>1, <2>1 DEF Linked
<1>10. ASSUME NEW T
       PROVE  [Reference([node |-> N, table |-> T], k).node EXCEPT ![n].main = k] = M
  <2>1. PICK s : s = [node |-> N, table |-> T]
    OBVIOUS
  <2>2. PICK R : R = [N EXCEPT ![k] = d]
    OBVIOUS
  <2>3. Reference(s, k) = [node |-> R, table |-> T]
    BY <1>2, <1>4, <2>1, <2>2 DEF Reference, NodeType
  <2>4. Reference(s, k).node = R
    BY <2>3
  <2>5. R \in [Nodes -> NodeType] /\ R[n] = a
    BY <1>2, <1>5, <2>2
  <2>6. [R EXCEPT ![n].main = k] = [R EXCEPT ![n] = c]
    BY <1>4, <2>5 DEF NodeType
  <2>7. [R EXCEPT ![n] = c] = M
    <3>1. \A j \in Nodes : [R EXCEPT ![n] = c][j] = M[j]
      BY <1>8, <2>2, <2>5
    <3>2. [R EXCEPT ![n] = c] = [j \in Nodes |-> [R EXCEPT ![n] = c][j]]
      BY <2>5
    <3> QED BY <1>1, <3>1, <3>2 DEF Linked
  <2> QED BY <2>1, <2>4, <2>6, <2>7
<1>11. ASSUME NEW j \in Nodes
       PROVE     /\ M[j].name = N[j].name /\ M[j].active = N[j].active /\ M[j].open = N[j].open
                 /\ M[j].handles = N[j].handles /\ M[j].share = N[j].share
                 /\ M[j].pending = N[j].pending /\ M[j].posix = N[j].posix
                 /\ M[j].denyDelete = N[j].denyDelete /\ M[j].denyStream = N[j].denyStream
                 /\ M[j].refs = N[j].refs + (IF j = k THEN 1 ELSE 0)
                 /\ M[j].main = IF j = n THEN k ELSE N[j].main
                 /\ j # n /\ j # k => M[j] = N[j]
  <2>1. CASE j = n
    BY <1>2, <1>3, <1>6, <1>8, <2>1
  <2>2. CASE j = k
    BY <1>2, <1>3, <1>7, <1>8, <2>2
  <2>3. CASE j # n /\ j # k
    <3>1. M[j] = N[j]
      BY <1>8, <2>3
    <3>2. N[j].refs \in Int
      BY DEF NodeType
    <3> QED BY <2>3, <3>1, <3>2
  <2> QED BY <2>1, <2>2, <2>3
<1> QED BY <1>1, <1>9, <1>10, <1>11

LEMMA LinkKeeps ==
  ASSUME NEW N, NEW T, NEW F, Whole(N, T, F), NEW f \in Files, F[f].pc \in Private,
         NEW n, n = F[f].node, NEW k \in Nodes, N[n].main = None, IsStream(N[n].name),
         N[k].main = None, N[k].refs # 0, \A g \in Files : F[g].pc \in Private => F[g].node # k
  PROVE  Whole(Linked(N, n, k), T, F)
<1>1. PICK M : M = Linked(N, n, k)
  OBVIOUS
<1>2. Acc(N, T, F, Nothing) /\ Own(N, T, F) /\ Named(N, F)
  BY DEF Whole
<1>3. /\ FilesOK(F) /\ F \in [Files -> FileType] /\ \A g \in Files : FileOK(F[g])
      /\ NodesOK(N) /\ N \in [Nodes -> NodeType] /\ One(N, T) /\ Uses(N, F)
      /\ Refs(N, T, F, Nothing) /\ T \in TableType
  BY <1>2 DEF Acc, FilesOK, NodesOK, One
<1>4. n \in Nodes /\ n # k /\ k # None
  BY <1>3, LabelsDiffer, FileNodeAssumption DEF FileOK
<1>5. \A j \in Nodes :
        /\ M[j].name = N[j].name /\ M[j].active = N[j].active /\ M[j].open = N[j].open
        /\ M[j].handles = N[j].handles /\ M[j].share = N[j].share
        /\ M[j].denyDelete = N[j].denyDelete /\ M[j].denyStream = N[j].denyStream
        /\ M[j].refs = N[j].refs + (IF j = k THEN 1 ELSE 0)
        /\ M[j].main = IF j = n THEN k ELSE N[j].main
        /\ j # n /\ j # k => M[j] = N[j]
  BY <1>1, <1>3, <1>4, LinkedIs
<1>6. M \in [Nodes -> NodeType]
  BY <1>1, <1>3, <1>4, LinkedIs
<1>7. /\ \A g \in Files : (g # f => F[g].node # n) /\ F[g].extra # n
      /\ \A x \in Names : T[x] # n
      /\ \A j \in Nodes : N[j].main # n
  BY <1>2 DEF Own
<1>8. Nothing \in [Nodes -> Nat] /\ \A j \in Nodes : Nothing[j] = 0
  BY DEF Nothing
<1>9. N[n].refs # 0
  BY <1>2, <1>4, <1>8, UsedNode
<1>10. One(M, T)
  <2>1. \A x \in Names : T[x] # None => T[x] \in Nodes
    BY <1>3 DEF TableType
  <2> QED BY <1>3, <1>5, <2>1 DEF One
<1>11. NodesOK(M)
  <2>1. ASSUME NEW j \in Nodes
        PROVE  /\ M[j].refs = 0 => M[j] = FreeNode
               /\ M[j].refs # 0 => M[j].name \in Names
    <3>0. N[j].refs \in Nat
      BY <1>3, <1>8, FreeUnheld
    <3>1. CASE j = n
      BY <1>3, <1>4, <1>5, <1>9, <3>0, <3>1 DEF NodesOK
    <3>2. CASE j = k
      BY <1>3, <1>5, <3>0, <3>2 DEF NodesOK
    <3>3. CASE j # n /\ j # k
      BY <1>3, <1>5, <3>3 DEF NodesOK
    <3> QED BY <3>1, <3>2, <3>3
  <2>2. ASSUME NEW j \in Nodes, M[j].main # None
        PROVE  IsStream(M[j].name) /\ M[M[j].main].main = None
    <3>1. CASE j = n
      BY <1>4, <1>5, <3>1
    <3>2. CASE j # n
      <4>1. N[j].main # None /\ M[j].main = N[j].main /\ N[j].main \in Nodes
        BY <1>3, <1>5, <2>2, <3>2 DEF NodeType
      <4>2. IsStream(N[j].name) /\ N[N[j].main].main = None
        BY <1>3, <4>1 DEF NodesOK
      <4>3. N[j].main # n
        BY <1>7
      <4> QED BY <1>5, <4>1, <4>2, <4>3
    <3> QED BY <3>1, <3>2
  <2> QED BY <1>6, <2>1, <2>2 DEF NodesOK
<1>12. Refs(M, T, F, Nothing)
  <2> SUFFICES ASSUME NEW j \in Nodes
               PROVE  M[j].refs = Cardinality(FilesAt(F, j)) + Cardinality(ExtrasAt(F, j))
                        + Cardinality(NamesAt(T, j)) + Cardinality(StreamsAt(M, j)) + Nothing[j]
    BY DEF Refs
  <2>1. N[j].refs = Cardinality(FilesAt(F, j)) + Cardinality(ExtrasAt(F, j))
                      + Cardinality(NamesAt(T, j)) + Cardinality(StreamsAt(N, j)) + Nothing[j]
    BY <1>3 DEF Refs
  <2>2. /\ Cardinality(FilesAt(F, j)) \in Nat /\ Cardinality(ExtrasAt(F, j)) \in Nat
        /\ Cardinality(NamesAt(T, j)) \in Nat /\ Cardinality(StreamsAt(N, j)) \in Nat
    BY HoldersCounted
  <2>3. StreamsAt(N, j) \subseteq Nodes /\ StreamsAt(M, j) \subseteq Nodes
        /\ \A d \in Nodes : d # n => (d \in StreamsAt(N, j) <=> d \in StreamsAt(M, j))
        /\ n \notin StreamsAt(N, j) /\ (n \in StreamsAt(M, j) <=> j = k)
    BY <1>4, <1>5, FileNodeAssumption DEF StreamsAt
  <2>4. Cardinality(StreamsAt(M, j)) = Cardinality(StreamsAt(N, j))
          + Indicator(n \in StreamsAt(M, j)) - Indicator(n \in StreamsAt(N, j))
    <3>1. IsFiniteSet(Nodes)
      BY FileNodeAssumption
    <3> QED BY <2>3, <3>1, CountStep
  <2>5. Cardinality(StreamsAt(M, j)) = Cardinality(StreamsAt(N, j)) + (IF j = k THEN 1 ELSE 0)
    BY <2>2, <2>3, <2>4 DEF Indicator
  <2>6. M[j].refs = N[j].refs + (IF j = k THEN 1 ELSE 0)
    BY <1>5
  <2> QED BY <1>8, <2>1, <2>2, <2>5, <2>6
<1>13. Uses(M, F)
  <2> SUFFICES ASSUME NEW j \in Nodes
               PROVE
      /\ M[j].active = Cardinality(UsersAt(F, j)) + Cardinality(ExtrasAt(F, j))
      /\ M[j].open \in {0, M[j].active}
      /\ M[j].handles = Cardinality(HandlesAt(F, j)) + Cardinality(ExtrasAt(F, j))
      /\ M[j].share = SharersAt(F, j)
      /\ M[j].denyDelete = IF M[j].main = None THEN Cardinality(DeletersAt(F, j)) ELSE 0
      /\ M[j].denyStream = Cardinality(DeniersAt(M, F, j))
    BY DEF Uses
  <2>1. /\ N[j].active = Cardinality(UsersAt(F, j)) + Cardinality(ExtrasAt(F, j))
        /\ N[j].open \in {0, N[j].active}
        /\ N[j].handles = Cardinality(HandlesAt(F, j)) + Cardinality(ExtrasAt(F, j))
        /\ N[j].share = SharersAt(F, j)
        /\ N[j].denyDelete = IF N[j].main = None THEN Cardinality(DeletersAt(F, j)) ELSE 0
        /\ N[j].denyStream = Cardinality(DeniersAt(N, F, j))
    BY <1>3 DEF Uses
  <2>2. \A g \in Files : F[g].node = n => ~Denies(F[g]) /\ F[g].pc \notin HasHandle
    BY <1>7, LabelsDiffer DEF Denies
  <2>3. DeniersAt(M, F, j) = DeniersAt(N, F, j)
    BY <1>5, <2>2 DEF DeniersAt
  <2>4. j = n => DeletersAt(F, j) = {}
    BY <2>2 DEF DeletersAt, HandlesAt
  <2>5. j = n => Cardinality(DeletersAt(F, j)) = 0
    BY <2>4, FS_EmptySet
  <2>6. M[j].denyDelete = IF M[j].main = None THEN Cardinality(DeletersAt(F, j)) ELSE 0
    <3>1. M[j].denyDelete = N[j].denyDelete
      BY <1>5
    <3>2. CASE j = n
      BY <1>4, <1>5, <2>1, <2>5, <3>1, <3>2
    <3>3. CASE j # n
      BY <1>5, <2>1, <3>1, <3>3
    <3> QED BY <3>2, <3>3
  <2>7. /\ M[j].active = N[j].active /\ M[j].open = N[j].open /\ M[j].handles = N[j].handles
        /\ M[j].share = N[j].share /\ M[j].denyStream = N[j].denyStream
    BY <1>5
  <2> QED BY <2>1, <2>3, <2>6, <2>7
<1>14. Own(M, T, F)
  <2> SUFFICES ASSUME NEW g \in Files, F[g].pc \in Private
               PROVE  LET d == F[g].node
                      IN /\ \A h \in Files : (h # g => F[h].node # d) /\ F[h].extra # d
                         /\ \A x \in Names : T[x] # d
                         /\ \A j \in Nodes : M[j].main # d
    BY DEF Own
  <2>1. PICK d : d = F[g].node
    OBVIOUS
  <2>2. /\ \A h \in Files : (h # g => F[h].node # d) /\ F[h].extra # d
        /\ \A x \in Names : T[x] # d
        /\ \A j \in Nodes : N[j].main # d
    BY <1>2, <2>1 DEF Own
  <2>3. d # k
    BY <2>1
  <2> QED BY <1>5, <2>1, <2>2, <2>3
<1>15. Named(M, F)
  <2>1. \A j \in Nodes : M[j].name = N[j].name
    BY <1>5
  <2> QED BY <1>2, <2>1 DEF Named
<1> QED BY <1>1, <1>3, <1>10, <1>11, <1>12, <1>13, <1>14, <1>15 DEF Acc, Whole

-----------------------------------------------------------------------------
LEMMA CreateKeeps ==
  ASSUME NEW N, NEW T, NEW F, Whole(N, T, F), NEW f \in Files, F[f].pc = "new",
         NEW r, r \in FileType, FileOK(r), NEW n \in Nodes, N[n].refs = 0,
         r.pc \in {"create", "main"}, r.node = n,
         r.pc = "main" => /\ F[r.main].pc # "new" /\ r.main # f
                          /\ (F[r.main].pc # "done" => F[r.main].name[2] = NoStream)
  PROVE  Whole([N EXCEPT ![n] = Created(r.name)], T, At1(F, f, r))
<1>1. PICK q, G : q = F[f] /\ G = At1(F, f, r)
  OBVIOUS
<1>2. PICK p : p = Created(r.name)
  OBVIOUS
<1>3. PICK M : M = [N EXCEPT ![n] = p]
  OBVIOUS
<1>4. Acc(N, T, F, Nothing) /\ Own(N, T, F) /\ Named(N, F)
  BY DEF Whole
<1>5. /\ FilesOK(F) /\ F \in [Files -> FileType] /\ \A g \in Files : FileOK(F[g])
      /\ NodesOK(N) /\ N \in [Nodes -> NodeType] /\ One(N, T) /\ Uses(N, F)
      /\ Refs(N, T, F, Nothing) /\ T \in TableType
  BY <1>4 DEF Acc, FilesOK, NodesOK, One
<1>6. /\ r.pc \in Private /\ r.pc \notin HasHandle /\ r.pc \notin UserPC /\ r.pc \notin Ended
      /\ r.pc \notin Refusing /\ r.pc # "new" /\ r.pc # "done" /\ r.pc # "rename"
  BY DEF Private, HasHandle, UserPC, Ended, Refusing
<1>7. r.name \in Names /\ r.extra = None
  BY <1>6 DEF FileOK
<1>8. /\ q.pc \in Ended /\ q.pc \notin Private /\ q.pc \notin HasHandle /\ q.pc \notin UserPC
      /\ q.pc \notin Refusing
  BY <1>1 DEF Ended, Private, HasHandle, UserPC, Refusing
<1>9. q.node = None /\ q.extra = None
  BY <1>1, <1>5, <1>8 DEF FileOK
<1>10. /\ p \in NodeType /\ p.name = r.name /\ p.refs = 1 /\ p.main = None
       /\ p.active = 0 /\ p.open = 0 /\ p.handles = 0 /\ p.denyDelete = 0 /\ p.denyStream = 0
       /\ p.share = {}
  <2>1. FreeNode \in NodeType /\ r.name \in Names \cup {None} /\ 1 \in Int
    BY <1>7, FreeNodeIs
  <2>2. p \in NodeType
    BY <1>2, <2>1 DEF Created, NodeType
  <2> QED BY <1>2, <2>2 DEF Created, FreeNode
<1>11. N[n] = FreeNode
  BY <1>5 DEF NodesOK
<1>12. M \in [Nodes -> NodeType] /\ M[n] = p /\ \A k \in Nodes : k # n => M[k] = N[k]
  BY <1>3, <1>5, <1>10
<1>13. Nothing \in [Nodes -> Nat] /\ \A k \in Nodes : Nothing[k] = 0
  BY DEF Nothing
<1>14. Unheld(N, T, F, n)
  BY <1>5, <1>13, FreeUnheld
<1>15. G[f] = r /\ \A g \in Files : g # f => G[g] = F[g]
  BY <1>1, <1>5, At1Is
<1>16. FilesOK(G)
  <2>1. G \in [Files -> FileType]
    BY <1>1, <1>5 DEF At1
  <2> QED BY <1>5, <1>15, <2>1 DEF FilesOK
<1>17. \A k \in Nodes : M[k].main = N[k].main /\ M[k].open = N[k].open
  BY <1>10, <1>11, <1>12, FreeNodeIs
<1>18. One(M, T)
  <2>1. \A x \in Names : T[x] # None => T[x] \in Nodes /\ T[x] # n
    BY <1>5, <1>14 DEF TableType, Unheld, NamesAt
  <2>2. \A k \in Nodes : M[k].open > 0 => k # n
    BY <1>10, <1>12
  <2> QED BY <1>5, <1>12, <2>1, <2>2 DEF One
<1>19. NodesOK(M)
  <2>1. \A k \in Nodes : N[k].main # n
    BY <1>14 DEF Unheld, StreamsAt
  <2>2. \A k \in Nodes : N[k].main # None => N[k].main \in Nodes
    BY <1>5 DEF NodeType
  <2> QED BY <1>5, <1>7, <1>10, <1>12, <2>1, <2>2 DEF NodesOK
<1>20. \A k \in Nodes : StreamsAt(M, k) = StreamsAt(N, k)
  BY <1>17 DEF StreamsAt
<1>21. \A k \in Nodes : DeniersAt(M, F, k) = DeniersAt(N, F, k)
  BY <1>17 DEF DeniersAt
<1>22. ASSUME NEW k \in Nodes
       PROVE  /\ Cardinality(FilesAt(G, k)) = Cardinality(FilesAt(F, k)) + (IF k = n THEN 1 ELSE 0)
              /\ Cardinality(ExtrasAt(G, k)) = Cardinality(ExtrasAt(F, k))
              /\ Cardinality(HandlesAt(G, k)) = Cardinality(HandlesAt(F, k))
              /\ Cardinality(UsersAt(G, k)) = Cardinality(UsersAt(F, k))
              /\ Cardinality(DeletersAt(G, k)) = Cardinality(DeletersAt(F, k))
              /\ SharersAt(G, k) = SharersAt(F, k)
              /\ Cardinality(DeniersAt(M, G, k)) = Cardinality(DeniersAt(N, F, k))
  <2>1. k # None
    BY FileNodeAssumption
  <2>2. NodeGain(q, r, k) = (IF k = n THEN 1 ELSE 0) /\ ExtraGain(q, r, k) = 0
    BY <1>7, <1>9, <2>1 DEF NodeGain, ExtraGain, Indicator
  <2>3. HandleGain(q, r, k) = 0 /\ UserGain(q, r, k) = 0
    BY <1>6, <1>8 DEF HandleGain, UserGain, Indicator
  <2>4. DeleterGain(q, r, k) = 0
    BY <1>6, <1>8 DEF DeleterGain, Indicator
  <2>5. DenierGain(M, q, r, k) = 0
    BY <1>6, <1>8 DEF DenierGain, DeniesTo, Denies, Indicator
  <2>6. /\ Cardinality(FilesAt(F, k)) \in Nat /\ Cardinality(ExtrasAt(F, k)) \in Nat
        /\ Cardinality(HandlesAt(F, k)) \in Nat /\ Cardinality(UsersAt(F, k)) \in Nat
        /\ Cardinality(DeletersAt(F, k)) \in Nat /\ Cardinality(DeniersAt(M, F, k)) \in Nat
    BY HoldersCounted, UsersCounted
  <2>7. /\ Cardinality(FilesAt(G, k)) = Cardinality(FilesAt(F, k)) + NodeGain(q, r, k)
        /\ Cardinality(ExtrasAt(G, k)) = Cardinality(ExtrasAt(F, k)) + ExtraGain(q, r, k)
        /\ Cardinality(HandlesAt(G, k)) = Cardinality(HandlesAt(F, k)) + HandleGain(q, r, k)
        /\ Cardinality(UsersAt(G, k)) = Cardinality(UsersAt(F, k)) + UserGain(q, r, k)
        /\ Cardinality(DeletersAt(G, k)) = Cardinality(DeletersAt(F, k)) + DeleterGain(q, r, k)
    BY <1>1, <1>5, FileMoves
  <2>8. Cardinality(DeniersAt(M, G, k)) = Cardinality(DeniersAt(M, F, k)) + DenierGain(M, q, r, k)
    BY <1>1, <1>5, DeniersMove
  <2>9. SharersAt(G, k) = SharersAt(F, k)
    <3>1. f \notin SharersAt(F, k) /\ f \notin SharersAt(G, k)
      BY <1>1, <1>6, <1>8, <1>15 DEF SharersAt, HandlesAt
    <3> QED BY <1>15, <3>1 DEF SharersAt, HandlesAt
  <2>10. Cardinality(DeniersAt(M, G, k)) = Cardinality(DeniersAt(N, F, k))
    BY <1>21, <2>5, <2>6, <2>8
  <2> QED BY <2>2, <2>3, <2>4, <2>6, <2>7, <2>9, <2>10
<1>23. Refs(M, T, G, Nothing)
  <2> SUFFICES ASSUME NEW k \in Nodes
               PROVE  M[k].refs = Cardinality(FilesAt(G, k)) + Cardinality(ExtrasAt(G, k))
                        + Cardinality(NamesAt(T, k)) + Cardinality(StreamsAt(M, k)) + Nothing[k]
    BY DEF Refs
  <2>1. N[k].refs = Cardinality(FilesAt(F, k)) + Cardinality(ExtrasAt(F, k))
                      + Cardinality(NamesAt(T, k)) + Cardinality(StreamsAt(N, k)) + Nothing[k]
    BY <1>5 DEF Refs
  <2>2. /\ Cardinality(FilesAt(F, k)) \in Nat /\ Cardinality(ExtrasAt(F, k)) \in Nat
        /\ Cardinality(NamesAt(T, k)) \in Nat /\ Cardinality(StreamsAt(N, k)) \in Nat
    BY HoldersCounted
  <2>3. M[k].refs = N[k].refs + (IF k = n THEN 1 ELSE 0)
    <3>1. CASE k = n
      BY <1>10, <1>12, <3>1
    <3>2. CASE k # n
      <4>1. N[k].refs \in Int
        BY <1>5 DEF NodeType
      <4> QED BY <1>12, <3>2, <4>1
    <3> QED BY <3>1, <3>2
  <2> QED BY <1>13, <1>20, <1>22, <2>1, <2>2, <2>3
<1>24. Uses(M, G)
  <2> SUFFICES ASSUME NEW k \in Nodes
               PROVE
      /\ M[k].active = Cardinality(UsersAt(G, k)) + Cardinality(ExtrasAt(G, k))
      /\ M[k].open \in {0, M[k].active}
      /\ M[k].handles = Cardinality(HandlesAt(G, k)) + Cardinality(ExtrasAt(G, k))
      /\ M[k].share = SharersAt(G, k)
      /\ M[k].denyDelete = IF M[k].main = None THEN Cardinality(DeletersAt(G, k)) ELSE 0
      /\ M[k].denyStream = Cardinality(DeniersAt(M, G, k))
    BY DEF Uses
  <2>1. /\ N[k].active = Cardinality(UsersAt(F, k)) + Cardinality(ExtrasAt(F, k))
        /\ N[k].open \in {0, N[k].active}
        /\ N[k].handles = Cardinality(HandlesAt(F, k)) + Cardinality(ExtrasAt(F, k))
        /\ N[k].share = SharersAt(F, k)
        /\ N[k].denyDelete = IF N[k].main = None THEN Cardinality(DeletersAt(F, k)) ELSE 0
        /\ N[k].denyStream = Cardinality(DeniersAt(N, F, k))
    BY <1>5 DEF Uses
  <2>2. /\ M[k].active = N[k].active /\ M[k].open = N[k].open /\ M[k].handles = N[k].handles
        /\ M[k].share = N[k].share /\ M[k].denyDelete = N[k].denyDelete
        /\ M[k].denyStream = N[k].denyStream /\ M[k].main = N[k].main
    BY <1>10, <1>11, <1>12, FreeNodeIs
  <2> QED BY <1>22, <2>1, <2>2
<1>25. Own(M, T, G)
  <2> SUFFICES ASSUME NEW g \in Files, G[g].pc \in Private
               PROVE  LET d == G[g].node
                      IN /\ \A h \in Files : (h # g => G[h].node # d) /\ G[h].extra # d
                         /\ \A x \in Names : T[x] # d
                         /\ \A j \in Nodes : M[j].main # d
    BY DEF Own
  <2>1. PICK d : d = G[g].node
    OBVIOUS
  <2>2. CASE g = f
    <3>1. d = n
      BY <1>15, <2>1, <2>2
    <3>2. \A h \in Files : h # f => F[h].node # n /\ F[h].extra # n
      BY <1>14 DEF Unheld, FilesAt, ExtrasAt
    <3>3. G[f].extra # n
      BY <1>7, <1>15, FileNodeAssumption
    <3>4. \A x \in Names : T[x] # n
      BY <1>14 DEF Unheld, NamesAt
    <3>5. \A j \in Nodes : M[j].main # n
      BY <1>14, <1>17 DEF Unheld, StreamsAt
    <3> QED BY <1>15, <2>1, <2>2, <3>1, <3>2, <3>3, <3>4, <3>5
  <2>3. CASE g # f
    <3>1. F[g].pc \in Private /\ F[g].node = d
      BY <1>15, <2>1, <2>3
    <3>2. /\ \A h \in Files : (h # g => F[h].node # d) /\ F[h].extra # d
          /\ \A x \in Names : T[x] # d
          /\ \A j \in Nodes : N[j].main # d
      BY <1>4, <3>1 DEF Own
    <3>3. d # n /\ d # None
      <4>1. d # n
        BY <1>14, <3>1 DEF Unheld, FilesAt
      <4> QED BY <1>5, <3>1, <4>1, LabelsDiffer, FileNodeAssumption DEF FileOK
    <3>4. \A h \in Files : (h # g => G[h].node # d) /\ G[h].extra # d
      BY <1>7, <1>15, <3>2, <3>3
    <3> QED BY <1>17, <2>1, <3>2, <3>4
  <2> QED BY <2>2, <2>3
<1>26. Named(M, G)
  <2> SUFFICES ASSUME NEW g \in Files
        PROVE  /\ G[g].node \in Nodes => M[G[g].node].name[2] = G[g].name[2]
               /\ G[g].pc = "main" =>
                    LET h == G[g].main
                    IN G[h].pc # "new" /\ (G[h].pc # "done" => G[h].name[2] = NoStream)
               /\ G[g].pc = "rename" =>
                    /\ G[g].to \in FileNames
                    /\ G[g].node \in Nodes => G[g].to # M[G[g].node].name[1]
                    /\ \A h \in Files : G[h].pc = "rename" => h = g
    BY DEF Named
  <2>1. g # f => G[g].node # n
    BY <1>14, <1>15 DEF Unheld, FilesAt
  <2>2. G[g].node \in Nodes => M[G[g].node].name[2] = G[g].name[2]
    <3>1. CASE g = f
      BY <1>10, <1>12, <1>15, <3>1
    <3>2. CASE g # f
      BY <1>4, <1>12, <1>15, <2>1, <3>2 DEF Named
    <3> QED BY <3>1, <3>2
  <2>3. ASSUME G[g].pc = "main"
        PROVE  LET h == G[g].main
               IN G[h].pc # "new" /\ (G[h].pc # "done" => G[h].name[2] = NoStream)
    <3>1. PICK h : h = G[g].main
      OBVIOUS
    <3>2. h \in Files
      BY <1>16, <2>3, <3>1 DEF FilesOK, FileOK
    <3>3. h # f /\ F[h].pc # "new" /\ (F[h].pc # "done" => F[h].name[2] = NoStream)
      <4>1. CASE g = f
        BY <1>15, <2>3, <3>1, <4>1
      <4>2. CASE g # f
        <5>1. F[g].pc = "main" /\ F[g].main = h
          BY <1>15, <2>3, <3>1, <4>2
        <5>2. F[h].pc # "new" /\ (F[h].pc # "done" => F[h].name[2] = NoStream)
          BY <1>4, <5>1 DEF Named
        <5> QED BY <5>2
      <4> QED BY <4>1, <4>2
    <3> QED BY <1>15, <3>1, <3>2, <3>3
  <2>4. ASSUME G[g].pc = "rename"
        PROVE  /\ G[g].to \in FileNames
               /\ G[g].node \in Nodes => G[g].to # M[G[g].node].name[1]
               /\ \A h \in Files : G[h].pc = "rename" => h = g
    <3>1. g # f /\ G[g] = F[g]
      BY <1>6, <1>15, <2>4
    <3>2. /\ F[g].to \in FileNames
          /\ F[g].node \in Nodes => F[g].to # N[F[g].node].name[1]
          /\ \A h \in Files : F[h].pc = "rename" => h = g
      BY <1>4, <2>4, <3>1 DEF Named
    <3>3. \A h \in Files : G[h].pc = "rename" => h = g
      BY <1>6, <1>15, <3>2
    <3> QED BY <1>12, <2>1, <3>1, <3>2, <3>3
  <2> QED BY <2>2, <2>3, <2>4
<1> QED BY <1>1, <1>2, <1>3, <1>16, <1>18, <1>19, <1>23, <1>24, <1>25, <1>26 DEF Acc, Whole

-----------------------------------------------------------------------------
(* FspFileNodeRename: the nodes of the file and of its streams move.       *)
LEMMA ShiftedIs ==
  ASSUME NEW N, NodesOK(N), NEW T, One(N, T), NEW from \in FileNames, NEW to \in FileNames,
         from # to
  PROVE  /\ Shifted(N, T, from, to) \in [Nodes -> NodeType]
         /\ \A k \in Nodes :
              LET p == Shifted(N, T, from, to)[k]
                  q == N[k]
              IN /\ p.main = q.main /\ p.refs = q.refs /\ p.active = q.active /\ p.open = q.open
                 /\ p.handles = q.handles /\ p.share = q.share
                 /\ p.pending = q.pending /\ p.posix = q.posix
                 /\ p.denyDelete = q.denyDelete /\ p.denyStream = q.denyStream
                 /\ k \notin Shifting(T, from) => p = q
                 /\ k \in Shifting(T, from) =>
                      /\ q.name \in Names /\ q.name[1] = from /\ T[q.name] = k /\ q.open > 0
                      /\ q.name[2] \in Streaming(T, from)
                      /\ p.name = <<to, q.name[2]>> /\ p.name \in Names
<1>1. PICK M : M = Shifted(N, T, from, to)
  OBVIOUS
<1>2. N \in [Nodes -> NodeType] /\ T \in TableType
  BY DEF NodesOK, One
<1>3. ASSUME NEW k \in Nodes
      PROVE   /\ M[k] \in NodeType
              /\ M[k].main = N[k].main /\ M[k].refs = N[k].refs /\ M[k].active = N[k].active
              /\ M[k].open = N[k].open /\ M[k].handles = N[k].handles /\ M[k].share = N[k].share
              /\ M[k].pending = N[k].pending /\ M[k].posix = N[k].posix
              /\ M[k].denyDelete = N[k].denyDelete /\ M[k].denyStream = N[k].denyStream
              /\ k \notin Shifting(T, from) => M[k] = N[k]
              /\ k \in Shifting(T, from) =>
                   /\ N[k].name \in Names /\ N[k].name[1] = from /\ T[N[k].name] = k
                   /\ N[k].open > 0
                   /\ N[k].name[2] \in Streaming(T, from)
                   /\ M[k].name = <<to, N[k].name[2]>> /\ M[k].name \in Names
  <2>1. PICK q : q = N[k]
    OBVIOUS
  <2>2. q \in NodeType
    BY <1>2, <2>1
  <2>3. CASE k \notin Shifting(T, from)
    BY <1>1, <2>1, <2>2, <2>3 DEF Shifted
  <2>4. CASE k \in Shifting(T, from)
    <3>1. PICK x \in Streaming(T, from) : k = T[<<from, x>>]
      BY <2>4 DEF Shifting
    <3>2. PICK y : y = <<from, x>>
      OBVIOUS
    <3>3. y \in Names /\ y[1] = from /\ y[2] = x /\ T[y] # None /\ k = T[y]
      BY <3>1, <3>2 DEF Streaming, Names
    <3>4. q.name = y /\ q.open > 0
      BY <2>1, <3>3 DEF One
    <3>5. PICK name : name = <<to, x>>
      OBVIOUS
    <3>6. name \in Names
      BY <3>1, <3>5 DEF Streaming, Names
    <3>7. PICK p : p = [q EXCEPT !.name = name]
      OBVIOUS
    <3>8. M[k] = p
      BY <1>1, <2>1, <2>2, <2>4, <3>3, <3>4, <3>5, <3>7 DEF Shifted, NodeType
    <3>9. p \in NodeType
      BY <2>2, <3>6, <3>7 DEF NodeType
    <3>10. /\ p.main = q.main /\ p.refs = q.refs /\ p.active = q.active
           /\ p.open = q.open /\ p.handles = q.handles /\ p.share = q.share
           /\ p.pending = q.pending /\ p.posix = q.posix
           /\ p.denyDelete = q.denyDelete /\ p.denyStream = q.denyStream
           /\ p.name = name
      BY <2>2, <3>7 DEF NodeType
    <3> QED BY <2>1, <2>4, <3>1, <3>3, <3>4, <3>5, <3>6, <3>8, <3>9, <3>10
  <2> QED BY <2>3, <2>4
<1>4. M \in [Nodes -> NodeType]
  BY <1>1, <1>3 DEF Shifted
<1> QED BY <1>1, <1>3, <1>4

LEMMA ShiftKeeps ==
  ASSUME NEW N, NEW T, NEW F, Whole(N, T, F), NEW from \in FileNames, NEW to \in FileNames,
         from # to, \A x \in Streaming(T, from) : T[<<to, x>>] = None,
         \A g \in Files : F[g].pc # "rename"
  PROVE  Whole(Shifted(N, T, from, to), TableShifted(T, from, to, Streaming(T, from)), F)
<1>1. PICK M, U, moving : /\ M = Shifted(N, T, from, to) /\ moving = Streaming(T, from)
                          /\ U = TableShifted(T, from, to, moving)
  OBVIOUS
<1>2. Acc(N, T, F, Nothing) /\ Own(N, T, F) /\ Named(N, F)
  BY DEF Whole
<1>3. /\ FilesOK(F) /\ F \in [Files -> FileType] /\ \A g \in Files : FileOK(F[g])
      /\ NodesOK(N) /\ N \in [Nodes -> NodeType] /\ One(N, T) /\ Uses(N, F)
      /\ Refs(N, T, F, Nothing) /\ T \in TableType
  BY <1>2 DEF Acc, FilesOK, NodesOK, One
<1>4. PICK S : S = Shifting(T, from)
  OBVIOUS
<1>5. M \in [Nodes -> NodeType]
  BY <1>1, <1>3, ShiftedIs
<1>6. \A k \in Nodes :
        /\ M[k].main = N[k].main /\ M[k].refs = N[k].refs /\ M[k].active = N[k].active
        /\ M[k].open = N[k].open /\ M[k].handles = N[k].handles /\ M[k].share = N[k].share
        /\ M[k].denyDelete = N[k].denyDelete /\ M[k].denyStream = N[k].denyStream
        /\ k \notin S => M[k] = N[k]
        /\ k \in S =>
             /\ N[k].name \in Names /\ N[k].name[1] = from /\ T[N[k].name] = k
             /\ N[k].open > 0 /\ N[k].name[2] \in moving
             /\ M[k].name = <<to, N[k].name[2]>> /\ M[k].name \in Names
  BY <1>1, <1>3, <1>4, ShiftedIs
<1>7. \A y \in Names :
        /\ y[1] = from /\ y[2] \in moving => U[y] = None
        /\ y[1] = to /\ y[2] \in moving => U[y] = T[<<from, y[2]>>]
        /\ ~(y[1] \in {from, to} /\ y[2] \in moving) => U[y] = T[y]
  BY <1>1 DEF TableShifted
<1>8. \A x \in moving : /\ x \in Streams \cup {NoStream} /\ <<from, x>> \in Names
                        /\ <<to, x>> \in Names /\ T[<<to, x>>] = None
                        /\ T[<<from, x>>] \in Nodes /\ T[<<from, x>>] \in S
                        /\ N[T[<<from, x>>]].name = <<from, x>>
  <2> SUFFICES ASSUME NEW x \in moving
               PROVE  /\ x \in Streams \cup {NoStream} /\ <<from, x>> \in Names
                      /\ <<to, x>> \in Names /\ T[<<to, x>>] = None
                      /\ T[<<from, x>>] \in Nodes /\ T[<<from, x>>] \in S
                      /\ N[T[<<from, x>>]].name = <<from, x>>
    OBVIOUS
  <2>1. x \in Streams \cup {NoStream} /\ T[<<from, x>>] # None /\ T[<<to, x>>] = None
    BY <1>1 DEF Streaming
  <2>2. <<from, x>> \in Names /\ <<to, x>> \in Names
    BY <2>1 DEF Names
  <2>3. T[<<from, x>>] \in Nodes
    BY <1>3, <2>1, <2>2 DEF TableType
  <2>4. T[<<from, x>>] \in S
    BY <1>1, <1>4 DEF Shifting
  <2>5. N[T[<<from, x>>]].name = <<from, x>>
    BY <1>3, <2>1, <2>2 DEF One
  <2> QED BY <2>1, <2>2, <2>3, <2>4, <2>5
<1>9. U \in TableType
  <2>1. ASSUME NEW y \in Names PROVE U[y] \in Nodes \cup {None}
    BY <1>3, <1>7, <1>8 DEF TableType
  <2> QED BY <1>1, <2>1 DEF TableType, TableShifted
<1>10. One(M, U)
  <2>1. ASSUME NEW k \in Nodes, M[k].open > 0 PROVE U[M[k].name] = k
    <3>1. N[k].open > 0 /\ N[k].name \in Names /\ T[N[k].name] = k
      BY <1>2, <1>6, <2>1, OpenIs
    <3>2. CASE k \in S
      <4>1. PICK x : x = N[k].name[2]
        OBVIOUS
      <4>2. x \in moving /\ M[k].name = <<to, x>> /\ N[k].name[1] = from
        BY <1>6, <3>2, <4>1
      <4>3. N[k].name = <<from, x>>
        BY <3>1, <4>1, <4>2 DEF Names
      <4>4. <<to, x>> \in Names /\ <<to, x>>[1] = to /\ <<to, x>>[2] = x
        BY <1>8, <4>2
      <4>5. U[<<to, x>>] = T[<<from, x>>]
        BY <1>7, <4>2, <4>4
      <4> QED BY <3>1, <4>2, <4>3, <4>5
    <3>3. CASE k \notin S
      <4>1. M[k].name = N[k].name
        BY <1>6, <3>3
      <4>2. PICK y : y = N[k].name
        OBVIOUS
      <4>3. y \in Names /\ T[y] = k /\ y = <<y[1], y[2]>>
        BY <3>1, <4>2 DEF Names
      <4>4. ~(y[1] = from /\ y[2] \in moving)
        BY <1>8, <3>3, <4>3
      <4>5. ~(y[1] = to /\ y[2] \in moving)
        BY <1>8, <4>3, FileNodeAssumption
      <4> QED BY <1>7, <4>1, <4>2, <4>3, <4>4, <4>5
    <3> QED BY <3>2, <3>3
  <2>2. ASSUME NEW y \in Names, U[y] # None PROVE M[U[y]].name = y /\ M[U[y]].open > 0
    <3>0. y = <<y[1], y[2]>>
      BY DEF Names
    <3>1. CASE y[1] = to /\ y[2] \in moving
      <4>1. PICK x, k : x = y[2] /\ k = T[<<from, x>>]
        OBVIOUS
      <4>2. U[y] = k /\ k \in Nodes /\ k \in S /\ N[k].name = <<from, x>>
        BY <1>7, <1>8, <3>1, <4>1
      <4>3. M[k].name = <<to, N[k].name[2]>> /\ M[k].open > 0
        BY <1>6, <4>2
      <4>4. N[k].name[2] = x
        BY <4>2
      <4> QED BY <3>0, <3>1, <4>1, <4>2, <4>3, <4>4
    <3>2. CASE ~(y[1] = to /\ y[2] \in moving)
      <4>1. ~(y[1] = from /\ y[2] \in moving)
        BY <1>7, <2>2
      <4>2. U[y] = T[y]
        BY <1>7, <3>2, <4>1
      <4>3. T[y] \in Nodes /\ N[T[y]].name = y /\ N[T[y]].open > 0
        BY <1>3, <2>2, <4>2 DEF One, TableType
      <4>4. T[y] \notin S
        <5>1. T[y] \in S => y[1] = from /\ y[2] \in moving
          BY <1>6, <4>3
        <5> QED BY <4>1, <5>1
      <4> QED BY <1>6, <4>2, <4>3, <4>4
    <3> QED BY <3>1, <3>2
  <2> QED BY <1>9, <2>1, <2>2 DEF One
<1>11. \A k \in Nodes : M[k].name = N[k].name
                        \/ (k \in S /\ M[k].name[2] = N[k].name[2] /\ M[k].name \in Names)
  <2>1. \A k \in Nodes : <<to, N[k].name[2]>>[2] = N[k].name[2]
    OBVIOUS
  <2> QED BY <1>6, <2>1
<1>12. NodesOK(M)
  <2>1. \A k \in Nodes : N[k].main # None => N[k].main \in Nodes
    BY <1>3 DEF NodeType
  <2>2. ASSUME NEW k \in Nodes
        PROVE  /\ M[k].refs = 0 => M[k] = FreeNode
               /\ M[k].refs # 0 => M[k].name \in Names
               /\ M[k].main # None => IsStream(M[k].name) /\ M[M[k].main].main = None
    <3>1. N[k].refs = 0 => k \notin S
      <4>1. N[k].refs = 0 => N[k].open = 0
        BY <1>3, FreeNodeIs DEF NodesOK
      <4> QED BY <1>6, <4>1
    <3>2. IsStream(N[k].name) => IsStream(M[k].name)
      BY <1>11 DEF IsStream
    <3> QED BY <1>3, <1>6, <1>11, <2>1, <3>1, <3>2 DEF NodesOK
  <2> QED BY <1>5, <2>2 DEF NodesOK
<1>13. ASSUME NEW k \in Nodes
       PROVE  Cardinality(NamesAt(U, k)) = Cardinality(NamesAt(T, k))
  <2>0. k # None
    BY FileNodeAssumption
  <2>1. CASE N[k].open > 0
    <3>1. N[k].name \in Names /\ T[N[k].name] = k
      BY <1>2, <2>1, OpenIs
    <3>2. NamesAt(T, k) = {N[k].name}
      BY <1>3, <2>0, <3>1 DEF One, NamesAt
    <3>3. M[k].name \in Names /\ U[M[k].name] = k
      BY <1>6, <1>10, <1>11, <2>1, <3>1 DEF One
    <3>4. NamesAt(U, k) = {M[k].name}
      BY <1>10, <2>0, <3>3 DEF One, NamesAt
    <3> QED BY <3>2, <3>4, FS_Singleton
  <2>2. CASE ~(N[k].open > 0)
    <3>1. NamesAt(T, k) = {}
      BY <1>3, <2>0, <2>2 DEF One, NamesAt
    <3>2. NamesAt(U, k) = {}
      BY <1>6, <1>10, <2>0, <2>2 DEF One, NamesAt
    <3> QED BY <3>1, <3>2
  <2> QED BY <2>1, <2>2
<1>14. Refs(M, U, F, Nothing)
  <2>1. \A k \in Nodes : StreamsAt(M, k) = StreamsAt(N, k)
    BY <1>6 DEF StreamsAt
  <2>2. \A k \in Nodes : M[k].refs = N[k].refs
    BY <1>6
  <2> QED BY <1>3, <1>13, <2>1, <2>2 DEF Refs
<1>15. Uses(M, F)
  <2>1. \A k \in Nodes : DeniersAt(M, F, k) = DeniersAt(N, F, k)
    BY <1>6 DEF DeniersAt
  <2>2. \A k \in Nodes :
        /\ M[k].main = N[k].main /\ M[k].active = N[k].active
        /\ M[k].open = N[k].open /\ M[k].handles = N[k].handles /\ M[k].share = N[k].share
        /\ M[k].denyDelete = N[k].denyDelete /\ M[k].denyStream = N[k].denyStream
    BY <1>6
  <2> QED BY <1>3, <2>1, <2>2 DEF Uses
<1>16. Own(M, U, F)
  <2> SUFFICES ASSUME NEW f \in Files, F[f].pc \in Private
               PROVE  LET n == F[f].node
                      IN /\ \A g \in Files : (g # f => F[g].node # n) /\ F[g].extra # n
                         /\ \A x \in Names : U[x] # n
                         /\ \A k \in Nodes : M[k].main # n
    BY DEF Own
  <2>1. PICK n : n = F[f].node
    OBVIOUS
  <2>2. /\ \A g \in Files : (g # f => F[g].node # n) /\ F[g].extra # n
        /\ \A x \in Names : T[x] # n
        /\ \A k \in Nodes : N[k].main # n
    BY <1>2, <2>1 DEF Own
  <2>3. n # None
    BY <1>3, <2>1, LabelsDiffer, FileNodeAssumption DEF FileOK
  <2>4. ASSUME NEW y \in Names PROVE U[y] # n
    <3>1. CASE y[1] = from /\ y[2] \in moving
      BY <1>7, <2>3, <3>1
    <3>2. CASE y[1] = to /\ y[2] \in moving
      <4>1. PICK x : x = <<from, y[2]>>
        OBVIOUS
      <4>2. x \in Names /\ U[y] = T[x]
        BY <1>7, <1>8, <3>2, <4>1
      <4> QED BY <2>2, <4>2
    <3>3. CASE ~(y[1] \in {from, to} /\ y[2] \in moving)
      <4>1. U[y] = T[y]
        BY <1>7, <3>3
      <4> QED BY <2>2, <4>1
    <3> QED BY <3>1, <3>2, <3>3
  <2>5. \A k \in Nodes : M[k].main # n
    BY <1>6, <2>2
  <2> QED BY <2>1, <2>2, <2>4, <2>5
<1>17. Named(M, F)
  <2>1. \A k \in Nodes : M[k].name[2] = N[k].name[2]
    BY <1>11
  <2> QED BY <1>2, <2>1 DEF Named
<1> QED BY <1>1, <1>3, <1>10, <1>12, <1>14, <1>15, <1>16, <1>17 DEF Acc, Whole

-----------------------------------------------------------------------------
(* FspFileNodeRename as a whole: the nodes that are replaced leave the     *)
(* table, and the others move to their names.                              *)
LEMMA TakingTabled ==
  ASSUME NEW N, NEW T, One(N, T), NEW from \in FileNames, NEW to \in FileNames, from # to
  PROVE  /\ Tabled(N, T, Taking(T, from, to))
         /\ \A d \in Taking(T, from, to) : /\ N[d].name[1] = to /\ N[d].name[1] # from
                                           /\ N[d].name[2] \in Streaming(T, from)
                                           /\ d \notin Shifting(T, from)
         /\ \A x \in Streaming(T, from) :
              <<from, x>> \in Names /\ <<to, x>> \in Names
              /\ (T[<<to, x>>] = None \/ T[<<to, x>>] \in Taking(T, from, to))
         /\ Shifting(T, from) \subseteq Nodes
         /\ \A k \in Shifting(T, from) : N[k].name[1] = from /\ N[k].name[1] # to
<1>0. T \in TableType
  BY DEF One
<1>1. ASSUME NEW x \in Streaming(T, from)
      PROVE  /\ <<from, x>> \in Names /\ <<to, x>> \in Names /\ T[<<from, x>>] \in Nodes
             /\ N[T[<<from, x>>]].name = <<from, x>>
             /\ T[<<to, x>>] # None => /\ T[<<to, x>>] \in Nodes
                                       /\ N[T[<<to, x>>]].name = <<to, x>>
  <2>1. x \in Streams \cup {NoStream} /\ T[<<from, x>>] # None
    BY DEF Streaming
  <2>2. PICK y, z : y = <<from, x>> /\ z = <<to, x>>
    OBVIOUS
  <2>3. y \in Names /\ z \in Names
    BY <2>1, <2>2 DEF Names
  <2>4. T[y] \in Nodes /\ N[T[y]].name = y
    BY <1>0, <2>1, <2>2, <2>3 DEF One, TableType
  <2>5. T[z] # None => T[z] \in Nodes /\ N[T[z]].name = z
    BY <1>0, <2>3 DEF One, TableType
  <2> QED BY <2>2, <2>3, <2>4, <2>5
<1>2. \A k \in Shifting(T, from) : k \in Nodes /\ N[k].name[1] = from /\ N[k].name[1] # to
  <2> SUFFICES ASSUME NEW k \in Shifting(T, from)
               PROVE  k \in Nodes /\ N[k].name[1] = from /\ N[k].name[1] # to
    OBVIOUS
  <2>1. PICK x \in Streaming(T, from) : k = T[<<from, x>>]
    BY DEF Shifting
  <2>2. k \in Nodes /\ N[k].name = <<from, x>>
    BY <1>1, <2>1
  <2>3. N[k].name[1] = from
    BY <2>2
  <2> QED BY <2>2, <2>3
<1>3. \A d \in Taking(T, from, to) :
        /\ d \in Nodes /\ N[d].name \in Names /\ T[N[d].name] = d
        /\ N[d].name[1] = to /\ N[d].name[2] \in Streaming(T, from)
  <2> SUFFICES ASSUME NEW d \in Taking(T, from, to)
               PROVE  /\ d \in Nodes /\ N[d].name \in Names /\ T[N[d].name] = d
                      /\ N[d].name[1] = to /\ N[d].name[2] \in Streaming(T, from)
    OBVIOUS
  <2>1. PICK x \in Streaming(T, from) : d = T[<<to, x>>] /\ d # None
    BY DEF Taking
  <2>2. d \in Nodes /\ N[d].name = <<to, x>> /\ <<to, x>> \in Names
    BY <1>1, <2>1
  <2>3. N[d].name[1] = to /\ N[d].name[2] = x
    BY <2>2
  <2> QED BY <2>1, <2>2, <2>3
<1>4. \A x \in Streaming(T, from) : T[<<to, x>>] = None \/ T[<<to, x>>] \in Taking(T, from, to)
  BY DEF Taking
<1>5. Tabled(N, T, Taking(T, from, to))
  BY <1>3 DEF Tabled
<1>6. \A d \in Taking(T, from, to) : d \notin Shifting(T, from)
  BY <1>2, <1>3
<1> QED BY <1>1, <1>2, <1>3, <1>4, <1>5, <1>6

(* What the replaced nodes leave behind does not matter to the others.     *)
LEMMA TakingAside ==
  ASSUME NEW N, NEW T, One(N, T), NEW from \in FileNames, NEW to \in FileNames, from # to,
         NEW U, U = TableWithout(N, T, Taking(T, from, to))
  PROVE  /\ Streaming(U, from) = Streaming(T, from)
         /\ Shifting(U, from) = Shifting(T, from)
         /\ Vacant(U, from, to)
         /\ TableShifted(U, from, to, Streaming(T, from))
            = TableShifted(T, from, to, Streaming(T, from))
<1>1. PICK D : D = Taking(T, from, to)
  OBVIOUS
<1>2. \A x \in Names : U[x] = IF \E d \in D : N[d].name = x THEN None ELSE T[x]
  BY <1>1 DEF TableWithout
<1>3. \A d \in D : N[d].name[1] = to /\ N[d].name[1] # from
                   /\ N[d].name[2] \in Streaming(T, from)
  BY <1>1, TakingTabled
<1>4. \A y \in Names : y[1] # to => U[y] = T[y]
  BY <1>2, <1>3
<1>5. \A y \in Names : y[2] \notin Streaming(T, from) => U[y] = T[y]
  BY <1>2, <1>3
<1>6. ASSUME NEW x \in Streams \cup {NoStream}
      PROVE  U[<<from, x>>] = T[<<from, x>>]
  <2>1. PICK y : y = <<from, x>>
    OBVIOUS
  <2>2. y \in Names /\ y[1] = from
    BY <2>1 DEF Names
  <2> QED BY <1>4, <2>1, <2>2
<1>7. Streaming(U, from) = Streaming(T, from)
  BY <1>6 DEF Streaming
<1>8. Shifting(U, from) = Shifting(T, from)
  <2>1. \A x \in Streaming(T, from) : U[<<from, x>>] = T[<<from, x>>]
    BY <1>6 DEF Streaming
  <2> QED BY <1>7, <2>1 DEF Shifting
<1>9. ASSUME NEW x \in Streaming(T, from) PROVE U[<<to, x>>] = None
  <2>1. PICK z : z = <<to, x>>
    OBVIOUS
  <2>2. z \in Names /\ (T[z] = None \/ T[z] \in D)
    BY <1>1, <2>1, TakingTabled
  <2>3. T[z] # None => N[T[z]].name = z
    BY <2>2 DEF One
  <2>4. T[z] # None => U[z] = None
    BY <1>2, <2>2, <2>3
  <2>5. T[z] = None => U[z] = None
    BY <1>2, <2>2
  <2> QED BY <2>1, <2>4, <2>5
<1>10. \A x \in Streaming(T, from) : U[<<from, x>>] = T[<<from, x>>]
  BY <1>6 DEF Streaming
<1>11. PICK moving : moving = Streaming(T, from)
  OBVIOUS
<1>12. ASSUME NEW y \in Names
       PROVE  (CASE y[1] = from /\ y[2] \in moving -> None
                 [] y[1] = to /\ y[2] \in moving -> U[<<from, y[2]>>]
                 [] OTHER -> U[y])
              = (CASE y[1] = from /\ y[2] \in moving -> None
                   [] y[1] = to /\ y[2] \in moving -> T[<<from, y[2]>>]
                   [] OTHER -> T[y])
  <2>1. CASE y[1] = from /\ y[2] \in moving
    BY <2>1
  <2>2. CASE y[1] = to /\ y[2] \in moving
    <3>1. U[<<from, y[2]>>] = T[<<from, y[2]>>]
      BY <1>10, <1>11, <2>2
    <3> QED BY <2>2, <3>1
  <2>3. CASE ~(y[1] \in {from, to} /\ y[2] \in moving)
    <3>1. U[y] = T[y]
      BY <1>4, <1>5, <1>11, <2>3
    <3> QED BY <2>3, <3>1
  <2> QED BY <2>1, <2>2, <2>3
<1>13. TableShifted(U, from, to, moving) = TableShifted(T, from, to, moving)
  BY <1>12 DEF TableShifted
<1> QED BY <1>7, <1>8, <1>9, <1>11, <1>13 DEF Vacant

LEMMA RenamedIs ==
  ASSUME NEW F, Whole(node, table, F), NEW from \in FileNames, NEW to \in FileNames, from # to,
         NEW D, D = Taking(table, from, to),
         NEW W, W = Untabled(node, D), NEW V, V = TableWithout(node, table, D)
  PROVE  Renamed(from, to)
         = [node  |-> Shifted(W, V, from, to),
            table |-> TableShifted(V, from, to, Streaming(V, from))]
<1>1. Acc(node, table, F, Nothing) /\ node \in [Nodes -> NodeType] /\ One(node, table)
  BY DEF Whole, Acc, NodesOK
<1>2. PICK N, T, moving, S :
        N = node /\ T = table /\ moving = Streaming(T, from) /\ S = Shifting(T, from)
  OBVIOUS
<1>3. PICK L : L = [d \in Nodes |-> CASE d \in D -> Replaced(d)
                                      [] d \in S -> Moved(d, to)
                                      [] OTHER -> N[d]]
  OBVIOUS
<1>4. PICK U : U = TableShifted(T, from, to, moving)
  OBVIOUS
<1>5. Renamed(from, to) = DereferenceAll([node |-> L, table |-> U], D)
  BY <1>2, <1>3, <1>4
     DEF Renamed, TableShifted, Taking, Streaming, Shifting
<1>6. V = TableWithout(N, T, D) /\ W = Untabled(N, D) /\ D = Taking(T, from, to)
      /\ One(N, T)
  BY <1>1, <1>2
<1>7. Streaming(V, from) = moving /\ Shifting(V, from) = S
      /\ TableShifted(V, from, to, moving) = U
  BY <1>2, <1>4, <1>6, TakingAside
<1>8. Tabled(N, T, D) /\ S \subseteq Nodes
      /\ \A d \in D : d \notin S
  BY <1>2, <1>6, TakingTabled
<1>9. \A d \in D : d \in Nodes /\ N[d].refs # 1 /\ N[d].refs # 0
  <2>1. \A d \in D : d \in Nodes /\ N[d].name \in Names /\ T[N[d].name] = d
    BY <1>8 DEF Tabled
  <2> QED BY <1>1, <1>2, <2>1, TabledUsed
<1>10. PICK Z : Z = Shifted(W, V, from, to)
  OBVIOUS
<1>11. ASSUME NEW d \in Nodes
       PROVE  /\ L[d] \in NodeType /\ L[d].refs = N[d].refs
              /\ d \notin D => L[d] = Z[d]
              /\ d \in D => [L[d] EXCEPT !.refs = @ - 1] = Z[d]
  <2>1. PICK q, zero, refs : q = N[d] /\ zero = 0 /\ refs = q.refs - 1
    OBVIOUS
  <2>2. q \in NodeType /\ zero \in Int /\ refs \in Int
    BY <1>1, <1>2, <2>1 DEF NodeType
  <2>3. CASE d \in D
    <3>1. PICK p : p = [q EXCEPT !.open = zero]
      OBVIOUS
    <3>2. L[d] = p
      <4>1. L[d] = Replaced(d)
        BY <1>3, <1>8, <2>3
      <4> QED BY <1>2, <2>1, <3>1, <4>1 DEF Replaced
    <3>3. p \in NodeType /\ p.refs = q.refs
      BY <2>2, <3>1 DEF NodeType
    <3>4. W[d] = [q EXCEPT !.open = zero, !.refs = refs]
      BY <1>6, <2>1, <2>3 DEF Untabled
    <3>5. Z[d] = W[d]
      BY <1>7, <1>8, <1>10, <2>3 DEF Shifted
    <3>6. [p EXCEPT !.refs = refs] = [q EXCEPT !.open = zero, !.refs = refs]
      BY <2>2, <3>1 DEF NodeType
    <3>7. [p EXCEPT !.refs = @ - 1] = [p EXCEPT !.refs = refs]
      BY <2>1, <3>3
    <3> QED BY <2>1, <2>3, <3>2, <3>3, <3>4, <3>5, <3>6, <3>7
  <2>4. CASE d \notin D /\ d \in S
    <3>0. q.name \in Names
      <4>1. PICK x \in Streaming(T, from) : d = T[<<from, x>>]
        BY <1>2, <2>4 DEF Shifting
      <4>2. PICK y : y = <<from, x>>
        OBVIOUS
      <4>3. x \in Streams \cup {NoStream} /\ T[<<from, x>>] # None
        BY <4>1 DEF Streaming
      <4>4. y \in Names
        BY <4>2, <4>3 DEF Names
      <4> QED BY <1>6, <2>1, <4>1, <4>2, <4>3, <4>4 DEF One
    <3>1. PICK name : name = <<to, q.name[2]>>
      OBVIOUS
    <3>2. name \in Names
      BY <3>0, <3>1 DEF Names
    <3>3. L[d] = [q EXCEPT !.name = name]
      <4>1. L[d] = Moved(d, to)
        BY <1>3, <2>4
      <4>2. Moved(d, to) = [q EXCEPT !.name = <<to, @[2]>>]
        BY <1>2, <2>1 DEF Moved
      <4> QED BY <2>2, <3>1, <4>1, <4>2 DEF NodeType
    <3>4. L[d] \in NodeType /\ L[d].refs = q.refs
      BY <2>2, <3>2, <3>3 DEF NodeType
    <3>5. W[d] = q
      BY <1>6, <2>1, <2>4 DEF Untabled
    <3>6. Z[d] = [q EXCEPT !.name = name]
      <4>1. Z[d] = [q EXCEPT !.name = <<to, @[2]>>]
        BY <1>7, <1>10, <2>4, <3>5 DEF Shifted
      <4> QED BY <2>2, <3>1, <4>1 DEF NodeType
    <3> QED BY <2>1, <2>4, <3>3, <3>4, <3>6
  <2>5. CASE d \notin D /\ d \notin S
    <3>1. L[d] = q
      BY <1>3, <2>1, <2>5
    <3>2. W[d] = q
      BY <1>6, <2>1, <2>5 DEF Untabled
    <3>3. Z[d] = q
      BY <1>7, <1>10, <2>5, <3>2 DEF Shifted
    <3> QED BY <2>1, <2>2, <2>5, <3>1, <3>3
  <2> QED BY <2>3, <2>4, <2>5
<1>12. L \in [Nodes -> NodeType]
  BY <1>3, <1>11
<1>13. D \subseteq Nodes /\ \A d \in D : L[d].refs # 1 /\ L[d].refs # 0
  BY <1>9, <1>11
<1>14. DereferenceAll([node |-> L, table |-> U], D)
       = [node |-> [k \in Nodes |-> IF k \in D THEN [L[k] EXCEPT !.refs = @ - 1] ELSE L[k]],
          table |-> U]
  BY <1>12, <1>13, DereferenceAllIs
<1>15. [k \in Nodes |-> IF k \in D THEN [L[k] EXCEPT !.refs = @ - 1] ELSE L[k]] = Z
  BY <1>10, <1>11 DEF Shifted
<1> QED BY <1>5, <1>7, <1>10, <1>14, <1>15

LEMMA RenamedKeeps ==
  ASSUME NEW F, Whole(node, table, F), NEW from \in FileNames, NEW to \in FileNames, from # to,
         \A g \in Files : F[g].pc # "rename"
  PROVE  \E M, U : /\ Renamed(from, to) = [node |-> M, table |-> U]
                   /\ Whole(M, U, F)
                   /\ \A k \in Nodes : Relocated(node[k], M[k], from, to)
<1>1. PICK N, T : N = node /\ T = table
  OBVIOUS
<1>2. /\ Acc(N, T, F, Nothing) /\ N \in [Nodes -> NodeType] /\ One(N, T) /\ NodesOK(N)
      /\ Whole(N, T, F)
  BY <1>1 DEF Whole, Acc, NodesOK
<1>3. PICK D : D = Taking(T, from, to)
  OBVIOUS
<1>4. PICK W, V : W = Untabled(N, D) /\ V = TableWithout(N, T, D)
  OBVIOUS
<1>5. PICK M, U : /\ M = Shifted(W, V, from, to)
                  /\ U = TableShifted(V, from, to, Streaming(V, from))
  OBVIOUS
<1>6. Renamed(from, to) = [node |-> M, table |-> U]
  BY <1>1, <1>2, <1>3, <1>4, <1>5, RenamedIs
<1>7. Tabled(N, T, D) /\ \A d \in D : N[d].name[1] = to
  BY <1>2, <1>3, TakingTabled
<1>8. Whole(W, V, F)
  BY <1>2, <1>4, <1>7, UntableKeeps
<1>9. /\ Streaming(V, from) = Streaming(T, from) /\ Shifting(V, from) = Shifting(T, from)
      /\ \A x \in Streaming(V, from) : V[<<to, x>>] = None
  <2>1. V = TableWithout(N, T, Taking(T, from, to)) /\ One(N, T)
    BY <1>2, <1>3, <1>4
  <2>2. Streaming(V, from) = Streaming(T, from) /\ Shifting(V, from) = Shifting(T, from)
    BY <2>1, TakingAside
  <2>3. Vacant(V, from, to)
    BY <2>1, TakingAside
  <2> QED BY <2>2, <2>3 DEF Vacant
<1>10. Whole(M, U, F)
  BY <1>5, <1>8, <1>9, ShiftKeeps
<1>11. NodesOK(W) /\ One(W, V)
  BY <1>8 DEF Whole, Acc
<1>12. ASSUME NEW k \in Nodes PROVE Relocated(N[k], M[k], from, to)
  <2>1. PICK q, o, p : q = N[k] /\ o = W[k] /\ p = M[k]
    OBVIOUS
  <2>2. Alike(q, o) /\ (k \notin D => o = q)
    BY <1>2, <1>4, <2>1, UntabledIs
  <2>3. /\ p.main = o.main /\ p.open = o.open /\ p.pending = o.pending
        /\ k \notin Shifting(V, from) => p = o
        /\ k \in Shifting(V, from) => o.name[1] = from /\ o.open > 0 /\ p.name = <<to, o.name[2]>>
    BY <1>5, <1>11, <2>1, ShiftedIs
  <2>4. q.name = o.name /\ p.main = q.main /\ p.pending = q.pending
    BY <2>2, <2>3 DEF Alike
  <2>5. q.name[1] # to => p.open = q.open
    BY <1>7, <2>1, <2>2, <2>3
  <2>6. k \in Shifting(T, from) <=> (q.open > 0 /\ q.name[1] = from)
    <3>1. k \in Shifting(T, from) => k \notin D /\ q.name[1] = from
      BY <1>2, <1>3, <2>1, TakingTabled
    <3>2. k \in Shifting(T, from) => q.open > 0
      BY <1>9, <2>2, <2>3, <3>1
    <3>3. ASSUME q.open > 0, q.name[1] = from PROVE k \in Shifting(T, from)
      <4>1. q.name \in Names /\ T[q.name] = k
        BY <1>2, <2>1, <3>3, OpenIs
      <4>2. PICK x : x = q.name[2]
        OBVIOUS
      <4>3. x \in Streams \cup {NoStream} /\ q.name = <<from, x>>
        BY <3>3, <4>1, <4>2 DEF Names
      <4>4. k # None
        BY FileNodeAssumption
      <4>5. x \in Streaming(T, from)
        BY <4>1, <4>3, <4>4 DEF Streaming
      <4> QED BY <4>1, <4>3, <4>5 DEF Shifting
    <3> QED BY <3>1, <3>2, <3>3
  <2>7. p.name = IF q.open > 0 /\ q.name[1] = from THEN <<to, q.name[2]>> ELSE q.name
    <3>1. CASE k \in Shifting(T, from)
      BY <1>9, <2>3, <2>4, <2>6, <3>1
    <3>2. CASE k \notin Shifting(T, from)
      BY <1>9, <2>3, <2>4, <2>6, <3>2
    <3> QED BY <3>1, <3>2
  <2>8. p.open > 0 => q.open > 0
    <3>1. Untabled(N, D)[k].open = IF k \in D THEN 0 ELSE N[k].open
      BY <1>2, UntabledIs
    <3>2. o.open = IF k \in D THEN 0 ELSE q.open
      BY <1>4, <2>1, <3>1
    <3> QED BY <2>3, <3>2
  <2> QED BY <2>1, <2>4, <2>5, <2>7, <2>8 DEF Relocated
<1> QED BY <1>1, <1>6, <1>10, <1>12

-----------------------------------------------------------------------------
(* What is also true when no delete and no rename has POSIX semantics.     *)
LEMMA PlainMoves ==
  ASSUME NEW N, NEW M, NEW F, FilesOK(F), Plain(N, F), NEW f \in Files, NEW r,
         Undisturbed(N, M, F, f), Fits(M, F, f, r)
  PROVE  Plain(M, At1(F, f, r))
<1>1. PICK G : G = At1(F, f, r)
  OBVIOUS
<1>2. F \in [Files -> FileType] /\ \A g \in Files : FileOK(F[g])
  BY DEF FilesOK
<1>3. G[f] = r /\ \A g \in Files : g # f => G[g] = F[g]
  BY <1>1, <1>2, At1Is
<1>4. HasHandle \cap Ended = {} /\ "cleanup" \notin Ended /\ "main" \notin Ended
      /\ Creating \cap Ended = {}
  BY DEF HasHandle, Ended, Creating
<1>5. \A g \in Files \ {f} : F[g].pc \notin Ended =>
        LET n == F[g].node
        IN /\ M[n].name = N[n].name /\ M[n].main = N[n].main
           /\ F[g].pc \in HasHandle => M[n].open > 0
           /\ Deleting(F[g]) => M[n].pending
  BY DEF Undisturbed, Left
<1>6. Held(M, G)
  BY <1>3, <1>4, <1>5 DEF Held, Plain, Fits, FitsHandle
<1>7. NoPosix(G)
  BY <1>3 DEF NoPosix, Plain, Fits, FitsHandle
<1>8. LastDeletes(M, G)
  <2> SUFFICES ASSUME NEW g \in Files, Deleting(G[g])
               PROVE  /\ M[G[g].node].pending
                      /\ \A h \in Files \ {g} : Off(G[h], G[g].node)
    BY DEF LastDeletes
  <2>1. CASE g = f
    BY <1>3, <2>1 DEF Fits, FitsDelete
  <2>2. CASE g # f
    <3>1. G[g] = F[g] /\ Deleting(F[g]) /\ F[g].pc \notin Ended
      BY <1>3, <1>4, <2>2 DEF Deleting
    <3>2. M[F[g].node].pending
      BY <1>5, <2>2, <3>1
    <3>3. \A h \in Files \ {g} : Off(F[h], F[g].node)
      BY <3>1 DEF Plain, LastDeletes
    <3>4. Off(r, F[g].node)
      BY <2>2, <3>1 DEF Fits, FitsDelete
    <3> QED BY <1>3, <3>1, <3>2, <3>3, <3>4
  <2> QED BY <2>1, <2>2
<1>9. Renaming(M, G)
  <2> SUFFICES ASSUME NEW g \in Files, G[g].pc = "rename", NEW h \in Files
               PROVE  Away(M, G[h], G[g].to)
    BY DEF Renaming
  <2>1. CASE g = f
    BY <1>3, <2>1 DEF Fits, FitsRename
  <2>2. CASE g # f /\ h = f
    BY <1>3, <2>2 DEF Fits, FitsRename
  <2>3. CASE g # f /\ h # f
    <3>1. Away(N, F[h], F[g].to)
      BY <1>3, <2>3 DEF Plain, Renaming
    <3>2. F[h].pc \in HasHandle => M[F[h].node].name = N[F[h].node].name
      BY <1>4, <1>5, <2>3
    <3> QED BY <1>3, <2>3, <3>1, <3>2 DEF Away
  <2> QED BY <2>1, <2>2, <2>3
<1>10. StreamsOK(M, G)
  <2> SUFFICES ASSUME NEW g \in Files, Streamed(G[g])
               PROVE  G[g].main \in Files \ {g} /\ StreamOK(M, G[g], G[G[g].main])
    BY DEF StreamsOK
  <2>1. CASE g = f
    BY <1>3, <2>1 DEF Fits, FitsStream
  <2>2. CASE g # f
    <3>1. PICK q, h : q = F[g] /\ h = q.main
      OBVIOUS
    <3>2. G[g] = q /\ Streamed(q) /\ q.pc \notin Ended
      BY <1>3, <2>2, <3>1 DEF Streamed
    <3>3. h \in Files \ {g} /\ StreamOK(N, q, F[h])
      BY <3>1, <3>2 DEF Plain, StreamsOK
    <3>4. CASE h = f
      BY <1>3, <2>2, <3>1, <3>2, <3>3, <3>4 DEF Fits, FitsStream
    <3>5. CASE h # f
      <4>1. PICK m : m = F[h]
        OBVIOUS
      <4>2. M[q.node].name = N[q.node].name /\ M[q.node].main = N[q.node].main
        BY <1>5, <2>2, <3>1, <3>2
      <4>3. m.pc \notin Ended => M[m.node].name = N[m.node].name
        BY <1>5, <3>3, <3>5, <4>1
      <4>4. "open" \notin Ended
        BY DEF Ended
      <4>5. StreamOK(M, q, m)
        BY <3>3, <4>1, <4>2, <4>3, <4>4 DEF StreamOK, Under
      <4> QED BY <1>3, <3>1, <3>2, <3>3, <3>5, <4>1, <4>5
    <3> QED BY <3>4, <3>5
  <2> QED BY <2>1, <2>2
<1> QED BY <1>1, <1>6, <1>7, <1>8, <1>9, <1>10 DEF Plain

(* What the labels are, for the steps below.                               *)
LEMMA PlainLabels ==
  /\ HasHandle \cap Ended = {} /\ "cleanup" \in HasHandle /\ "cleanup" \notin Ended
  /\ "main" \notin Ended /\ Creating \cap Ended = {} /\ "rename" \in HasHandle
  /\ "done" \notin Creating /\ "done" \notin HasHandle /\ "done" \in Ended
  /\ "open" \in HasHandle /\ "open" \notin Creating /\ "open" \notin Ended
  /\ "rename" \notin Creating /\ "cleanup" \notin Creating /\ "rename" \notin Ended
  /\ "main" \in Creating /\ "main" \notin HasHandle
  /\ "cleaned" \notin Creating /\ "cleaned" \notin HasHandle /\ "cleaned" \notin Ended
BY DEF HasHandle, Ended, Creating

(* File object f is over.                                                  *)
LEMMA PlainEnds ==
  ASSUME NEW N, NEW M, NEW F, FilesOK(F), Plain(N, F), NEW f \in Files, NEW r,
         Undisturbed(N, M, F, f), F[f].pc # "open",
         Gone(r), ~r.posix, ~r.mode.delete
  PROVE  Plain(M, At1(F, f, r))
<1>1. F \in [Files -> FileType] /\ \A g \in Files : FileOK(F[g])
  BY DEF FilesOK
<1>2. r.pc = "done" /\ r.node = None /\ r.extra = None
  BY DEF Gone
<1>3. FitsHandle(M, r)
  BY <1>2, PlainLabels DEF FitsHandle
<1>4. FitsDelete(M, F, f, r)
  <2>1. \A g \in Files : Deleting(F[g]) => F[g].node \in Nodes
    BY <1>1, PlainLabels DEF Deleting, FileOK
  <2>2. \A g \in Files : Deleting(F[g]) => Off(r, F[g].node)
    BY <1>2, <2>1, PlainLabels, FileNodeAssumption DEF Off
  <2> QED BY <1>2, <2>2 DEF FitsDelete, Deleting
<1>5. FitsRename(M, F, f, r)
  BY <1>2, PlainLabels DEF FitsRename, Away
<1>6. FitsStream(M, F, f, r)
  <2>1. ~Streamed(r)
    BY <1>2, PlainLabels DEF Streamed
  <2>2. ASSUME NEW g \in Files \ {f}, Streamed(F[g]), F[g].main = f
        PROVE  StreamOK(M, F[g], r)
    <3>1. PICK q : q = F[g]
      OBVIOUS
    <3>2. StreamOK(N, q, F[f])
      BY <2>2, <3>1 DEF Plain, StreamsOK
    <3>3. M[q.node].main = N[q.node].main
      BY <2>2, <3>1 DEF Undisturbed, Left, Streamed
    <3>4. ~(q.pc \in (Creating \ {"main"}) \cup HasHandle)
      BY <3>2 DEF StreamOK
    <3>5. q.pc = "main" => M[q.node].main = None
      BY <3>2, <3>3 DEF StreamOK
    <3> QED BY <1>2, <3>1, <3>4, <3>5, PlainLabels DEF StreamOK
  <2> QED BY <2>1, <2>2 DEF FitsStream
<1> QED BY <1>3, <1>4, <1>5, <1>6, PlainMoves DEF Fits

LEMMA PlainGoes ==
  ASSUME NEW N, NEW M, NEW F, FilesOK(F), Plain(N, F), NEW f \in Files, NEW r,
         Undisturbed(N, M, F, f), Goes(F[f], r), GoesFrom(N, M, F[f], r),
         Unneeded(F, f, r), FitsDelete(M, F, f, r), StartsRename(M, F, f, r)
  PROVE  Plain(M, At1(F, f, r))
<1>1. PICK q : q = F[f]
  OBVIOUS
<1>2. /\ r.name = q.name /\ r.mode = q.mode /\ r.main = q.main /\ ~r.posix
      /\ q.pc \notin Ended /\ r.pc \notin Ended
      /\ r.pc \in Creating => q.pc \in Creating
      /\ r.pc \in HasHandle => q.pc \in HasHandle \cup Creating
      /\ r.pc = "main" => q.pc = "main"
      /\ r.pc \in (Creating \ {"main"}) \cup HasHandle
           => q.pc \in (Creating \ {"main"}) \cup HasHandle
  BY <1>1 DEF Goes
<1>3. /\ M[r.node].name = N[q.node].name
      /\ r.pc = "main" => M[r.node].main = N[q.node].main
      /\ r.pc \in HasHandle => M[r.node].open > 0
  BY <1>1 DEF GoesFrom
<1>4. FitsHandle(M, r)
  BY <1>2, <1>3 DEF FitsHandle
<1>5. FitsRename(M, F, f, r)
  <2>1. ASSUME NEW g \in Files \ {f}, F[g].pc = "rename"
        PROVE  Away(M, r, F[g].to)
    <3>1. Away(N, q, F[g].to)
      BY <1>1, <2>1 DEF Plain, Renaming
    <3> QED BY <1>2, <1>3, <3>1 DEF Away
  <2> QED BY <2>1 DEF FitsRename, StartsRename
<1>6. Streamed(r) => r.main \in Files \ {f} /\ StreamOK(M, r, F[r.main])
  <2> SUFFICES ASSUME Streamed(r)
               PROVE  r.main \in Files \ {f} /\ StreamOK(M, r, F[r.main])
    OBVIOUS
  <2>1. Streamed(q)
    BY <1>2 DEF Streamed
  <2>2. PICK h, m : h = r.main /\ m = F[h]
    OBVIOUS
  <2>3. h \in Files \ {f} /\ StreamOK(N, q, m)
    BY <1>1, <1>2, <2>1, <2>2 DEF Plain, StreamsOK
  <2>4. m.pc \notin Ended => M[m.node].name = N[m.node].name
    BY <2>2, <2>3 DEF Undisturbed, Left
  <2>5. StreamOK(M, r, m)
    BY <1>2, <1>3, <2>3, <2>4, PlainLabels DEF StreamOK, Under
  <2> QED BY <2>2, <2>3, <2>5
<1>7. ASSUME NEW g \in Files \ {f}, Streamed(F[g]), F[g].main = f
      PROVE  StreamOK(M, F[g], r)
  <2>1. PICK p : p = F[g]
    OBVIOUS
  <2>2. StreamOK(N, p, q)
    BY <1>1, <1>7, <2>1 DEF Plain, StreamsOK
  <2>3. p.pc \notin Ended
    BY <1>7, <2>1 DEF Streamed
  <2>4. M[p.node].main = N[p.node].main /\ M[p.node].name = N[p.node].name
    BY <2>1, <2>3 DEF Undisturbed, Left
  <2>5. r.pc # "new"
    BY <1>2 DEF Ended
  <2>6. q.pc = "open" /\ r.pc # "open" => p.pc \in {"cleaned", "done"}
    BY <1>1, <1>7, <2>1, <2>2 DEF Unneeded, StreamOK
  <2>7. p.pc \in (Creating \ {"main"}) \cup HasHandle => r.pc = "open"
    BY <2>2, <2>6, PlainLabels DEF StreamOK
  <2>8. q.pc \notin Ended /\ Under(N, p, q) => Under(M, p, r)
    BY <1>3, <2>4 DEF Under
  <2> QED BY <1>2, <2>1, <2>2, <2>4, <2>5, <2>7, <2>8, PlainLabels DEF StreamOK
<1>8. FitsStream(M, F, f, r)
  BY <1>6, <1>7 DEF FitsStream
<1> QED BY <1>4, <1>5, <1>8, PlainMoves DEF Fits

(* It takes no handle, and no violation.                                   *)
LEMMA OffStays ==
  ASSUME NEW N, NEW M, NEW F, FilesOK(F), Plain(N, F), NEW f \in Files, NEW r,
         r.node = F[f].node, r.extra \in {F[f].extra, None}, ~Deleting(r),
         r.pc \in HasHandle => F[f].pc \in HasHandle
  PROVE  FitsDelete(M, F, f, r)
<1>1. ASSUME NEW g \in Files \ {f}, Deleting(F[g]) PROVE Off(r, F[g].node)
  <2>1. Off(F[f], F[g].node)
    BY <1>1 DEF Plain, LastDeletes
  <2>2. F[g].node \in Nodes
    BY <1>1, PlainLabels DEF FilesOK, FileOK, Deleting
  <2> QED BY <2>1, <2>2, FileNodeAssumption DEF Off
<1> QED BY <1>1 DEF FitsDelete

-----------------------------------------------------------------------------
(* What a step leaves to the other file objects.                           *)
LEMMA AlikeLeft ==
  ASSUME NEW N, NEW M, NEW F, FilesOK(F), Plain(N, F), NEW f \in Files,
         \A k \in Nodes : /\ M[k].name = N[k].name /\ M[k].main = N[k].main
                          /\ N[k].open > 0 => M[k].open > 0,
         \A g \in Files \ {f} : Deleting(F[g]) => M[F[g].node].pending
  PROVE  Undisturbed(N, M, F, f)
<1> SUFFICES ASSUME NEW g \in Files \ {f}, F[g].pc \notin Ended
             PROVE  Left(N, M, F[g])
  BY DEF Undisturbed
<1>1. PICK q, n : q = F[g] /\ n = q.node
  OBVIOUS
<1>2. n \in Nodes
  BY <1>1 DEF FilesOK, FileOK
<1>3. q.pc \in HasHandle => N[n].open > 0
  BY <1>1 DEF Plain, Held
<1> QED BY <1>1, <1>2, <1>3 DEF Left

LEMMA CarriedLeft ==
  ASSUME NEW N, NEW M, NEW U, NEW F, FilesOK(F), Plain(N, F), NEW f \in Files, NEW r,
         NEW n, NEW open, Carried(N, M, U, At1(F, f, r), n, open),
         \A g \in Files \ {f} : F[g].pc \in HasHandle /\ F[g].node = n => open > 0
  PROVE  Undisturbed(N, M, F, f)
<1> SUFFICES ASSUME NEW g \in Files \ {f}, F[g].pc \notin Ended
             PROVE  Left(N, M, F[g])
  BY DEF Undisturbed
<1>1. PICK q, k : q = F[g] /\ k = q.node
  OBVIOUS
<1>2. PICK G : G = At1(F, f, r)
  OBVIOUS
<1>3. F \in [Files -> FileType] /\ k \in Nodes
  BY <1>1 DEF FilesOK, FileOK
<1>4. G[g] = q
  BY <1>1, <1>2, <1>3, At1Is
<1>5. ~Unheld(M, U, G, k)
  BY <1>1, <1>4 DEF Unheld, FilesAt
<1>6. Alike(N[k], M[k]) /\ M[k].open = IF k = n THEN open ELSE N[k].open
  BY <1>2, <1>3, <1>5 DEF Carried
<1>7. q.pc \in HasHandle => N[k].open > 0
  BY <1>1 DEF Plain, Held
<1>8. Deleting(q) => N[k].pending
  BY <1>1 DEF Plain, LastDeletes
<1> QED BY <1>1, <1>6, <1>7, <1>8 DEF Left, Alike

(* A node with another handle stays open when one of its users leaves.     *)
LEMMA TwoUsers ==
  ASSUME NEW N, NEW T, NEW F, Acc(N, T, F, Nothing), Plain(N, F), NEW n \in Nodes,
         NEW f \in Files, (F[f].node = n /\ F[f].pc \in UserPC) \/ F[f].extra = n,
         NEW g \in Files \ {f}, F[g].node = n, F[g].pc \in HasHandle
  PROVE  OneLess(N[n].open) > 0
<1>1. N[n].open > 0 /\ N[n].open \in Nat /\ N[n].open = N[n].active
  BY OpenIs DEF Plain, Held
<1>2. PICK A, B : A = UsersAt(F, n) /\ B = ExtrasAt(F, n)
  OBVIOUS
<1>3. N[n].active = Cardinality(A) + Cardinality(B)
  BY <1>2 DEF Acc, Uses
<1>4. IsFiniteSet(A) /\ IsFiniteSet(B)
  <2>1. A \subseteq Files /\ B \subseteq Files
    BY <1>2 DEF UsersAt, ExtrasAt
  <2> QED BY <2>1, FS_Subset, FileNodeAssumption
<1>5. Cardinality(A) \in Nat /\ Cardinality(B) \in Nat
  BY <1>4, FS_CardinalityType
<1>6. g \in A
  BY <1>2 DEF UsersAt
<1>7. Cardinality({g}) = 1 /\ IsFiniteSet({g})
  BY FS_Singleton
<1>8. CASE f \in A
  <2>1. {f, g} \subseteq A
    BY <1>6, <1>8
  <2>2. {f, g} = {f} \cup {g} /\ {f} \cap {g} = {}
    OBVIOUS
  <2>3. IsFiniteSet({f}) /\ Cardinality({f}) = 1
    BY FS_Singleton
  <2>4. Cardinality({f, g}) = 2
    <3>1. Cardinality({f} \cup {g}) = Cardinality({f}) + Cardinality({g})
                                      - Cardinality({f} \cap {g})
      BY <1>7, <2>3, FS_Union
    <3>2. Cardinality({f} \cap {g}) = 0
      BY <2>2, FS_EmptySet
    <3> QED BY <1>7, <2>2, <2>3, <3>1, <3>2
  <2>5. Cardinality({f, g}) <= Cardinality(A)
    BY <1>4, <2>1, FS_Subset
  <2>6. N[n].open >= 2
    BY <1>1, <1>3, <1>5, <2>4, <2>5
  <2> QED BY <1>1, <2>6 DEF OneLess
<1>9. CASE f \in B
  <2>1. {g} \subseteq A /\ {f} \subseteq B
    BY <1>6, <1>9
  <2>2. Cardinality({f}) = 1
    BY FS_Singleton
  <2>3. Cardinality({g}) <= Cardinality(A)
    BY <1>4, <2>1, FS_Subset
  <2>4. Cardinality({f}) <= Cardinality(B)
    BY <1>4, <2>1, FS_Subset
  <2>5. N[n].open >= 2
    BY <1>1, <1>3, <1>5, <1>7, <2>2, <2>3, <2>4
  <2> QED BY <1>1, <2>5 DEF OneLess
<1>10. f \in A \/ f \in B
  BY <1>2 DEF UsersAt, ExtrasAt, UserPC
<1> QED BY <1>8, <1>9, <1>10

-----------------------------------------------------------------------------
(* The steps of a volume without POSIX semantics.                          *)
LEMMA MainsMove ==
  ASSUME NEW N, NEW M, NEW F, FilesOK(F), Mains(N, F), NEW f \in Files, NEW r,
         Undisturbed(N, M, F, f), MayOpen(N, M),
         r.pc \in Private \ {"main"} /\ IsStream(r.name) => M[r.node].main # None
  PROVE  Mains(M, At1(F, f, r))
<1>1. PICK G : G = At1(F, f, r)
  OBVIOUS
<1>2. G[f] = r /\ \A g \in Files : g # f => G[g] = F[g]
  BY <1>1, At1Is DEF FilesOK
<1>3. \A n \in Nodes : M[n].open > 0 /\ IsStream(M[n].name) => M[n].main # None
  BY DEF MayOpen
<1>4. ASSUME NEW g \in Files, G[g].pc \in Private \ {"main"}, IsStream(G[g].name)
      PROVE  M[G[g].node].main # None
  <2>1. CASE g = f
    BY <1>2, <1>4, <2>1
  <2>2. CASE g # f
    <3>1. G[g] = F[g] /\ F[g].pc \notin Ended
      BY <1>2, <1>4, <2>2, LabelsDiffer
    <3>2. M[F[g].node].main = N[F[g].node].main
      BY <2>2, <3>1 DEF Undisturbed, Left
    <3> QED BY <1>4, <3>1, <3>2 DEF Mains
  <2> QED BY <2>1, <2>2
<1> QED BY <1>1, <1>3, <1>4 DEF Mains

LEMMA CarriedOpen ==
  ASSUME NEW N, NEW M, NEW U, NEW F, NEW G, Mains(N, G), NEW n, NEW open,
         Carried(N, M, U, F, n, open),
         open > 0 => N[n].open > 0 \/ (IsStream(N[n].name) => N[n].main # None)
  PROVE  MayOpen(N, M)
<1> SUFFICES ASSUME NEW k \in Nodes, M[k].open > 0
             PROVE  /\ M[k].name = N[k].name /\ M[k].main = N[k].main
                    /\ IsStream(N[k].name) => N[k].main # None
  BY DEF MayOpen
<1>1. M[k] # FreeNode
  BY DEF FreeNode
<1>2. Alike(N[k], M[k]) /\ M[k].open = IF k = n THEN open ELSE N[k].open
  BY <1>1 DEF Carried
<1>3. N[k].open > 0 \/ (IsStream(N[k].name) => N[k].main # None)
  BY <1>2
<1> QED BY <1>2, <1>3 DEF Alike, Mains

LEMMA AlikeOpen ==
  ASSUME NEW N, NEW M, NEW F, Mains(N, F),
         \A k \in Nodes : /\ M[k].name = N[k].name /\ M[k].main = N[k].main
                          /\ M[k].open > 0 => N[k].open > 0
  PROVE  MayOpen(N, M)
BY DEF MayOpen, Mains

LEMMA GoodIs ==
  ASSUME NEW N, NEW T, NEW F, Good(N, T, F)
  PROVE  /\ Whole(N, T, F) /\ Plain(N, F) /\ Mains(N, F) /\ Acc(N, T, F, Nothing)
         /\ Own(N, T, F)
         /\ Named(N, F) /\ FilesOK(F) /\ F \in [Files -> FileType]
         /\ \A g \in Files : F[g] \in FileType /\ FileOK(F[g])
         /\ NodesOK(N) /\ N \in [Nodes -> NodeType] /\ One(N, T) /\ T \in TableType
         /\ \A n \in Nodes : N[n] \in NodeType
BY DEF Good, Whole, Acc, FilesOK, NodesOK, One

(* The main file object of a stream that is being opened.                   *)
LEMMA MainOfCreate ==
  ASSUME NEW N, NEW T, NEW F, Good(N, T, F), NEW f \in Files, Creates(F[f])
  PROVE  /\ F[f].node \in Nodes /\ N[F[f].node].main # None
         /\ F[f].main \in Files \ {f} /\ F[F[f].main].pc = "open"
         /\ N[F[F[f].main].node].name = MainName(N[F[f].node].name)
<1>1. PICK q, m : q = F[f] /\ m = F[F[f].main]
  OBVIOUS
<1>2. Plain(N, F) /\ Mains(N, F) /\ FileOK(q)
  BY <1>1, GoodIs
<1>3. q.pc \in Private \ {"main"} /\ IsStream(q.name)
  BY <1>1 DEF Creates
<1>4. q.pc \notin Ended /\ q.pc \in Creating \ {"main"}
  BY <1>3 DEF Private, Ended, Creating
<1>5. q.main \in Files \ {f} /\ StreamOK(N, q, m)
  BY <1>1, <1>2, <1>3, <1>4 DEF Plain, StreamsOK, Streamed
<1>6. m.pc = "open" /\ N[m.node].name = MainName(N[q.node].name)
  BY <1>4, <1>5 DEF StreamOK, Under
<1>7. q.node \in Nodes /\ N[q.node].main # None
  BY <1>1, <1>2, <1>3, <1>4 DEF FileOK, Mains
<1> QED BY <1>1, <1>5, <1>6, <1>7

LEMMA FairStays ==
  ASSUME NEW N, NEW T, NEW F, Good(N, T, F), NEW M, NEW U, NEW G, Good(M, U, G),
         Keeps(N, M), \A f \in Files : Remains(F[f], G[f])
  PROVE  Fairly(N, F, M, G)
<1> SUFFICES ASSUME Fair(N, F) PROVE Fair(M, G)
  BY DEF Fairly
<1>1. Kin(N) /\ KinFiles(N, F) /\ AllShare(N, F)
  BY DEF Fair
<1>2. Kin(M)
  <2> SUFFICES ASSUME NEW n \in Nodes, NEW k \in Nodes, M[n].open > 0, M[k].open > 0,
                      M[n].main = k
               PROVE  M[k].name = MainName(M[n].name)
    BY DEF Kin
  <2>1. N[n].main = k /\ N[n].open > 0 /\ M[n].name = N[n].name
        /\ N[k].open > 0 /\ M[k].name = N[k].name
    BY FileNodeAssumption DEF Keeps
  <2> QED BY <1>1, <2>1 DEF Kin
<1>3. KinFiles(M, G)
  <2> SUFFICES ASSUME NEW f \in Files, Creates(G[f])
               PROVE  M[G[f].node].main = G[G[f].main].node
    BY DEF KinFiles
  <2>1. PICK q, r, g : q = F[f] /\ r = G[f] /\ g = r.main
    OBVIOUS
  <2>2. /\ r.node \in Nodes /\ M[r.node].main # None /\ g \in Files /\ G[g].pc = "open"
    BY <2>1, MainOfCreate
  <2>3. Creates(q) /\ r.node = q.node /\ r.main = q.main
    BY <2>1 DEF Remains
  <2>4. N[q.node].main = F[g].node
    BY <1>1, <2>1, <2>3 DEF KinFiles
  <2>5. N[q.node].main = M[r.node].main
    BY <2>2, <2>3 DEF Keeps
  <2>6. G[g].node = F[g].node
    BY <2>2, PlainLabels DEF Remains
  <2> QED BY <2>1, <2>4, <2>5, <2>6
<1>4. AllShare(M, G)
  <2> SUFFICES ASSUME NEW f \in Files, NEW g \in Files, f # g,
                      G[f].pc \in HasHandle, G[g].pc \in HasHandle
               PROVE  /\ G[f].node = G[g].node => ~Conflict(G[f].mode, G[g].mode)
                      /\ G[f].node = M[G[g].node].main => Spares(G[f].mode, G[g].mode)
    BY DEF AllShare, Shareable
  <2>1. /\ F[f].pc \in HasHandle /\ G[f].node = F[f].node /\ G[f].mode = F[f].mode
        /\ F[g].pc \in HasHandle /\ G[g].node = F[g].node /\ G[g].mode = F[g].mode
    BY DEF Remains
  <2>2. Shareable(N, F[f], F[g])
    BY <1>1 DEF AllShare
  <2>3. G[f].node \in Nodes /\ G[g].node \in Nodes
    BY GoodIs, LabelsDiffer DEF FileOK
  <2>4. G[f].node = M[G[g].node].main => F[f].node = N[F[g].node].main
    BY <2>1, <2>3, FileNodeAssumption DEF Keeps
  <2> QED BY <2>1, <2>2, <2>4 DEF Shareable
<1> QED BY <1>2, <1>3, <1>4 DEF Fair

LEMMA FairAt1 ==
  ASSUME NEW N, NEW T, NEW F, Good(N, T, F), NEW f \in Files, NEW r, NEW M, NEW U,
         Good(M, U, At1(F, f, r)), Keeps(N, M), Remains(F[f], r)
  PROVE  Fairly(N, F, M, At1(F, f, r))
<1>1. PICK G : G = At1(F, f, r)
  OBVIOUS
<1>2. G[f] = r /\ \A g \in Files : g # f => G[g] = F[g]
  BY <1>1, GoodIs, At1Is
<1>3. \A g \in Files : Remains(F[g], F[g])
  BY DEF Remains
<1>4. \A g \in Files : Remains(F[g], G[g])
  BY <1>2, <1>3
<1> QED BY <1>1, <1>4, FairStays

LEMMA CarriedKeeps ==
  ASSUME NEW N, NEW M, NEW U, NEW F, NEW n, NEW open, Carried(N, M, U, F, n, open),
         open > 0 => N[n].open > 0
  PROVE  Keeps(N, M)
<1> SUFFICES ASSUME NEW k \in Nodes
             PROVE  /\ M[k].main # None => N[k].main = M[k].main
                    /\ M[k].open > 0 => N[k].open > 0 /\ M[k].name = N[k].name
  BY DEF Keeps
<1>1. CASE M[k] = FreeNode
  BY <1>1 DEF FreeNode
<1>2. CASE Alike(N[k], M[k]) /\ M[k].open = IF k = n THEN open ELSE N[k].open
  BY <1>2 DEF Alike
<1> QED BY <1>1, <1>2 DEF Carried

LEMMA GoneRemains ==
  ASSUME NEW q, NEW r, r.pc \in {"done", "cleaned"}
  PROVE  Remains(q, r)
BY DEF Remains, Creates, HasHandle, Private

LEMMA HoldsRemains ==
  ASSUME NEW q, NEW r, Holds(q, r), q.pc # "main"
  PROVE  Remains(q, r)
BY DEF Holds, Remains, Creates

(* A file object that is over. *)
Over(r) == r \in FileType /\ FileOK(r) /\ Gone(r) /\ ~r.posix /\ ~r.mode.delete

LEMMA NewFileIs ==
  /\ NewFile \in FileType /\ NewFile.node = None /\ NewFile.extra = None /\ NewFile.pc = "new"
  /\ NewFile.main = None /\ NewFile.posix = FALSE /\ NewFile.mode = MainMode
  /\ MainMode \in AllModes /\ MainMode.delete = FALSE
  /\ NewFile.delete = FALSE /\ NewFile.name = None
<1>1. MainMode \in AllModes /\ MainMode.delete = FALSE
  BY DEF MainMode, AllModes
<1>2. "new" \in FilePCs
  BY DEF FilePCs, Ended
<1>3. PICK zero : zero = 0
  OBVIOUS
<1>4. zero \in Nat
  BY <1>3
<1>5. NewFile = [pc |-> "new", name |-> None, mode |-> MainMode, node |-> None,
                 extra |-> None, reason |-> None, main |-> None,
                 posix |-> FALSE, delete |-> FALSE, overwrite |-> FALSE,
                 to |-> None, opened |-> FALSE, cleanups |-> zero, closes |-> zero]
  BY <1>3 DEF NewFile
<1> QED BY <1>1, <1>2, <1>4, <1>5 DEF FileType

LEMMA OverIs ==
  ASSUME FilesOK(file), NEW f \in Files
  PROVE  Over(Finished(f)) /\ Over(PostClose(Finished(f)))
<1>1. PICK q, opened, closes, more :
        q = NewFile /\ opened = file[f].opened /\ closes = file[f].closes /\ more = closes + 1
  OBVIOUS
<1>2. opened \in BOOLEAN /\ closes \in Nat /\ more \in Nat
  BY <1>1 DEF FilesOK, FileType
<1>3. "done" \in FilePCs /\ "done" \in Ended /\ "done" \notin Refusing
  BY LabelsDiffer DEF FilePCs
<1>4. PICK r : r = [q EXCEPT !.pc = "done", !.opened = opened, !.closes = closes]
  OBVIOUS
<1>5. r \in FileType /\ r.pc = "done" /\ r.node = q.node /\ r.extra = q.extra
      /\ r.posix = q.posix /\ r.mode = q.mode /\ r.closes = closes
  BY <1>1, <1>2, <1>3, <1>4, NewFileIs DEF FileType
<1>6. PICK p : p = [r EXCEPT !.closes = more]
  OBVIOUS
<1>7. p \in FileType /\ p.pc = "done" /\ p.node = q.node /\ p.extra = q.extra
      /\ p.posix = q.posix /\ p.mode = q.mode
  BY <1>2, <1>5, <1>6 DEF FileType
<1>8. Finished(f) = r
  BY <1>1, <1>4 DEF Finished
<1>9. PostClose(Finished(f)) = p
  BY <1>1, <1>5, <1>6, <1>8 DEF PostClose
<1>10. Over(r)
  BY <1>1, <1>3, <1>5, NewFileIs DEF Over, Gone, FileOK
<1>11. Over(p)
  BY <1>1, <1>3, <1>7, NewFileIs DEF Over, Gone, FileOK
<1> QED BY <1>8, <1>9, <1>10, <1>11

(* A Create is over before its answer is processed, or when it is refused. *)
LEMMA DropsGood ==
  ASSUME NEW N, NEW T, NEW F, Good(N, T, F), NEW f \in Files, F[f].pc \in Private \ Refusing,
         NEW r, Over(r), NEW n, n = F[f].node
  PROVE  \E M : /\ Dereference([node |-> N, table |-> T], n) = [node |-> M, table |-> T]
                /\ Good(M, T, At1(F, f, r)) /\ Fairly(N, F, M, At1(F, f, r))
<1>1. Whole(N, T, F) /\ Plain(N, F) /\ FilesOK(F)
  BY GoodIs
<1>2. r \in FileType /\ FileOK(r) /\ Gone(r) /\ ~r.posix /\ ~r.mode.delete
  BY DEF Over
<1>3. PICK M : /\ Dereference([node |-> N, table |-> T], n) = [node |-> M, table |-> T]
               /\ Whole(M, T, At1(F, f, r))
               /\ Carried(N, M, T, At1(F, f, r), n, N[n].open)
  BY <1>1, <1>2, DropKeeps
<1>4. \A g \in Files \ {f} : F[g].pc \in HasHandle /\ F[g].node = n => N[n].open > 0
  BY <1>1 DEF Plain, Held
<1>5. Undisturbed(N, M, F, f)
  BY <1>1, <1>3, <1>4, CarriedLeft
<1>6. F[f].pc # "open"
  BY LabelsDiffer, PlainLabels
<1>7. Plain(M, At1(F, f, r))
  BY <1>1, <1>2, <1>5, <1>6, PlainEnds
<1>8. MayOpen(N, M)
  <2>1. Mains(N, F) /\ N[n].open > 0 => N[n].open > 0
    BY GoodIs
  <2> QED BY <1>3, <2>1, GoodIs, CarriedOpen
<1>9. r.pc \notin Private
  BY <1>2, LabelsDiffer DEF Gone
<1>10. Mains(M, At1(F, f, r))
  BY <1>1, <1>5, <1>8, <1>9, GoodIs, MainsMove
<1>11. Good(M, T, At1(F, f, r))
  BY <1>3, <1>7, <1>10 DEF Good
<1>12. Keeps(N, M)
  BY <1>3, CarriedKeeps
<1>13. Fairly(N, F, M, At1(F, f, r))
  BY <1>2, <1>11, <1>12, GoneRemains, FairAt1 DEF Gone
<1> QED BY <1>3, <1>11, <1>13

(* A handle, a cleaned up file object or a violation is given back.        *)
LEMMA LeavesLeft ==
  ASSUME NEW N, NEW M, NEW T, NEW U, NEW F, Good(N, T, F), NEW f \in Files, NEW r,
         NEW n \in Nodes, NEW share, NEW handles, Leaves(F[f], r, n, share, handles),
         Carried(N, M, U, At1(F, f, r), n, OneLess(N[n].open))
  PROVE  Undisturbed(N, M, F, f)
<1>1. Acc(N, T, F, Nothing) /\ Plain(N, F) /\ FilesOK(F)
  BY GoodIs
<1>2. (F[f].node = n /\ F[f].pc \in UserPC) \/ F[f].extra = n
  BY LabelsDiffer DEF Leaves
<1>3. \A g \in Files \ {f} : F[g].pc \in HasHandle /\ F[g].node = n => OneLess(N[n].open) > 0
  BY <1>1, <1>2, TwoUsers
<1> QED BY <1>1, <1>3, CarriedLeft

LEMMA LessOpen ==
  ASSUME NEW N, NEW M, NEW T, NEW U, NEW F, NEW G, Good(N, T, F), NEW n \in Nodes,
         Carried(N, M, U, G, n, OneLess(N[n].open))
  PROVE  MayOpen(N, M)
<1>1. N[n].open \in Nat
  BY GoodIs, OpenIs
<1>2. PICK open : open = OneLess(N[n].open)
  OBVIOUS
<1>3. open > 0 => N[n].open > 0
  BY <1>1, <1>2 DEF OneLess
<1> QED BY <1>2, <1>3, GoodIs, CarriedOpen

LEMMA ClosesGood ==
  ASSUME NEW N, NEW T, Good(N, T, file), NEW f \in Files, NEW r, Over(r),
         NEW n \in Nodes, NEW share, NEW handles, Leaves(file[f], r, n, share, handles),
         file[f].pc # "open"
  PROVE  \E M, U : /\ Dereference(CloseNode([node |-> N, table |-> T], n, f, share, handles), n)
                      = [node |-> M, table |-> U]
                   /\ Good(M, U, At1(file, f, r)) /\ Fairly(N, file, M, At1(file, f, r))
<1>1. Whole(N, T, file) /\ Plain(N, file) /\ FilesOK(file)
  BY GoodIs
<1>2. r \in FileType /\ FileOK(r) /\ Gone(r) /\ ~r.posix /\ ~r.mode.delete
  BY DEF Over
<1>3. PICK M, U : /\ Dereference(CloseNode([node |-> N, table |-> T], n, f, share, handles), n)
                      = [node |-> M, table |-> U]
                  /\ Whole(M, U, At1(file, f, r))
                  /\ Carried(N, M, U, At1(file, f, r), n, OneLess(N[n].open))
  BY <1>1, <1>2, CloseKeeps
<1>4. Undisturbed(N, M, file, f)
  BY <1>3, LeavesLeft
<1>5. Plain(M, At1(file, f, r))
  BY <1>1, <1>2, <1>4, PlainEnds
<1>6. MayOpen(N, M)
  BY <1>3, LessOpen
<1>7. r.pc \notin Private
  BY <1>2, LabelsDiffer DEF Gone
<1>8. Mains(M, At1(file, f, r))
  BY <1>1, <1>4, <1>6, <1>7, GoodIs, MainsMove
<1>9. Good(M, U, At1(file, f, r))
  BY <1>3, <1>5, <1>8 DEF Good
<1>10. Keeps(N, M)
  <2>1. PICK open : open = OneLess(N[n].open)
    OBVIOUS
  <2>2. N[n].open \in Nat
    BY GoodIs, OpenIs
  <2>3. open > 0 => N[n].open > 0
    BY <2>1, <2>2 DEF OneLess
  <2> QED BY <1>3, <2>1, <2>3, CarriedKeeps
<1>11. Fairly(N, file, M, At1(file, f, r))
  BY <1>2, <1>9, <1>10, GoneRemains, FairAt1 DEF Gone
<1> QED BY <1>3, <1>9, <1>11

(* The state of a file object and the marks of nodes change.               *)
LEMMA MarksGood ==
  ASSUME NEW N, NEW T, NEW F, Good(N, T, F), NEW f \in Files, NEW r, r \in FileType, FileOK(r),
         Holds(F[f], r), F[f].pc # "main", r.pc # "main", ~r.posix,
         r.pc \in Creating => F[f].pc \in Creating,
         RenameNamed(N, F, f, r), StartsRename(N, F, f, r),
         NEW M, M \in [Nodes -> NodeType], \A k \in Nodes : Marked(N[k], M[k]),
         FitsDelete(M, F, f, r), Unneeded(F, f, r),
         \A g \in Files \ {f} : Deleting(F[g]) => M[F[g].node].pending
  PROVE  Good(M, T, At1(F, f, r)) /\ Fairly(N, F, M, At1(F, f, r))
<1>1. /\ Whole(N, T, F) /\ Plain(N, F) /\ FilesOK(F)
      /\ \A g \in Files : FileOK(F[g])
  BY GoodIs
<1>2. Whole(M, T, At1(F, f, r))
  BY <1>1, MarkKeeps
<1>3. \A k \in Nodes : /\ M[k].name = N[k].name /\ M[k].main = N[k].main
                       /\ M[k].open = N[k].open
  BY DEF Marked
<1>4. Undisturbed(N, M, F, f)
  BY <1>1, <1>3, AlikeLeft
<1>5. PICK q : q = F[f]
  OBVIOUS
<1>6. /\ r.node = q.node /\ r.extra = q.extra /\ r.name = q.name /\ r.mode = q.mode
      /\ r.main = q.main
      /\ q.pc \notin Ended /\ r.pc \notin Ended
      /\ q.pc \in HasHandle <=> r.pc \in HasHandle
  BY <1>5 DEF Holds
<1>7. Goes(q, r)
  BY <1>5, <1>6 DEF Goes
<1>8. r.node \in Nodes
  BY <1>6 DEF FileOK
<1>9. r.pc \in HasHandle => M[r.node].open > 0
  BY <1>1, <1>3, <1>5, <1>6, <1>8 DEF Plain, Held
<1>10. GoesFrom(N, M, q, r)
  BY <1>3, <1>6, <1>8, <1>9 DEF GoesFrom
<1>11. StartsRename(M, F, f, r)
  <2>1. ASSUME r.pc = "rename" PROVE Away(M, r, r.to) /\ \A g \in Files \ {f} : Away(M, F[g], r.to)
    <3>1. Away(N, r, r.to) /\ \A g \in Files \ {f} : Away(N, F[g], r.to)
      BY <2>1 DEF StartsRename
    <3>2. Away(M, r, r.to)
      BY <1>3, <1>8, <3>1 DEF Away
    <3>3. ASSUME NEW g \in Files \ {f} PROVE Away(M, F[g], r.to)
      <4>1. F[g].pc \in HasHandle => F[g].node \in Nodes
        BY <1>1, PlainLabels DEF FileOK
      <4> QED BY <1>3, <3>1, <4>1 DEF Away
    <3> QED BY <3>2, <3>3
  <2> QED BY <2>1 DEF StartsRename
<1>12. Plain(M, At1(F, f, r))
  BY <1>1, <1>4, <1>5, <1>7, <1>10, <1>11, PlainGoes
<1>13. Mains(N, F) /\ MayOpen(N, M)
  BY <1>3, GoodIs, AlikeOpen
<1>14. r.pc \in Private \ {"main"} /\ IsStream(r.name) => M[r.node].main # None
  BY <1>3, <1>5, <1>6, <1>8, <1>13 DEF Holds, Mains
<1>15. Mains(M, At1(F, f, r))
  BY <1>1, <1>4, <1>13, <1>14, MainsMove
<1>16. Good(M, T, At1(F, f, r))
  BY <1>2, <1>12, <1>15 DEF Good
<1>17. Keeps(N, M)
  BY <1>3 DEF Keeps
<1>18. Fairly(N, F, M, At1(F, f, r))
  BY <1>16, <1>17, HoldsRemains, FairAt1
<1> QED BY <1>16, <1>18

LEMMA DropStep ==
  ASSUME Good(node, table, file), NEW f \in Files, file[f].pc \in Private \ Refusing,
         NEW r, Over(r), Becomes(Dereference(State, file[f].node)), Finish(f, r)
  PROVE  Good(node', table', file') /\ Fairly(node, file, node', file')
<1>1. PICK M : /\ Dereference([node |-> node, table |-> table], file[f].node)
                  = [node |-> M, table |-> table]
               /\ Good(M, table, At1(file, f, r)) /\ Fairly(node, file, M, At1(file, f, r))
  BY DropsGood
<1>2. node' = M /\ table' = table /\ file' = At1(file, f, r)
  BY <1>1 DEF Becomes, State, Finish, At1
<1> QED BY <1>1, <1>2

LEMMA GiveStep ==
  ASSUME Good(node, table, file), NEW f \in Files, file[f].pc \in HasHandle \ {"open"},
         NEW r, Over(r), Becomes(Give(f, file[f].node)), Finish(f, r)
  PROVE  Good(node', table', file') /\ Fairly(node, file, node', file')
<1>1. PICK n : n = file[f].node
  OBVIOUS
<1>2. n \in Nodes
  BY <1>1, GoodIs, LabelsDiffer DEF FileOK
<1>3. Leaves(file[f], r, n, TRUE, 1)
  BY <1>1 DEF Leaves, Over
<1>4. PICK M, U : /\ Dereference(CloseNode([node |-> node, table |-> table], n, f, TRUE, 1), n)
                     = [node |-> M, table |-> U]
                  /\ Good(M, U, At1(file, f, r)) /\ Fairly(node, file, M, At1(file, f, r))
  <2>1. PICK share : share = TRUE
    OBVIOUS
  <2>2. Leaves(file[f], r, n, share, 1) /\ file[f].pc # "open"
    BY <1>3, <2>1
  <2>3. CloseNode([node |-> node, table |-> table], n, f, share, 1)
        = CloseNode([node |-> node, table |-> table], n, f, TRUE, 1)
    BY <2>1
  <2>4. \E M, U : /\ Dereference(CloseNode([node |-> node, table |-> table], n, f, share, 1), n)
                     = [node |-> M, table |-> U]
                  /\ Good(M, U, At1(file, f, r)) /\ Fairly(node, file, M, At1(file, f, r))
    BY <1>2, <2>2, ClosesGood
  <2> QED BY <2>3, <2>4
<1>5. Give(f, n) = [node |-> M, table |-> U]
  BY <1>4 DEF Give, State
<1>6. node' = M /\ table' = U /\ file' = At1(file, f, r)
  BY <1>1, <1>5 DEF Becomes, Finish, At1
<1> QED BY <1>4, <1>6

LEMMA CloseGood ==
  ASSUME Good(node, table, file), NEW f \in Files, Close(f)
  PROVE  Good(node', table', file') /\ Fairly(node, file, node', file')
<1>1. PICK n, r : n = file[f].node /\ r = PostClose(Finished(f))
  OBVIOUS
<1>2. Over(r)
  BY <1>1, GoodIs, OverIs
<1>3. file[f].pc = "cleaned"
  BY DEF Close
<1>4. n \in Nodes /\ file[f].pc # "open"
  BY <1>1, <1>3, GoodIs, LabelsDiffer DEF FileOK
<1>5. Leaves(file[f], r, n, FALSE, 0)
  BY <1>1, <1>2, <1>3 DEF Leaves, Over
<1>6. PICK s : s = Dereference(CloseNode([node |-> node, table |-> table], n, f, FALSE, 0), n)
  OBVIOUS
<1>7. PICK M, U : s = [node |-> M, table |-> U] /\ Good(M, U, At1(file, f, r))
               /\ Fairly(node, file, M, At1(file, f, r))
  <2>1. PICK share : share = FALSE
    OBVIOUS
  <2>2. Leaves(file[f], r, n, share, 0)
    BY <1>5, <2>1
  <2>3. s = Dereference(CloseNode([node |-> node, table |-> table], n, f, share, 0), n)
    BY <1>6, <2>1
  <2>4. \E M, U : /\ Dereference(CloseNode([node |-> node, table |-> table], n, f, share, 0), n)
                     = [node |-> M, table |-> U]
                  /\ Good(M, U, At1(file, f, r))
               /\ Fairly(node, file, M, At1(file, f, r))
    BY <1>2, <1>4, <2>2, ClosesGood
  <2> QED BY <2>3, <2>4
<1>8. Becomes(s)
  BY <1>1, <1>6 DEF Close, State
<1>9. node' = M /\ table' = U
  BY <1>7, <1>8 DEF Becomes
<1>10. file' = At1(file, f, r)
  BY <1>1 DEF Close, Finish, At1
<1> QED BY <1>7, <1>9, <1>10

LEMMA CreateEnds ==
  ASSUME Good(node, table, file), NEW f \in Files, CreateFails(f) \/ CancelCreate(f)
  PROVE  Good(node', table', file') /\ Fairly(node, file, node', file')
<1>1. Over(Finished(f))
  BY GoodIs, OverIs
<1>2. file[f].pc \in Private \ Refusing
  BY DEF CreateFails, CancelCreate, Private, Refusing
<1>3. Becomes(Dereference(State, file[f].node)) /\ Finish(f, Finished(f))
  BY DEF CreateFails, CancelCreate
<1> QED BY <1>1, <1>2, <1>3, DropStep

LEMMA HandleEnds ==
  ASSUME Good(node, table, file), NEW f \in Files,
         \/ TryOpenFails(f) \/ OverwriteFails(f) \/ OverwriteRefused(f)
         \/ CancelTryOpen(f) \/ CancelOverwrite(f)
  PROVE  Good(node', table', file') /\ Fairly(node, file, node', file')
<1>1. Over(Finished(f)) /\ Over(PostClose(Finished(f)))
  BY GoodIs, OverIs
<1>2. file[f].pc \in HasHandle \ {"open"}
  BY DEF TryOpenFails, MayTry, OverwriteFails, OverwriteRefused, CancelTryOpen, CancelOverwrite,
         HasHandle
<1>3. Becomes(Give(f, file[f].node))
      /\ (Finish(f, Finished(f)) \/ Finish(f, PostClose(Finished(f))))
  BY DEF TryOpenFails, OverwriteFails, OverwriteRefused, CancelTryOpen, CancelOverwrite
<1> QED BY <1>1, <1>2, <1>3, GiveStep

-----------------------------------------------------------------------------
(* What file object q holds stays, only its state changes.                 *)
Quiet(q, r) ==
  /\ r \in FileType /\ r.node = q.node /\ r.extra = q.extra /\ r.name = q.name
  /\ r.mode = q.mode /\ r.main = q.main /\ ~r.posix
  /\ q.pc \notin Ended \cup {"main"} /\ r.pc \notin Ended \cup {"main", "rename"}
  /\ ~Deleting(r)
  /\ r.pc \in Creating => q.pc \in Creating
  /\ q.pc \in HasHandle <=> r.pc \in HasHandle
  /\ q.pc \in Private <=> r.pc \in Private
  /\ q.pc \in Refusing <=> r.pc \in Refusing
  /\ q.pc = "open" => q.mode.delete

LEMMA QuietFacts ==
  ASSUME NEW F, NEW f \in Files, FileOK(F[f]), NEW r, Quiet(F[f], r)
  PROVE  /\ r \in FileType /\ FileOK(r) /\ Holds(F[f], r) /\ F[f].pc # "main" /\ r.pc # "main"
         /\ ~r.posix /\ (r.pc \in Creating => F[f].pc \in Creating)
         /\ (\A N : RenameNamed(N, F, f, r) /\ StartsRename(N, F, f, r))
         /\ Unneeded(F, f, r) /\ ~Deleting(r) /\ r.node = F[f].node /\ r.extra = F[f].extra
         /\ (r.pc \in HasHandle => F[f].pc \in HasHandle)
<1>1. PICK q : q = F[f]
  OBVIOUS
<1>2. Quiet(q, r) /\ FileOK(q)
  BY <1>1
<1>3. FileOK(r)
  BY <1>2 DEF Quiet, FileOK
<1>4. Holds(q, r)
  BY <1>2 DEF Quiet, Holds
<1>5. \A N : RenameNamed(N, F, f, r) /\ StartsRename(N, F, f, r)
  BY <1>2 DEF Quiet, RenameNamed, StartsRename
<1>6. Unneeded(F, f, r)
  BY <1>1, <1>2 DEF Quiet, Unneeded
<1> QED BY <1>1, <1>2, <1>3, <1>4, <1>5, <1>6 DEF Quiet

LEMMA QuietGood ==
  ASSUME NEW N, NEW T, NEW F, Good(N, T, F), NEW f \in Files, NEW r, Quiet(F[f], r),
         NEW M, M \in [Nodes -> NodeType], \A k \in Nodes : Marked(N[k], M[k]),
         \A g \in Files \ {f} : Deleting(F[g]) => M[F[g].node].pending
  PROVE  Good(M, T, At1(F, f, r)) /\ Fairly(N, F, M, At1(F, f, r))
<1>1. Plain(N, F) /\ FilesOK(F) /\ FileOK(F[f])
  BY GoodIs
<1>2. /\ r \in FileType /\ FileOK(r) /\ Holds(F[f], r) /\ F[f].pc # "main" /\ r.pc # "main"
      /\ ~r.posix /\ (r.pc \in Creating => F[f].pc \in Creating)
      /\ Unneeded(F, f, r) /\ ~Deleting(r) /\ r.node = F[f].node /\ r.extra = F[f].extra
      /\ (r.pc \in HasHandle => F[f].pc \in HasHandle)
  BY <1>1, QuietFacts
<1>3. RenameNamed(N, F, f, r) /\ StartsRename(N, F, f, r)
  BY <1>1, QuietFacts
<1>4. FitsDelete(M, F, f, r)
  BY <1>1, <1>2, OffStays
<1> QED BY <1>2, <1>3, <1>4, MarksGood

LEMMA QuietStep ==
  ASSUME Good(node, table, file), NEW f \in Files, NEW r, Quiet(file[f], r),
         node' = node, table' = table, file' = [file EXCEPT ![f] = r]
  PROVE  Good(node', table', file') /\ Fairly(node, file, node', file')
<1>1. Plain(node, file) /\ NodesOK(node) /\ node \in [Nodes -> NodeType]
  BY GoodIs
<1>2. \A k \in Nodes : Marked(node[k], node[k])
  BY DEF Marked
<1>3. \A g \in Files \ {f} : Deleting(file[g]) => node[file[g].node].pending
  BY <1>1 DEF Plain, LastDeletes
<1>4. Good(node, table, At1(file, f, r)) /\ Fairly(node, file, node, At1(file, f, r))
  BY <1>1, <1>2, <1>3, QuietGood
<1> QED BY <1>4 DEF At1

(* Only the label changes. *)
LEMMA LabelIs ==
  ASSUME NEW q \in FileType, NEW pc \in FilePCs, NEW r, r = [q EXCEPT !.pc = pc]
  PROVE  /\ r \in FileType /\ r.pc = pc /\ r.node = q.node /\ r.extra = q.extra
         /\ r.name = q.name /\ r.mode = q.mode /\ r.main = q.main /\ r.posix = q.posix
         /\ r.to = q.to /\ r.delete = q.delete
BY DEF FileType

LEMMA LabelStep ==
  ASSUME Good(node, table, file), NEW f \in Files, NEW pc \in FilePCs, At(f, pc),
         NEW q, q = file[f],
         q.pc \notin Ended \cup {"main"}, pc \notin Ended \cup {"main", "rename", "cleanup"},
         pc \in Creating => q.pc \in Creating,
         q.pc \in HasHandle <=> pc \in HasHandle,
         q.pc \in Private <=> pc \in Private,
         q.pc \in Refusing <=> pc \in Refusing,
         q.pc = "open" => q.mode.delete
  PROVE  file' = [file EXCEPT ![f] = [q EXCEPT !.pc = pc]] /\ Quiet(q, [q EXCEPT !.pc = pc])
<1>1. q \in FileType /\ file \in [Files -> FileType] /\ ~q.posix
  BY GoodIs DEF Plain, NoPosix
<1>2. PICK r : r = [q EXCEPT !.pc = pc]
  OBVIOUS
<1>3. /\ r \in FileType /\ r.pc = pc /\ r.node = q.node /\ r.extra = q.extra
      /\ r.name = q.name /\ r.mode = q.mode /\ r.main = q.main /\ r.posix = q.posix
  BY <1>1, <1>2, LabelIs
<1>4. Quiet(q, r)
  BY <1>1, <1>3 DEF Quiet, Deleting
<1>5. file' = [file EXCEPT ![f] = r]
  BY <1>1, <1>2 DEF At
<1> QED BY <1>2, <1>4, <1>5

LEMMA LabelsGood ==
  ASSUME Good(node, table, file), NEW f \in Files,
         \/ ViolationWaits(f) \/ TryOpen(f) \/ Park(f) \/ OverwriteStart(f) \/ Dispose(f)
  PROVE  Good(node', table', file') /\ Fairly(node, file, node', file')
<1> DEFINE q == file[f]
<1>1. CASE ViolationWaits(f)
  <2>1. At(f, "waiting") /\ q.pc = "violation" /\ node' = node /\ table' = table
    BY <1>1 DEF ViolationWaits
  <2>2. "waiting" \in FilePCs /\ Quiet(q, [q EXCEPT !.pc = "waiting"])
        /\ file' = [file EXCEPT ![f] = [q EXCEPT !.pc = "waiting"]]
    BY <2>1, LabelStep DEF FilePCs, Private, Refusing, Ended, HasHandle, Creating
  <2> QED BY <2>1, <2>2, QuietStep
<1>2. CASE TryOpen(f)
  <2>1. At(f, "open") /\ q.pc \in {"tryopen", "parked"} /\ node' = node /\ table' = table
    BY <1>2 DEF TryOpen, MayTry
  <2>2. "open" \in FilePCs /\ Quiet(q, [q EXCEPT !.pc = "open"])
        /\ file' = [file EXCEPT ![f] = [q EXCEPT !.pc = "open"]]
    BY <2>1, LabelStep DEF FilePCs, Private, Refusing, Ended, HasHandle, Creating
  <2> QED BY <2>1, <2>2, QuietStep
<1>3. CASE Park(f)
  <2>1. At(f, "parked") /\ q.pc = "tryopen" /\ node' = node /\ table' = table
    BY <1>3 DEF Park
  <2>2. "parked" \in FilePCs /\ Quiet(q, [q EXCEPT !.pc = "parked"])
        /\ file' = [file EXCEPT ![f] = [q EXCEPT !.pc = "parked"]]
    BY <2>1, LabelStep DEF FilePCs, Private, Refusing, Ended, HasHandle, Creating
  <2> QED BY <2>1, <2>2, QuietStep
<1>4. CASE OverwriteStart(f)
  <2>1. At(f, "overwriting") /\ q.pc = "overwrite" /\ node' = node /\ table' = table
    BY <1>4 DEF OverwriteStart
  <2>2. "overwriting" \in FilePCs /\ Quiet(q, [q EXCEPT !.pc = "overwriting"])
        /\ file' = [file EXCEPT ![f] = [q EXCEPT !.pc = "overwriting"]]
    BY <2>1, LabelStep DEF FilePCs, Private, Refusing, Ended, HasHandle, Creating
  <2> QED BY <2>1, <2>2, QuietStep
<1>5. CASE Dispose(f)
  <2>1. At(f, "dispose") /\ q.pc = "open" /\ q.mode.delete /\ node' = node /\ table' = table
    BY <1>5 DEF Dispose
  <2>2. "dispose" \in FilePCs /\ Quiet(q, [q EXCEPT !.pc = "dispose"])
        /\ file' = [file EXCEPT ![f] = [q EXCEPT !.pc = "dispose"]]
    BY <2>1, LabelStep DEF FilePCs, Private, Refusing, Ended, HasHandle, Creating
  <2> QED BY <2>1, <2>2, QuietStep
<1> QED BY <1>1, <1>2, <1>3, <1>4, <1>5

LEMMA CreateAnsweredGood ==
  ASSUME Good(node, table, file), NEW f \in Files, CreateAnswered(f)
  PROVE  Good(node', table', file') /\ Fairly(node, file, node', file')
<1>1. PICK q, pc, opened : q = file[f] /\ pc = "answered" /\ opened = TRUE
  OBVIOUS
<1>2. q \in FileType /\ ~q.posix /\ q.pc = "create"
  BY <1>1, GoodIs DEF Plain, NoPosix, CreateAnswered
<1>3. pc \in FilePCs /\ opened \in BOOLEAN
  BY <1>1 DEF FilePCs, Private
<1>4. PICK r : r = [q EXCEPT !.pc = pc, !.opened = opened]
  OBVIOUS
<1>5. /\ r \in FileType /\ r.pc = pc /\ r.node = q.node /\ r.extra = q.extra
      /\ r.name = q.name /\ r.mode = q.mode /\ r.main = q.main /\ r.posix = q.posix
  BY <1>2, <1>3, <1>4 DEF FileType
<1>6. Quiet(q, r)
  BY <1>1, <1>2, <1>5 DEF Quiet, Deleting, Ended, Creating, HasHandle, Private, Refusing
<1>7. node' = node /\ table' = table /\ file' = [file EXCEPT ![f] = r]
  BY <1>1, <1>4 DEF CreateAnswered, Finish
<1> QED BY <1>1, <1>6, <1>7, QuietStep

LEMMA SetInformationFailsGood ==
  ASSUME Good(node, table, file), NEW f \in Files, SetInformationFails(f)
  PROVE  Good(node', table', file') /\ Fairly(node, file, node', file')
<1>1. PICK q, pc : q = file[f] /\ pc = "open"
  OBVIOUS
<1>2. q \in FileType /\ ~q.posix /\ q.pc \in {"dispose", "rename"}
  BY <1>1, GoodIs DEF Plain, NoPosix, SetInformationFails
<1>3. pc \in FilePCs
  BY <1>1 DEF FilePCs, HasHandle
<1>4. PICK r : r = [q EXCEPT !.pc = pc, !.to = None]
  OBVIOUS
<1>5. /\ r \in FileType /\ r.pc = pc /\ r.node = q.node /\ r.extra = q.extra
      /\ r.name = q.name /\ r.mode = q.mode /\ r.main = q.main /\ r.posix = q.posix
  BY <1>2, <1>3, <1>4 DEF FileType
<1>6. Quiet(q, r)
  BY <1>1, <1>2, <1>5 DEF Quiet, Deleting, Ended, Creating, HasHandle, Private, Refusing
<1>7. node' = node /\ table' = table /\ file' = [file EXCEPT ![f] = r]
  BY <1>1, <1>4 DEF SetInformationFails, Finish
<1> QED BY <1>1, <1>6, <1>7, QuietStep

(* The mark that a node will be deleted. *)
LEMMA PendingIs ==
  ASSUME NEW q \in NodeType, NEW pending \in BOOLEAN, NEW posix \in BOOLEAN,
         NEW p, p = [q EXCEPT !.pending = pending, !.posix = posix], q.refs # 0
  PROVE  p \in NodeType /\ Marked(q, p) /\ p.pending = pending
BY DEF NodeType, Marked

LEMMA FileUses ==
  ASSUME NEW N, NEW T, NEW F, Good(N, T, F), NEW f \in Files, F[f].pc \notin Ended
  PROVE  F[f].node \in Nodes /\ N[F[f].node].refs # 0 /\ N[F[f].node].name \in Names
<1>1. Acc(N, T, F, Nothing) /\ F[f].node \in Nodes
  BY GoodIs DEF FileOK
<1>2. Nothing \in [Nodes -> Nat]
  BY DEF Nothing
<1> QED BY <1>1, <1>2, UsedNode

LEMMA DisposeDoneGood ==
  ASSUME Good(node, table, file), ~volume.posix, NEW f \in Files, DisposeDone(f)
  PROVE  Good(node', table', file') /\ Fairly(node, file, node', file')
<1>1. PICK q, n : q = file[f] /\ n = q.node
  OBVIOUS
<1>2. q \in FileType /\ ~q.posix /\ q.pc = "dispose"
  BY <1>1, GoodIs DEF Plain, NoPosix, DisposeDone
<1>3. n \in Nodes /\ node[n].refs # 0 /\ node[n] \in NodeType
      /\ node \in [Nodes -> NodeType] /\ file \in [Files -> FileType]
  BY <1>1, <1>2, GoodIs, FileUses DEF Ended
<1>4. PICK delete \in BOOLEAN, posix \in BOOLEAN :
         /\ ~posix /\ node' = [node EXCEPT ![n].pending = delete]
         /\ file' = [file EXCEPT ![f] =
              [q EXCEPT !.pc = "open", !.posix = delete /\ (@ \/ posix)]]
  BY <1>1 DEF DisposeDone, Finish
<1>5. PICK pc, false : pc = "open" /\ false = FALSE
  OBVIOUS
<1>6. PICK r : r = [q EXCEPT !.pc = pc, !.posix = false]
  OBVIOUS
<1>7. file' = [file EXCEPT ![f] = r]
  <2>1. (delete /\ (q.posix \/ posix)) = false
    BY <1>2, <1>4, <1>5
  <2>2. [q EXCEPT !.pc = "open", !.posix = delete /\ (@ \/ posix)] = r
    BY <1>5, <1>6, <2>1
  <2> QED BY <1>4, <2>2
<1>8. pc \in FilePCs /\ false \in BOOLEAN
  BY <1>5 DEF FilePCs, HasHandle
<1>9. /\ r \in FileType /\ r.pc = pc /\ r.node = q.node /\ r.extra = q.extra
      /\ r.name = q.name /\ r.mode = q.mode /\ r.main = q.main /\ r.posix = false
  BY <1>2, <1>6, <1>8 DEF FileType
<1>10. Quiet(q, r)
  BY <1>2, <1>5, <1>9 DEF Quiet, Deleting, Ended, Creating, HasHandle, Private, Refusing
<1>11. PICK o, p, posixly : o = node[n] /\ posixly = o.posix /\ p = [o EXCEPT !.pending = delete]
  OBVIOUS
<1>12. p = [o EXCEPT !.pending = delete, !.posix = posixly] /\ posixly \in BOOLEAN
  BY <1>3, <1>11 DEF NodeType
<1>13. p \in NodeType /\ Marked(o, p) /\ p.pending = delete
  BY <1>3, <1>11, <1>12, PendingIs
<1>14. PICK M : M = [node EXCEPT ![n] = p]
  OBVIOUS
<1>15. node' = M
  BY <1>3, <1>4, <1>11, <1>14
<1>16. M \in [Nodes -> NodeType] /\ M[n] = p /\ \A k \in Nodes : k # n => M[k] = node[k]
  BY <1>3, <1>13, <1>14
<1>17. \A k \in Nodes : Marked(node[k], M[k])
  <2>1. \A k \in Nodes : Marked(node[k], node[k])
    BY DEF Marked
  <2> QED BY <1>11, <1>13, <1>16, <2>1
<1>18. ASSUME NEW g \in Files \ {f}, Deleting(file[g])
       PROVE  M[file[g].node].pending
  <2>1. node[file[g].node].pending /\ Off(q, file[g].node)
    BY <1>1, <1>18, GoodIs DEF Plain, LastDeletes
  <2>2. file[g].node \in Nodes
    BY <1>18, GoodIs, PlainLabels DEF FileOK, Deleting
  <2>3. file[g].node # n
    BY <1>1, <1>2, <2>1 DEF Off, HasHandle
  <2> QED BY <1>16, <2>1, <2>2, <2>3
<1>19. Good(M, table, At1(file, f, r)) /\ Fairly(node, file, M, At1(file, f, r))
  BY <1>1, <1>10, <1>16, <1>17, <1>18, QuietGood
<1>20. table' = table
  BY DEF DisposeDone
<1> QED BY <1>7, <1>15, <1>19, <1>20 DEF At1

LEMMA OverwriteDoneGood ==
  ASSUME Good(node, table, file), NEW f \in Files, OverwriteDone(f)
  PROVE  Good(node', table', file') /\ Fairly(node, file, node', file')
<1>1. PICK q, n : q = file[f] /\ n = q.node
  OBVIOUS
<1>2. q \in FileType /\ ~q.posix /\ q.pc = "overwriting" /\ At(f, "open")
      /\ node' = OverwriteStreams(n) /\ table' = table
  BY <1>1, GoodIs DEF Plain, NoPosix, OverwriteDone
<1>3. PICK r : r = [q EXCEPT !.pc = "open"]
  OBVIOUS
<1>4. file' = [file EXCEPT ![f] = r] /\ Quiet(q, r)
  BY <1>1, <1>2, <1>3, LabelStep DEF FilePCs, Private, Refusing, Ended, HasHandle, Creating
<1>5. node \in [Nodes -> NodeType] /\ One(node, table) /\ Acc(node, table, file, Nothing)
      /\ table \in TableType
  BY GoodIs
<1>6. PICK streams : streams = {d \in Descendants(State, node[n].name) \ {n} : node[d].handles > 0}
  OBVIOUS
<1>7. \A d \in streams : d \in Nodes /\ node[d].refs # 0
  <2> SUFFICES ASSUME NEW d \in streams PROVE d \in Nodes /\ node[d].refs # 0
    OBVIOUS
  <2>1. PICK x \in Names : table[x] # None /\ d = table[x]
    BY <1>6 DEF Descendants, State
  <2>2. d \in Nodes /\ node[d].name = x
    BY <1>5, <2>1 DEF One, TableType
  <2> QED BY <1>5, <2>1, <2>2, TabledUsed
<1>8. PICK L : L = [d \in Nodes |-> [node[d] EXCEPT !.pending = @ \/ d \in streams]]
  OBVIOUS
<1>9. node' = L \/ node' = node
  BY <1>2, <1>6, <1>8 DEF OverwriteStreams
<1>10. ASSUME NEW k \in Nodes
       PROVE  L[k] \in NodeType /\ Marked(node[k], L[k])
              /\ (node[k].pending => L[k].pending)
  <2>1. PICK o, pending, posix : o = node[k] /\ pending = (o.pending \/ k \in streams)
                                 /\ posix = o.posix
    OBVIOUS
  <2>2. o \in NodeType /\ pending \in BOOLEAN /\ posix \in BOOLEAN
    BY <1>5, <2>1 DEF NodeType
  <2>3. PICK p : p = [o EXCEPT !.pending = pending, !.posix = posix]
    OBVIOUS
  <2>4. p = [o EXCEPT !.pending = pending]
    BY <2>1, <2>2, <2>3 DEF NodeType
  <2>5. L[k] = p
    BY <1>8, <2>1, <2>4
  <2>6. CASE o.refs # 0
    <3>1. p \in NodeType /\ Marked(o, p) /\ p.pending = pending
      BY <2>2, <2>3, <2>6, PendingIs
    <3> QED BY <2>1, <2>5, <3>1
  <2>7. CASE o.refs = 0
    <3>1. pending = o.pending
      BY <1>7, <2>1, <2>2, <2>7 DEF NodeType
    <3>2. p = o
      BY <2>2, <2>4, <3>1 DEF NodeType
    <3> QED BY <2>1, <2>2, <2>5, <3>2 DEF Marked
  <2> QED BY <2>6, <2>7
<1>11. L \in [Nodes -> NodeType]
  BY <1>8, <1>10
<1>12. \A k \in Nodes : Marked(node[k], node[k])
  BY DEF Marked
<1>13. PICK M : M = node'
  OBVIOUS
<1>14. M \in [Nodes -> NodeType] /\ \A k \in Nodes : Marked(node[k], M[k])
                                                   /\ (node[k].pending => M[k].pending)
  BY <1>5, <1>9, <1>10, <1>11, <1>12, <1>13
<1>15. ASSUME NEW g \in Files \ {f}, Deleting(file[g])
       PROVE  M[file[g].node].pending
  <2>1. node[file[g].node].pending
    BY <1>15, GoodIs DEF Plain, LastDeletes
  <2>2. file[g].node \in Nodes
    BY <1>15, GoodIs, PlainLabels DEF FileOK, Deleting
  <2> QED BY <1>14, <2>1, <2>2
<1>16. Good(M, table, At1(file, f, r)) /\ Fairly(node, file, M, At1(file, f, r))
  BY <1>1, <1>4, <1>14, <1>15, QuietGood
<1> QED BY <1>2, <1>4, <1>13, <1>16 DEF At1

(* The handles of a node, when there is a handle or no other one.          *)
LEMMA HandleCounts ==
  ASSUME NEW N, NEW T, NEW F, Acc(N, T, F, Nothing), NEW n \in Nodes,
         NEW f \in Files, F[f].node = n, F[f].pc \in HasHandle
  PROVE  /\ N[n].handles \in Nat /\ N[n].handles # 0
         /\ N[n].handles = 1 => \A g \in Files \ {f} : Off(F[g], n)
<1>1. PICK A, B : A = HandlesAt(F, n) /\ B = ExtrasAt(F, n)
  OBVIOUS
<1>2. N[n].handles = Cardinality(A) + Cardinality(B)
  BY <1>1 DEF Acc, Uses
<1>3. IsFiniteSet(A) /\ IsFiniteSet(B)
  <2>1. A \subseteq Files /\ B \subseteq Files
    BY <1>1 DEF HandlesAt, ExtrasAt
  <2> QED BY <2>1, FS_Subset, FileNodeAssumption
<1>4. Cardinality(A) \in Nat /\ Cardinality(B) \in Nat
  BY <1>3, FS_CardinalityType
<1>5. f \in A
  BY <1>1 DEF HandlesAt
<1>6. Cardinality(A) # 0
  BY <1>3, <1>5, FS_EmptySet
<1>7. ASSUME N[n].handles = 1, NEW g \in Files \ {f} PROVE Off(F[g], n)
  <2>1. Cardinality(A) = 1 /\ Cardinality(B) = 0
    BY <1>2, <1>4, <1>6, <1>7
  <2>2. B = {}
    BY <1>3, <2>1, FS_EmptySet
  <2>3. \E x : A = {x}
    BY <1>3, <2>1, FS_Singleton
  <2>4. g \notin A
    BY <1>5, <2>3
  <2> QED BY <1>1, <2>2, <2>4 DEF Off, HandlesAt, ExtrasAt
<1> QED BY <1>2, <1>4, <1>6, <1>7

LEMMA RenameGood ==
  ASSUME Good(node, table, file), volume \in AllVolumes, ~volume.posix,
         NEW f \in Files, Rename(f)
  PROVE  Good(node', table', file') /\ Fairly(node, file, node', file')
<1>1. PICK q, n : q = file[f] /\ n = q.node
  OBVIOUS
<1>2. /\ q \in FileType /\ ~q.posix /\ q.pc = "open" /\ q.mode.delete /\ FileOK(q)
      /\ \A g \in Files : file[g].pc \notin Creating \cup {"rename"}
      /\ node' = node /\ table' = table
  BY <1>1, GoodIs DEF Plain, NoPosix, Rename
<1>3. PICK to \in volume.files :
        /\ to # node[n].name[1] /\ RenameCheck(n, <<to, NoStream>>, FALSE)
        /\ file' = [file EXCEPT ![f].pc = "rename", ![f].to = to]
  <2>1. \A posix \in BOOLEAN : (posix => volume.posix) => posix = FALSE
    OBVIOUS
  <2> QED BY <1>1, <2>1 DEF Rename
<1>4. to \in FileNames
  BY <1>3 DEF AllVolumes
<1>5. /\ file \in [Files -> FileType] /\ node \in [Nodes -> NodeType] /\ n \in Nodes
      /\ Acc(node, table, file, Nothing) /\ One(node, table)
      /\ \A g \in Files : FileOK(file[g])
  BY <1>1, <1>2, GoodIs, FileUses DEF Ended
<1>6. PICK pc : pc = "rename"
  OBVIOUS
<1>7. pc \in FilePCs
  BY <1>6 DEF FilePCs, HasHandle
<1>8. PICK r : r = [q EXCEPT !.pc = pc, !.to = to]
  OBVIOUS
<1>9. /\ r \in FileType /\ r.pc = pc /\ r.node = q.node /\ r.extra = q.extra
      /\ r.name = q.name /\ r.mode = q.mode /\ r.main = q.main /\ r.posix = q.posix
      /\ r.to = to
  BY <1>2, <1>4, <1>7, <1>8 DEF FileType
<1>10. file' = [file EXCEPT ![f] = r]
  BY <1>1, <1>3, <1>5, <1>6, <1>8
<1>11. Holds(q, r)
  BY <1>2, <1>6, <1>9 DEF Holds, Ended, HasHandle, Private
<1>12. FileOK(r)
  BY <1>2, <1>6, <1>9 DEF FileOK, Ended, Refusing
<1>13. RenameNamed(node, file, f, r)
  BY <1>1, <1>2, <1>3, <1>4, <1>9 DEF RenameNamed
<1>14. ASSUME NEW g \in Files, file[g].pc \in HasHandle
       PROVE  node[file[g].node].name[1] # to
  <2>1. PICK k : k = file[g].node
    OBVIOUS
  <2>2. k \in Nodes
    BY <1>5, <1>14, <2>1, LabelsDiffer DEF FileOK
  <2>3. node[k].open > 0
    BY <1>14, <2>1, GoodIs DEF Plain, Held
  <2>4. PICK x : x = node[k].name
    OBVIOUS
  <2>5. x \in Names /\ table[x] = k
    BY <1>5, <2>2, <2>3, <2>4, OpenIs
  <2>6. ASSUME x[1] = to PROVE FALSE
    <3>1. k # n /\ k # None
      BY <1>3, <2>2, <2>4, <2>6, FileNodeAssumption
    <3>2. <<to, NoStream>>[1] = to
      OBVIOUS
    <3>3. k \in Descendants(State, <<to, NoStream>>) \ {n}
      BY <2>5, <2>6, <3>1, <3>2 DEF Descendants, State
    <3>4. Movable(k, FALSE)
      BY <1>3, <3>3 DEF RenameCheck
    <3>5. node[k].handles = 0
      BY <3>4 DEF Movable
    <3> QED BY <1>5, <1>14, <2>1, <2>2, <3>5, HandleCounts
  <2> QED BY <2>1, <2>4, <2>6
<1>15. StartsRename(node, file, f, r)
  <2>1. Away(node, r, to)
    BY <1>1, <1>2, <1>6, <1>9, <1>14, PlainLabels DEF Away
  <2>2. \A g \in Files \ {f} : Away(node, file[g], to)
    BY <1>2, <1>14 DEF Away
  <2> QED BY <1>9, <2>1, <2>2 DEF StartsRename
<1>16. Plain(node, file) /\ FilesOK(file)
  BY GoodIs
<1>17. FitsDelete(node, file, f, r)
  BY <1>1, <1>2, <1>6, <1>9, <1>16, PlainLabels, OffStays DEF Deleting
<1>18. Unneeded(file, f, r)
  BY <1>1, <1>2 DEF Unneeded
<1>19. \A k \in Nodes : Marked(node[k], node[k])
  BY DEF Marked
<1>20. \A g \in Files \ {f} : Deleting(file[g]) => node[file[g].node].pending
  BY <1>16 DEF Plain, LastDeletes
<1>21. file[f].pc # "main" /\ r.pc # "main" /\ ~r.posix /\ r.pc \notin Creating
  BY <1>1, <1>2, <1>6, <1>9, PlainLabels
<1>22. Good(node, table, At1(file, f, r)) /\ Fairly(node, file, node, At1(file, f, r))
  BY <1>1, <1>5, <1>9, <1>11, <1>12, <1>13, <1>15, <1>17, <1>18, <1>19, <1>20, <1>21, MarksGood
<1> QED BY <1>2, <1>10, <1>22 DEF At1

LEMMA CleanupGood ==
  ASSUME Good(node, table, file), NEW f \in Files, Cleanup(f)
  PROVE  Good(node', table', file') /\ Fairly(node, file, node', file')
<1>1. PICK q, n : q = file[f] /\ n = q.node
  OBVIOUS
<1>2. q \in FileType /\ ~q.posix /\ q.pc = "open" /\ FileOK(q) /\ MayCleanup(f) /\ table' = table
  BY <1>1, GoodIs DEF Plain, NoPosix, Cleanup
<1>3. PICK flags : flags = FileNodeCleanup(f)
  OBVIOUS
<1>4. PICK posted \in BOOLEAN :
        /\ node' = [node EXCEPT ![n].pending = flags.pending, ![n].posix = flags.posix]
        /\ file' = [file EXCEPT ![f] = [q EXCEPT !.pc = "cleanup", !.delete = flags.delete,
                                                 !.cleanups = IF posted THEN 1 ELSE 0]]
  BY <1>1, <1>3 DEF Cleanup, Finish
<1>5. /\ file \in [Files -> FileType] /\ node \in [Nodes -> NodeType]
      /\ n \in Nodes /\ node[n].refs # 0 /\ node[n] \in NodeType
      /\ Acc(node, table, file, Nothing) /\ Plain(node, file) /\ FilesOK(file)
  BY <1>1, <1>2, GoodIs, FileUses DEF Ended
<1>6. PICK o : o = node[n]
  OBVIOUS
<1>7. PICK single : single = (o.handles = 1)
  OBVIOUS
<1>8. /\ flags.pending \in BOOLEAN /\ flags.posix \in BOOLEAN /\ flags.delete \in BOOLEAN
      /\ o.pending => flags.pending
      /\ flags.delete => o.handles = 1 /\ flags.pending
  <2>1. q.mode.deleteOnClose \in BOOLEAN /\ q.posix \in BOOLEAN
    BY <1>2 DEF FileType, AllModes
  <2>2. o.pending \in BOOLEAN /\ o.posix \in BOOLEAN
    BY <1>5, <1>6 DEF NodeType
  <2>3. flags = [pending |-> o.pending \/ q.mode.deleteOnClose,
                 posix   |-> o.posix \/ q.posix,
                 delete  |-> ~o.posix /\ (q.posix \/ (o.handles = 1
                                /\ (o.pending \/ q.mode.deleteOnClose)))]
    BY <1>1, <1>3, <1>6 DEF FileNodeCleanup, CleanupFlags
  <2>4. /\ flags.pending = (o.pending \/ q.mode.deleteOnClose)
        /\ flags.posix = (o.posix \/ q.posix)
        /\ flags.delete = (~o.posix /\ (q.posix \/ (o.handles = 1
                                /\ (o.pending \/ q.mode.deleteOnClose))))
    BY <2>3
  <2> QED BY <1>2, <2>1, <2>2, <2>4
<1>9. PICK pc, cleanups, delete :
        pc = "cleanup" /\ cleanups = (IF posted THEN 1 ELSE 0) /\ delete = flags.delete
  OBVIOUS
<1>10. pc \in FilePCs /\ cleanups \in Nat /\ delete \in BOOLEAN
  BY <1>8, <1>9 DEF FilePCs, HasHandle
<1>11. PICK r : r = [q EXCEPT !.pc = pc, !.delete = delete, !.cleanups = cleanups]
  OBVIOUS
<1>12. /\ r \in FileType /\ r.pc = pc /\ r.node = q.node /\ r.extra = q.extra
       /\ r.name = q.name /\ r.mode = q.mode /\ r.main = q.main /\ r.posix = q.posix
       /\ r.delete = delete
  BY <1>2, <1>10, <1>11 DEF FileType
<1>13. file' = [file EXCEPT ![f] = r]
  BY <1>4, <1>9, <1>11
<1>14. PICK pending, posix, p : /\ pending = flags.pending /\ posix = flags.posix
                                /\ p = [o EXCEPT !.pending = pending, !.posix = posix]
  OBVIOUS
<1>15. p \in NodeType /\ Marked(o, p) /\ p.pending = pending
  <2>1. o \in NodeType /\ o.refs # 0
    BY <1>5, <1>6
  <2>2. pending \in BOOLEAN /\ posix \in BOOLEAN
    BY <1>8, <1>14
  <2>3. p = [o EXCEPT !.pending = pending, !.posix = posix]
    BY <1>14
  <2> QED BY <2>1, <2>2, <2>3, PendingIs
<1>16. PICK M : M = [node EXCEPT ![n] = p]
  OBVIOUS
<1>17. node' = M
  BY <1>4, <1>5, <1>6, <1>14, <1>16
<1>18. M \in [Nodes -> NodeType] /\ M[n] = p /\ \A k \in Nodes : k # n => M[k] = node[k]
  BY <1>5, <1>15, <1>16
<1>19. \A k \in Nodes : Marked(node[k], M[k]) /\ (node[k].pending => M[k].pending)
  <2>1. \A k \in Nodes : Marked(node[k], node[k])
    BY DEF Marked
  <2> QED BY <1>6, <1>8, <1>14, <1>15, <1>18, <2>1
<1>20. Holds(q, r)
  BY <1>2, <1>9, <1>12 DEF Holds, Ended, HasHandle, Private
<1>21. FileOK(r)
  BY <1>2, <1>9, <1>12 DEF FileOK, Ended, Refusing
<1>22. RenameNamed(node, file, f, r) /\ StartsRename(node, file, f, r)
  BY <1>9, <1>12 DEF RenameNamed, StartsRename
<1>23. FitsDelete(M, file, f, r)
  <2>1. ASSUME Deleting(r)
        PROVE  M[r.node].pending /\ \A g \in Files \ {f} : Off(file[g], r.node)
    <3>1. flags.delete
      BY <1>9, <1>12, <2>1 DEF Deleting
    <3>2. M[n].pending
      BY <1>8, <1>14, <1>15, <1>18, <3>1
    <3>3. \A g \in Files \ {f} : Off(file[g], n)
      BY <1>1, <1>2, <1>5, <1>6, <1>8, <3>1, PlainLabels, HandleCounts
    <3> QED BY <1>1, <1>12, <3>2, <3>3
  <2>2. ASSUME NEW g \in Files \ {f}, Deleting(file[g]) PROVE Off(r, file[g].node)
    <3>1. Off(q, file[g].node)
      BY <1>1, <1>5, <2>2 DEF Plain, LastDeletes
    <3> QED BY <1>2, <1>12, <3>1, PlainLabels DEF Off
  <2> QED BY <2>1, <2>2 DEF FitsDelete
<1>24. Unneeded(file, f, r)
  BY <1>2 DEF Unneeded, MayCleanup, MainOf
<1>25. ASSUME NEW g \in Files \ {f}, Deleting(file[g])
       PROVE  M[file[g].node].pending
  <2>1. node[file[g].node].pending
    BY <1>5, <1>25 DEF Plain, LastDeletes
  <2>2. file[g].node \in Nodes
    BY <1>25, GoodIs, PlainLabels DEF FileOK, Deleting
  <2> QED BY <1>19, <2>1, <2>2
<1>26. file[f].pc # "main" /\ r.pc # "main" /\ ~r.posix /\ r.pc \notin Creating
  BY <1>1, <1>2, <1>9, <1>12, PlainLabels
<1>27. Good(M, table, At1(file, f, r)) /\ Fairly(node, file, M, At1(file, f, r))
  BY <1>1, <1>12, <1>18, <1>19, <1>20, <1>21, <1>22, <1>23, <1>24, <1>25, <1>26, MarksGood
<1> QED BY <1>2, <1>13, <1>17, <1>27 DEF At1

(* What a step did to a node that is still used.                           *)
LEMMA CarriedTo ==
  ASSUME NEW N, NEW M, NEW U, NEW F, NEW G, NEW n, NEW open, Carried(N, M, U, G, n, open),
         NEW g \in Files, NEW k \in Nodes, G[g].node = k
  PROVE  M[k].name = N[k].name /\ M[k].main = N[k].main
         /\ M[k].open = (IF k = n THEN open ELSE N[k].open)
<1>1. ~Unheld(M, U, G, k)
  BY DEF Unheld, FilesAt
<1> QED BY <1>1 DEF Carried, Alike

-----------------------------------------------------------------------------
(* The counts of a sharing violation are given back.                       *)
Again(q, r) ==
  /\ r \in FileType /\ r.pc = "again" /\ r.extra = None /\ r.node = q.node /\ r.name = q.name
  /\ r.mode = q.mode /\ r.main = q.main /\ r.posix = q.posix

LEMMA ExtraGood ==
  ASSUME Good(node, table, file), NEW f \in Files, file[f].pc \in Refusing, NEW r,
         Again(file[f], r)
  PROVE  \E M, U : /\ GiveExtra(f) = [node |-> M, table |-> U]
                   /\ Good(M, U, At1(file, f, r)) /\ Fairly(node, file, M, At1(file, f, r))
<1>1. PICK q, n : q = file[f] /\ n = q.extra
  OBVIOUS
<1>2. /\ q \in FileType /\ FileOK(q) /\ Whole(node, table, file) /\ Plain(node, file)
      /\ FilesOK(file) /\ file \in [Files -> FileType] /\ ~q.posix
  BY <1>1, GoodIs DEF Plain, NoPosix
<1>3. /\ r \in FileType /\ r.pc = "again" /\ r.extra = None /\ r.node = q.node /\ r.name = q.name
      /\ r.mode = q.mode /\ r.main = q.main /\ r.posix = q.posix
  BY <1>1 DEF Again
<1>4. q.pc \in Refusing /\ q.pc \notin Ended
  BY <1>1, LabelsDiffer
<1>5. n \in Nodes /\ q.node \in Nodes
  BY <1>1, <1>2, <1>4 DEF FileOK, FileType
<1>6. FileOK(r)
  BY <1>2, <1>3, <1>4, LabelsDiffer DEF FileOK
<1>7. PICK share : share = FALSE
  OBVIOUS
<1>8. Leaves(q, r, n, share, 1)
  BY <1>1, <1>3, <1>4, <1>7 DEF Leaves
<1>9. PICK M, U : /\ Dereference(CloseNode([node |-> node, table |-> table], n, f, share, 1), n)
                     = [node |-> M, table |-> U]
                  /\ Whole(M, U, At1(file, f, r))
                  /\ Carried(node, M, U, At1(file, f, r), n, OneLess(node[n].open))
  <2>1. Leaves(file[f], r, n, share, 1)
    BY <1>1, <1>8
  <2> QED BY <1>2, <1>3, <1>5, <1>6, <2>1, CloseKeeps
<1>10. GiveExtra(f) = [node |-> M, table |-> U]
  <2>1. GiveExtra(f)
        = Dereference(CloseNode([node |-> node, table |-> table], n, f, share, 1), n)
    BY <1>1, <1>7 DEF GiveExtra, State
  <2> QED BY <1>9, <2>1
<1>11. Undisturbed(node, M, file, f)
  BY <1>1, <1>5, <1>8, <1>9, LeavesLeft
<1>12. PICK G : G = At1(file, f, r)
  OBVIOUS
<1>13. G[f] = r
  BY <1>2, <1>12, At1Is
<1>14. M[r.node].name = node[q.node].name
  BY <1>3, <1>5, <1>9, <1>12, <1>13, CarriedTo
<1>15. GoesFrom(node, M, q, r)
  BY <1>3, <1>14 DEF GoesFrom, HasHandle
<1>16. Goes(q, r)
  BY <1>2, <1>3, <1>4 DEF Goes, Refusing, Creating, HasHandle, Ended
<1>17. Unneeded(file, f, r) /\ StartsRename(M, file, f, r)
  BY <1>1, <1>3, <1>4 DEF Unneeded, StartsRename, Refusing
<1>18. FitsDelete(M, file, f, r)
  BY <1>1, <1>2, <1>3, OffStays DEF Deleting, HasHandle
<1>19. Plain(M, At1(file, f, r))
  BY <1>1, <1>2, <1>11, <1>15, <1>16, <1>17, <1>18, PlainGoes
<1>20. MayOpen(node, M)
  BY <1>5, <1>9, LessOpen
<1>21. M[r.node].main = node[q.node].main
  BY <1>3, <1>5, <1>9, <1>12, <1>13, CarriedTo
<1>22. IsStream(q.name) => node[q.node].main # None
  BY <1>1, <1>4, GoodIs, LabelsDiffer DEF Mains
<1>23. Mains(M, At1(file, f, r))
  BY <1>2, <1>3, <1>11, <1>20, <1>21, <1>22, GoodIs, MainsMove
<1>24. Good(M, U, At1(file, f, r))
  BY <1>9, <1>19, <1>23 DEF Good
<1>25. Keeps(node, M)
  <2>1. PICK open : open = OneLess(node[n].open)
    OBVIOUS
  <2>2. node[n].open \in Nat
    BY <1>5, GoodIs, OpenIs
  <2>3. open > 0 => node[n].open > 0
    BY <2>1, <2>2 DEF OneLess
  <2> QED BY <1>9, <2>1, <2>3, CarriedKeeps
<1>26. Remains(q, r)
  BY <1>3, <1>4 DEF Remains, Creates, HasHandle, Private, Refusing
<1>27. Fairly(node, file, M, At1(file, f, r))
  BY <1>1, <1>24, <1>25, <1>26, FairAt1
<1> QED BY <1>10, <1>24, <1>27

LEMMA ViolationBrokenGood ==
  ASSUME Good(node, table, file), NEW f \in Files, ViolationBroken(f)
  PROVE  Good(node', table', file') /\ Fairly(node, file, node', file')
<1>1. PICK q, pc : q = file[f] /\ pc = "again"
  OBVIOUS
<1>2. q \in FileType /\ q.pc \in Refusing
  BY <1>1, GoodIs DEF ViolationBroken, Refusing
<1>3. pc \in FilePCs
  BY <1>1 DEF FilePCs, Private
<1>4. PICK r : r = [q EXCEPT !.pc = pc, !.extra = None, !.reason = None]
  OBVIOUS
<1>5. Again(q, r)
  BY <1>1, <1>2, <1>3, <1>4 DEF FileType, Again
<1>6. PICK M, U : /\ GiveExtra(f) = [node |-> M, table |-> U]
                  /\ Good(M, U, At1(file, f, r)) /\ Fairly(node, file, M, At1(file, f, r))
  BY <1>1, <1>2, <1>5, ExtraGood
<1>7. node' = M /\ table' = U
  BY <1>6 DEF ViolationBroken, Becomes
<1>8. file' = At1(file, f, r)
  BY <1>1, <1>4 DEF ViolationBroken, Finish, At1
<1> QED BY <1>6, <1>7, <1>8

LEMMA ViolationFailsGood ==
  ASSUME Good(node, table, file), NEW f \in Files, ViolationFails(f)
  PROVE  Good(node', table', file') /\ Fairly(node, file, node', file')
<1>1. PICK q, pc : q = file[f] /\ pc = "again"
  OBVIOUS
<1>2. q \in FileType /\ q.pc \in Refusing /\ file \in [Files -> FileType]
  BY <1>1, GoodIs DEF ViolationFails, Refusing
<1>3. pc \in FilePCs
  BY <1>1 DEF FilePCs, Private
<1>4. PICK r : r = [q EXCEPT !.pc = pc, !.extra = None, !.reason = None]
  OBVIOUS
<1>5. Again(q, r)
  BY <1>1, <1>2, <1>3, <1>4 DEF FileType, Again
<1>6. PICK M, U : /\ GiveExtra(f) = [node |-> M, table |-> U]
                  /\ Good(M, U, At1(file, f, r)) /\ Fairly(node, file, M, At1(file, f, r))
  BY <1>1, <1>2, <1>5, ExtraGood
<1>7. PICK G : G = At1(file, f, r)
  OBVIOUS
<1>8. G[f] = r
  BY <1>2, <1>7, At1Is
<1>9. PICK p : p = PostClose(Finished(f))
  OBVIOUS
<1>10. Over(p)
  BY <1>9, GoodIs, OverIs
<1>11. r.pc \in Private \ Refusing /\ r.node = q.node
  BY <1>5, LabelsDiffer DEF Again
<1>12. PICK n : n = q.node
  OBVIOUS
<1>13. n = G[f].node /\ G[f].pc \in Private \ Refusing /\ Good(M, U, G)
  BY <1>6, <1>7, <1>8, <1>11, <1>12
<1>14. PICK L : /\ Dereference([node |-> M, table |-> U], n) = [node |-> L, table |-> U]
                /\ Good(L, U, At1(G, f, p)) /\ Fairly(M, G, L, At1(G, f, p))
  BY <1>10, <1>13, DropsGood
<1>15. node' = L /\ table' = U
  BY <1>1, <1>6, <1>12, <1>14 DEF ViolationFails, Becomes
<1>16. At1(G, f, p) = At1(file, f, p)
  BY <1>2, <1>7 DEF At1
<1>17. file' = At1(file, f, p)
  BY <1>9 DEF ViolationFails, Finish, At1
<1>18. Fairly(node, file, M, G)
  BY <1>6, <1>7
<1>19. Fairly(node, file, L, At1(G, f, p))
  BY <1>14, <1>18 DEF Fairly
<1> QED BY <1>14, <1>15, <1>16, <1>17, <1>19

-----------------------------------------------------------------------------
(* FspFsvolCreateComplete.                                                 *)
Reasons == {None, "main", "stream", "general"}
Verdicts(f, v) ==
  LET n == file[f].node
      k == v.node
  IN \/ v = Refused
     \/ /\ v.status = "violation" /\ v.reason \in Reasons
        /\ k \in Nodes /\ node[k].open > 0 /\ ~node[k].pending
     \/ /\ v.status = "success"
        /\ \/ k = n /\ table[node[n].name] = None
           \/ k \in Nodes /\ k # n /\ table[node[n].name] = k /\ ~node[k].pending

LEMMA VerdictIs ==
  ASSUME Good(node, table, file), NEW f \in Files, file[f].pc \in Private, NEW writable
  PROVE  Verdicts(f, Verdict(f, writable))
<1>1. PICK q, n, v : q = file[f] /\ n = q.node /\ v = Verdict(f, writable)
  OBVIOUS
<1>2. PICK main, old : main = node[n].main /\ old = table[node[n].name]
  OBVIOUS
<1>3. /\ node \in [Nodes -> NodeType] /\ table \in TableType /\ One(node, table)
      /\ Own(node, table, file) /\ Plain(node, file) /\ Acc(node, table, file, Nothing)
  BY GoodIs
<1>4. n \in Nodes /\ node[n].name \in Names
  BY <1>1, FileUses, LabelsDiffer
<1>5. \/ v = Refused
      \/ /\ main # None /\ ~node[main].pending /\ node[main].denyDelete > 0
         /\ v = Violation(main, "main")
      \/ old = None /\ v = Success(n)
      \/ /\ old # None /\ ~node[old].pending
         /\ v \in {Violation(old, "stream"), Violation(old, "general"), Success(old)}
  BY <1>1, <1>2 DEF Verdict
<1>6. CASE v = Refused
  BY <1>1, <1>6 DEF Verdicts
<1>7. CASE /\ main # None /\ ~node[main].pending /\ node[main].denyDelete > 0
           /\ v = Violation(main, "main")
  <2>1. main \in Nodes
    BY <1>2, <1>3, <1>4, <1>7 DEF NodeType
  <2>2. Cardinality(DeletersAt(file, main)) # 0
    BY <1>3, <1>7, <2>1 DEF Acc, Uses
  <2>3. DeletersAt(file, main) # {}
    BY <2>2, FS_EmptySet
  <2>4. PICK g \in Files : file[g].node = main /\ file[g].pc \in HasHandle
    BY <2>3 DEF DeletersAt, HandlesAt
  <2>5. node[main].open > 0
    BY <1>3, <2>4 DEF Plain, Held
  <2>6. v.status = "violation" /\ v.node = main /\ v.reason = "main"
    BY <1>7 DEF Violation
  <2> QED BY <1>1, <1>7, <2>1, <2>5, <2>6 DEF Verdicts, Reasons
<1>8. CASE old = None /\ v = Success(n)
  <2>1. v.status = "success" /\ v.node = n
    BY <1>8 DEF Success
  <2> QED BY <1>1, <1>2, <1>8, <2>1 DEF Verdicts
<1>9. CASE /\ old # None /\ ~node[old].pending
           /\ v \in {Violation(old, "stream"), Violation(old, "general"), Success(old)}
  <2>1. old \in Nodes /\ node[old].open > 0
    BY <1>2, <1>3, <1>4, <1>9 DEF One, TableType
  <2>2. old # n
    BY <1>1, <1>2, <1>3, <1>4 DEF Own
  <2>3. CASE v = Success(old)
    <3>1. v.status = "success" /\ v.node = old
      BY <2>3 DEF Success
    <3> QED BY <1>1, <1>2, <1>9, <2>1, <2>2, <3>1 DEF Verdicts
  <2>4. CASE v \in {Violation(old, "stream"), Violation(old, "general")}
    <3>1. v.status = "violation" /\ v.node = old /\ v.reason \in {"stream", "general"}
      BY <2>4 DEF Violation
    <3> QED BY <1>1, <1>9, <2>1, <3>1 DEF Verdicts, Reasons
  <2> QED BY <1>9, <2>3, <2>4
<1> QED BY <1>1, <1>5, <1>6, <1>7, <1>8, <1>9

(* A sharing violation. *)
LEMMA RefuseGood ==
  ASSUME Good(node, table, file), NEW f \in Files, NEW k \in Nodes, node[k].open > 0,
         ~node[k].pending, NEW r, r \in FileType, FileOK(r), Refuses(file[f], r, k),
         r.posix = file[f].posix
  PROVE  \E M : /\ Count(State, k) = [node |-> M, table |-> table]
                /\ Good(M, table, At1(file, f, r)) /\ Fairly(node, file, M, At1(file, f, r))
<1>1. PICK q : q = file[f]
  OBVIOUS
<1>2. /\ Whole(node, table, file) /\ Plain(node, file) /\ FilesOK(file) /\ FileOK(q) /\ ~q.posix
      /\ \A g \in Files : FileOK(file[g])
  BY <1>1, GoodIs DEF Plain, NoPosix
<1>3. /\ q.pc \in {"answered", "again"} /\ r.pc \in Refusing /\ r.extra = k
      /\ r.node = q.node /\ r.name = q.name /\ r.mode = q.mode /\ r.main = q.main
  BY <1>1 DEF Refuses
<1>4. PICK M : /\ Count([node |-> node, table |-> table], k) = [node |-> M, table |-> table]
               /\ Whole(M, table, At1(file, f, r))
               /\ CountedOpen(node, M, k)
  BY <1>2, RefuseKeeps
<1>5. node[k].open \in Nat
  BY GoodIs, OpenIs
<1>6. \A j \in Nodes : /\ M[j].name = node[j].name /\ M[j].main = node[j].main
                       /\ M[j].pending = node[j].pending
                       /\ node[j].open > 0 => M[j].open > 0
  <2>1. ASSUME NEW j \in Nodes, node[j].open > 0 PROVE M[j].open > 0
    <3>1. CASE j = k
      <4>1. M[j].open = node[k].open + 1
        BY <1>4, <3>1 DEF CountedOpen
      <4> QED BY <1>5, <4>1
    <3>2. CASE j # k
      BY <1>4, <2>1, <3>2 DEF CountedOpen
    <3> QED BY <3>1, <3>2
  <2> QED BY <1>4, <2>1 DEF Alike, CountedOpen
<1>7. \A g \in Files \ {f} : Deleting(file[g]) =>
        /\ file[g].node \in Nodes /\ node[file[g].node].pending /\ M[file[g].node].pending
  <2>1. \A g \in Files \ {f} : Deleting(file[g]) =>
          file[g].node \in Nodes /\ node[file[g].node].pending
    BY <1>2, PlainLabels DEF Plain, LastDeletes, FileOK, Deleting
  <2> QED BY <1>6, <2>1
<1>8. Undisturbed(node, M, file, f)
  BY <1>2, <1>6, <1>7, AlikeLeft
<1>9. q.node \in Nodes
  BY <1>2, <1>3 DEF FileOK, Ended
<1>10. GoesFrom(node, M, q, r)
  BY <1>3, <1>6, <1>9, LabelsDiffer DEF GoesFrom
<1>11. Goes(q, r)
  BY <1>1, <1>2, <1>3 DEF Goes, Refusing, Creating, HasHandle, Ended
<1>12. Unneeded(file, f, r) /\ StartsRename(M, file, f, r)
  BY <1>1, <1>3 DEF Unneeded, StartsRename, Refusing
<1>13. FitsDelete(M, file, f, r)
  <2>1. r.pc \notin HasHandle /\ ~Deleting(r)
    BY <1>3 DEF Refusing, HasHandle, Deleting
  <2>2. \A g \in Files \ {f} : Deleting(file[g]) => Off(r, file[g].node)
    BY <1>3, <1>7, <2>1 DEF Off
  <2> QED BY <2>1, <2>2 DEF FitsDelete
<1>14. Plain(M, At1(file, f, r))
  BY <1>1, <1>2, <1>8, <1>10, <1>11, <1>12, <1>13, PlainGoes
<1>15. MayOpen(node, M)
  <2>1. \A j \in Nodes : M[j].open > 0 => node[j].open > 0
    BY <1>4 DEF CountedOpen
  <2> QED BY <1>6, <2>1, GoodIs, AlikeOpen
<1>16. IsStream(q.name) => node[q.node].main # None
  <2>1. q.pc \in Private \ {"main"}
    BY <1>3 DEF Private
  <2> QED BY <1>1, <2>1, GoodIs DEF Mains
<1>17. M[r.node].main = node[q.node].main
  BY <1>3, <1>6, <1>9
<1>18. Mains(M, At1(file, f, r))
  BY <1>2, <1>3, <1>8, <1>15, <1>16, <1>17, GoodIs, MainsMove
<1>19. Good(M, table, At1(file, f, r))
  BY <1>4, <1>14, <1>18 DEF Good
<1>20. Keeps(node, M)
  <2>1. \A j \in Nodes : M[j].open > 0 => node[j].open > 0
    BY <1>4 DEF CountedOpen
  <2> QED BY <1>6, <2>1 DEF Keeps
<1>21. Remains(q, r)
  BY <1>3 DEF Remains, Creates, HasHandle, Private, Refusing
<1>22. Fairly(node, file, M, At1(file, f, r))
  BY <1>1, <1>19, <1>20, <1>21, FairAt1
<1> QED BY <1>4, <1>19, <1>22 DEF State

(* An open that succeeds. *)
LEMMA OpenPlain ==
  ASSUME Good(node, table, file), NEW f \in Files, NEW k \in Nodes, NEW r,
         Opens(file[f], r, k), r.posix = file[f].posix, FileOK(r),
         NEW M, NEW U, Carried(node, M, U, At1(file, f, r), k, node[k].open + 1),
         node[k].name = node[file[f].node].name,
         k = file[f].node \/ (~node[k].pending /\ node[k].open > 0)
  PROVE  Plain(M, At1(file, f, r)) /\ Mains(M, At1(file, f, r))
<1>1. PICK q, n : q = file[f] /\ n = q.node
  OBVIOUS
<1>2. /\ Plain(node, file) /\ FilesOK(file) /\ FileOK(q) /\ ~q.posix
      /\ \A g \in Files : FileOK(file[g])
      /\ Own(node, table, file) /\ file \in [Files -> FileType]
  BY <1>1, GoodIs DEF Plain, NoPosix
<1>3. /\ q.pc \in {"answered", "again"} /\ r.pc \in {"overwrite", "tryopen"}
      /\ r.node = k /\ r.extra = q.extra /\ r.name = q.name /\ r.mode = q.mode
      /\ r.main = q.main
  BY <1>1 DEF Opens
<1>4. node[k].open \in Nat
  BY GoodIs, OpenIs
<1>5. node[k].open + 1 > 0
  BY <1>4
<1>6. Undisturbed(node, M, file, f)
  BY <1>2, <1>5, CarriedLeft
<1>7. PICK G : G = At1(file, f, r)
  OBVIOUS
<1>8. G[f] = r
  BY <1>2, <1>7, At1Is
<1>9. M[k].name = node[k].name /\ M[k].open = node[k].open + 1
  BY <1>3, <1>7, <1>8, CarriedTo
<1>10. GoesFrom(node, M, q, r)
  BY <1>1, <1>3, <1>5, <1>9 DEF GoesFrom
<1>11. Goes(q, r)
  BY <1>1, <1>2, <1>3 DEF Goes, Creating, HasHandle, Ended
<1>12. Unneeded(file, f, r) /\ StartsRename(M, file, f, r)
  BY <1>1, <1>3 DEF Unneeded, StartsRename
<1>13. FitsDelete(M, file, f, r)
  <2>1. ~Deleting(r)
    BY <1>3 DEF Deleting
  <2>2. r.extra = None
    BY <1>2, <1>3 DEF FileOK, Refusing
  <2>3. ASSUME NEW g \in Files \ {f}, Deleting(file[g]) PROVE Off(r, file[g].node)
    <3>1. file[g].node \in Nodes /\ node[file[g].node].pending
      BY <1>2, <2>3, PlainLabels DEF Plain, LastDeletes, FileOK, Deleting
    <3>2. q.pc \in Private
      BY <1>3 DEF Private
    <3>3. file[g].node # n
      BY <1>1, <1>2, <3>2 DEF Own
    <3>4. file[g].node # k
      BY <1>1, <3>1, <3>3
    <3> QED BY <1>3, <2>2, <3>1, <3>4, FileNodeAssumption DEF Off
  <2> QED BY <2>1, <2>3 DEF FitsDelete
<1>14. MayOpen(node, M)
  <2>1. node[k].open > 0 \/ (IsStream(node[k].name) => node[k].main # None)
    <3>1. CASE k = n
      <4>1. q.pc \in Private \ {"main"}
        BY <1>3 DEF Private
      <4>2. IsStream(node[n].name) => IsStream(q.name)
        BY <1>1, <3>1, GoodIs DEF Named, IsStream
      <4> QED BY <1>1, <3>1, <4>1, <4>2, GoodIs DEF Mains
    <3>2. CASE k # n
      BY <1>1, <3>2
    <3> QED BY <3>1, <3>2
  <2> QED BY <2>1, GoodIs, CarriedOpen
<1>15. r.pc \notin Private
  BY <1>3 DEF Private
<1>16. Mains(M, At1(file, f, r))
  BY <1>2, <1>6, <1>14, <1>15, GoodIs, MainsMove
<1>17. Plain(M, At1(file, f, r))
  BY <1>1, <1>2, <1>6, <1>10, <1>11, <1>12, <1>13, PlainGoes
<1> QED BY <1>16, <1>17

(* What FspFsvolCreateComplete does, with the verdict v on the open.       *)
Answering(f) == file[f].pc \in {"answered", "again"}
Violated(f, v, pc) == [file[f] EXCEPT !.extra = v.node, !.reason = v.reason, !.pc = pc]
Opened(f, v, pc) == [file[f] EXCEPT !.node = v.node, !.pc = pc]
Settled(f, v) ==
  LET n == file[f].node
      k == v.node
      s2 == CountShare(Count(State, k), k, f, 1)
  IN \/ /\ v.status = "refused"
        /\ Becomes(Dereference(State, n))
        /\ Finish(f, PostClose(Finished(f)))
     \/ /\ v.status = "violation"
        /\ Becomes(Count(State, k))
        /\ \E pc \in {"violation", "refused"} : Finish(f, Violated(f, v, pc))
     \/ /\ v.status \notin {"refused", "violation"}
        /\ Becomes(IF k = n THEN [s2 EXCEPT !.table[node[n].name] = n] ELSE Dereference(s2, n))
        /\ \E pc \in {"overwrite", "tryopen"} : Finish(f, Opened(f, v, pc))

LEMMA CreateCompleteIs ==
  ASSUME FilesOK(file), NEW f \in Files, CreateComplete(f)
  PROVE  \E v : /\ v = Refused \/ \E writable : v = Verdict(f, writable)
                /\ Answering(f) /\ Settled(f, v)
<1>1. file[f] \in FileType
  BY DEF FilesOK
<1>2. PICK writable \in BOOLEAN, badName \in BOOLEAN :
        LET v == IF badName THEN Refused ELSE Verdict(f, writable)
            n == file[f].node
            inserted == v.node = n
            s1 == Count(State, v.node)
            s2 == CountShare(s1, v.node, f, 1)
            s3 == IF inserted THEN [s2 EXCEPT !.table[node[n].name] = n]
                              ELSE Dereference(s2, n)
            next == IF file[f].overwrite THEN "overwrite" ELSE "tryopen"
        IN CASE v.status = "refused" ->
                  /\ Becomes(Dereference(State, n))
                  /\ Finish(f, PostClose(Finished(f)))
             [] v.status = "violation" ->
                  /\ Becomes(s1)
                  /\ Finish(f, [file[f] EXCEPT !.extra = v.node, !.reason = v.reason,
                        !.pc = IF @ = "answered" THEN "violation" ELSE "refused"])
             [] OTHER ->
                  /\ Becomes(s3)
                  /\ Finish(f, [file[f] EXCEPT !.node = v.node, !.pc = next])
  BY DEF CreateComplete
<1>3. PICK v : v = IF badName THEN Refused ELSE Verdict(f, writable)
  OBVIOUS
<1>4. PICK n, k : n = file[f].node /\ k = v.node
  OBVIOUS
<1>5. PICK s1, s2, s3 :
        /\ s1 = Count(State, k) /\ s2 = CountShare(s1, k, f, 1)
        /\ s3 = IF k = n THEN [s2 EXCEPT !.table[node[n].name] = n] ELSE Dereference(s2, n)
  OBVIOUS
<1>6. PICK label, next :
        /\ label = IF file[f].pc = "answered" THEN "violation" ELSE "refused"
        /\ next = IF file[f].overwrite THEN "overwrite" ELSE "tryopen"
  OBVIOUS
<1>7. PICK e, why : e = v.node /\ why = v.reason
  OBVIOUS
<1>8. [file[f] EXCEPT !.extra = e, !.reason = why,
                      !.pc = IF @ = "answered" THEN "violation" ELSE "refused"]
      = [file[f] EXCEPT !.extra = e, !.reason = why, !.pc = label]
  BY <1>1, <1>6 DEF FileType
<1>9. /\ v.status = "refused" => /\ Becomes(Dereference(State, n))
                                 /\ Finish(f, PostClose(Finished(f)))
      /\ v.status = "violation" =>
           /\ Becomes(s1)
           /\ Finish(f, [file[f] EXCEPT !.extra = v.node, !.reason = v.reason, !.pc = label])
      /\ v.status \notin {"refused", "violation"} =>
           /\ Becomes(s3)
           /\ Finish(f, [file[f] EXCEPT !.node = v.node, !.pc = next])
  BY <1>2, <1>3, <1>4, <1>5, <1>6, <1>7, <1>8
<1>10. label \in {"violation", "refused"} /\ next \in {"overwrite", "tryopen"}
  BY <1>6
<1>11. Settled(f, v)
  <2>1. CASE v.status = "refused"
    BY <1>4, <1>9, <2>1 DEF Settled
  <2>2. CASE v.status = "violation"
    <3>1. Becomes(s1) /\ Finish(f, Violated(f, v, label))
      BY <1>9, <2>2 DEF Violated
    <3> QED BY <1>4, <1>5, <1>10, <2>2, <3>1 DEF Settled
  <2>3. CASE v.status \notin {"refused", "violation"}
    <3>1. Becomes(s3) /\ Finish(f, Opened(f, v, next))
      BY <1>9, <2>3 DEF Opened
    <3> QED BY <1>4, <1>5, <1>10, <2>3, <3>1 DEF Settled
  <2> QED BY <2>1, <2>2, <2>3
<1>12. Answering(f)
  BY DEF CreateComplete, Answering
<1> QED BY <1>3, <1>11, <1>12

LEMMA ViolatedIs ==
  ASSUME NEW f \in Files, file[f] \in FileType, NEW v, NEW pc \in {"violation", "refused"},
         v.node \in Nodes, v.reason \in Reasons, NEW r, r = Violated(f, v, pc),
         FileOK(file[f]), Answering(f)
  PROVE  r \in FileType /\ FileOK(r) /\ Refuses(file[f], r, v.node) /\ r.posix = file[f].posix
<1>1. PICK q, k, why : q = file[f] /\ k = v.node /\ why = v.reason
  OBVIOUS
<1>2. r = [q EXCEPT !.extra = k, !.reason = why, !.pc = pc]
  BY <1>1 DEF Violated
<1>3. pc \in FilePCs /\ pc \in Refusing /\ pc \notin Ended /\ pc # "main"
  BY DEF FilePCs, Private, Refusing, Ended
<1>4. why \in {None, "main", "stream", "general"} /\ k \in Nodes /\ k # None
  BY <1>1, FileNodeAssumption DEF Reasons
<1>5. q \in FileType /\ FileOK(q) /\ q.pc \in {"answered", "again"}
  BY <1>1 DEF Answering
<1>6. /\ r \in FileType /\ r.pc = pc /\ r.node = q.node /\ r.extra = k
      /\ r.name = q.name /\ r.mode = q.mode /\ r.main = q.main /\ r.posix = q.posix
  <2>1. q \in FileType /\ pc \in FilePCs /\ k \in Nodes \cup {None}
    BY <1>3, <1>4, <1>5
  <2> QED BY <1>2, <1>4, <2>1, ZenonT(60) DEF FileType
<1>7. q.node \in Nodes /\ q.name \in Names
  BY <1>5 DEF FileOK, Ended
<1>8. FileOK(r)
  BY <1>3, <1>4, <1>6, <1>7 DEF FileOK
<1>9. Refuses(q, r, k)
  BY <1>3, <1>5, <1>6 DEF Refuses
<1> QED BY <1>1, <1>6, <1>8, <1>9

LEMMA OpenedIs ==
  ASSUME NEW f \in Files, file[f] \in FileType, NEW v, NEW pc \in {"overwrite", "tryopen"},
         v.node \in Nodes, NEW r, r = Opened(f, v, pc), FileOK(file[f]), Answering(f)
  PROVE  r \in FileType /\ FileOK(r) /\ Opens(file[f], r, v.node) /\ r.posix = file[f].posix
<1>1. PICK q, k : q = file[f] /\ k = v.node
  OBVIOUS
<1>2. r = [q EXCEPT !.node = k, !.pc = pc]
  BY <1>1 DEF Opened
<1>3. pc \in FilePCs /\ pc \notin Refusing /\ pc \notin Ended /\ pc # "main"
  BY DEF FilePCs, HasHandle, Refusing, Ended
<1>4. k \in Nodes
  BY <1>1
<1>5. q \in FileType /\ FileOK(q) /\ q.pc \in {"answered", "again"}
  BY <1>1 DEF Answering
<1>6. /\ r \in FileType /\ r.pc = pc /\ r.node = k /\ r.extra = q.extra
      /\ r.name = q.name /\ r.mode = q.mode /\ r.main = q.main /\ r.posix = q.posix
  <2>1. q \in FileType /\ pc \in FilePCs /\ k \in Nodes \cup {None}
    BY <1>3, <1>4, <1>5
  <2> QED BY <1>2, <2>1, ZenonT(60) DEF FileType
<1>7. q.extra = None /\ q.name \in Names
  BY <1>5 DEF FileOK, Ended, Refusing
<1>8. FileOK(r)
  BY <1>3, <1>4, <1>6, <1>7 DEF FileOK
<1>9. Opens(q, r, k)
  BY <1>5, <1>6 DEF Opens
<1> QED BY <1>1, <1>6, <1>8, <1>9

(* What the share access and the deny counts say of an open that succeeds.  *)
Allowed(mode, n, k) ==
  /\ node[n].main # None =>
       ~(node[node[n].main].denyDelete > 0 /\ ~mode.shareDelete /\ HasAccess(mode))
  /\ k # n => /\ ~(node[k].denyStream > 0 /\ mode.delete)
              /\ \A g \in node[k].share : ~Conflict(mode, file[g].mode)

LEMMA VerdictAllows ==
  ASSUME FilesOK(file), NEW f \in Files, NEW writable, NEW v, v = Verdict(f, writable),
         v.status = "success"
  PROVE  Allowed(file[f].mode, file[f].node, v.node)
<1>1. PICK q, n, mode : q = file[f] /\ n = q.node /\ mode = q.mode
  OBVIOUS
<1>2. PICK main, old : main = node[n].main /\ old = table[node[n].name]
  OBVIOUS
<1>3. PICK true : true = TRUE
  OBVIOUS
<1>4. PICK wanted : wanted = IF q.overwrite THEN [mode EXCEPT !.data = true] ELSE mode
  OBVIOUS
<1>5. mode \in AllModes
  BY <1>1 DEF FilesOK, FileType
<1>6. v # Refused /\ (\A k, why : v # Violation(k, why))
  BY DEF Refused, Violation
<1>7. v = IF main # None /\ node[main].pending THEN Refused
          ELSE IF main # None /\ node[main].denyDelete > 0 /\ ~mode.shareDelete /\ HasAccess(mode)
            THEN Violation(main, "main")
          ELSE IF old = None THEN Success(n)
          ELSE IF node[old].pending THEN Refused
          ELSE IF node[old].denyStream > 0 /\ mode.delete THEN Violation(old, "stream")
          ELSE IF \/ writable /\ ~mode.shareData /\ HasAccess(mode)
                  \/ \E g \in node[old].share : Conflict(wanted, file[g].mode)
            THEN Violation(old, "general")
          ELSE Success(old)
  BY <1>1, <1>2, <1>3, <1>4, Zenon DEF Verdict
<1>8. main # None => ~(node[main].denyDelete > 0 /\ ~mode.shareDelete /\ HasAccess(mode))
  BY <1>6, <1>7, Zenon
<1>9. \/ v = Success(n)
      \/ /\ v = Success(old)
         /\ ~(node[old].denyStream > 0 /\ mode.delete)
         /\ ~(\E g \in node[old].share : Conflict(wanted, file[g].mode))
  BY <1>6, <1>7, Zenon
<1>10. ASSUME NEW other, Conflict(mode, other) PROVE Conflict(wanted, other)
  <2>1. CASE ~q.overwrite
    BY <1>4, <1>10, <2>1
  <2>2. CASE q.overwrite
    <3>1. wanted = [mode EXCEPT !.data = true] /\ true \in BOOLEAN
      BY <1>3, <1>4, <2>2
    <3>2. /\ wanted.data = true /\ wanted.delete = mode.delete
          /\ wanted.shareData = mode.shareData /\ wanted.shareDelete = mode.shareDelete
      BY <1>5, <3>1 DEF AllModes
    <3>3. wanted.data
      BY <1>3, <3>2
    <3> QED BY <1>10, <3>2, <3>3 DEF Conflict, HasAccess
  <2> QED BY <2>1, <2>2
<1>11. CASE v = Success(n)
  <2>1. v.node = n
    BY <1>11 DEF Success
  <2>2. Allowed(mode, n, n)
    BY <1>2, <1>8, Zenon DEF Allowed
  <2> QED BY <1>1, <2>1, <2>2
<1>12. CASE /\ v = Success(old)
            /\ ~(node[old].denyStream > 0 /\ mode.delete)
            /\ ~(\E g \in node[old].share : Conflict(wanted, file[g].mode))
  <2>1. v.node = old
    BY <1>12 DEF Success
  <2>2. \A g \in node[old].share : ~Conflict(mode, file[g].mode)
    BY <1>10, <1>12
  <2>3. Allowed(mode, n, old)
    BY <1>2, <1>8, <1>12, <2>2, Zenon DEF Allowed
  <2> QED BY <1>1, <2>1, <2>3
<1> QED BY <1>9, <1>11, <1>12

LEMMA ConflictIs ==
  /\ \A a, b : Conflict(a, b) => Conflict(b, a)
  /\ \A a, b : Conflict(a, b) => HasAccess(b)
BY DEF Conflict

(* The stream that f creates, once it is found in the table, has the main   *)
(* file that f opened first.                                                *)
LEMMA SameMain ==
  ASSUME NEW N, NEW T, NEW F, Good(N, T, F), Fair(N, F), NEW f \in Files,
         F[f].pc \in Private \ {"main"}, NEW n, n = F[f].node, NEW k \in Nodes,
         N[k].open > 0, N[k].name = N[n].name, NEW j \in Nodes, N[k].main = j, N[j].open > 0
  PROVE  N[n].main = j
<1>1. /\ Plain(N, F) /\ Named(N, F) /\ NodesOK(N) /\ Acc(N, T, F, Nothing) /\ FileOK(F[f])
      /\ \A g \in Files : FileOK(F[g])
  BY GoodIs
<1>2. PICK q, g : q = F[f] /\ g = q.main
  OBVIOUS
<1>3. n \in Nodes
  BY <1>1, LabelsDiffer DEF FileOK
<1>4. IsStream(N[n].name)
  BY <1>1, FileNodeAssumption DEF NodesOK
<1>5. Creates(q)
  BY <1>1, <1>2, <1>3, <1>4 DEF Creates, Named, IsStream
<1>6. /\ g \in Files /\ F[g].pc = "open" /\ N[F[g].node].name = MainName(N[n].name)
  BY <1>2, <1>5, MainOfCreate
<1>7. N[n].main = F[g].node
  BY <1>2, <1>5 DEF Fair, KinFiles
<1>8. F[g].node \in Nodes /\ N[F[g].node].open > 0
  BY <1>1, <1>6, PlainLabels DEF FileOK, Plain, Held
<1>9. N[j].name = MainName(N[n].name)
  BY DEF Fair, Kin
<1>10. T[N[j].name] = j /\ T[N[F[g].node].name] = F[g].node
  BY <1>1, <1>8, OpenIs
<1> QED BY <1>6, <1>7, <1>9, <1>10

LEMMA OpenFair ==
  ASSUME Good(node, table, file), NEW f \in Files, NEW k \in Nodes, NEW r,
         Opens(file[f], r, k), NEW M, NEW U, Good(M, U, At1(file, f, r)),
         Carried(node, M, U, At1(file, f, r), k, node[k].open + 1),
         node[k].name = node[file[f].node].name,
         k = file[f].node \/ node[k].open > 0,
         Allowed(file[f].mode, file[f].node, k)
  PROVE  Fairly(node, file, M, At1(file, f, r))
<1> SUFFICES ASSUME Fair(node, file) PROVE Fair(M, At1(file, f, r))
  BY DEF Fairly
<1>1. PICK q, n, G : q = file[f] /\ n = q.node /\ G = At1(file, f, r)
  OBVIOUS
<1>2. /\ Plain(node, file) /\ Named(node, file) /\ Own(node, table, file) /\ NodesOK(node)
      /\ Uses(node, file) /\ FileOK(q) /\ \A g \in Files : FileOK(file[g])
      /\ FilesOK(G)
  BY <1>1, GoodIs DEF Acc
<1>3. /\ q.pc \in Private \ {"main"} /\ q.pc # "open" /\ r.pc \in HasHandle
      /\ r.pc \notin Private /\ r.node = k /\ r.mode = q.mode
  BY <1>1 DEF Opens, Private, HasHandle
<1>4. n \in Nodes
  BY <1>1, <1>2, <1>3, LabelsDiffer DEF FileOK
<1>5. G[f] = r /\ \A g \in Files : g # f => G[g] = file[g]
  BY <1>1, GoodIs, At1Is
<1>6. \A g \in Files \ {f} : file[g].node # n
  BY <1>1, <1>2, <1>3 DEF Own
<1>7. \A j \in Nodes : node[j].main # n
  BY <1>1, <1>2, <1>3 DEF Own
<1>8. \A j \in Nodes :
        /\ M[j].main # None => M[j].main = node[j].main
        /\ M[j].open > 0 => M[j].name = node[j].name /\ (j = k \/ node[j].open > 0)
  <2> SUFFICES ASSUME NEW j \in Nodes
               PROVE  /\ M[j].main # None => M[j].main = node[j].main
                      /\ M[j].open > 0 => M[j].name = node[j].name /\ (j = k \/ node[j].open > 0)
    OBVIOUS
  <2>1. CASE M[j] = FreeNode
    BY <2>1 DEF FreeNode
  <2>2. CASE /\ Alike(node[j], M[j])
             /\ M[j].open = IF j = k THEN node[k].open + 1 ELSE node[j].open
    BY <2>2 DEF Alike
  <2> QED BY <2>1, <2>2 DEF Carried
<1>9. Kin(node) /\ KinFiles(node, file) /\ AllShare(node, file)
  BY DEF Fair
<1>10. ASSUME NEW g \in Files, Creates(file[g])
       PROVE  /\ file[g].node \in Nodes /\ node[file[g].node].main = file[file[g].main].node
              /\ file[g].main \in Files /\ file[file[g].main].pc = "open"
              /\ node[file[file[g].main].node].name = MainName(node[file[g].node].name)
  <2>1. node[file[g].node].main = file[file[g].main].node
    BY <1>9, <1>10 DEF KinFiles
  <2> QED BY <1>10, <2>1, MainOfCreate
<1>11. Kin(M)
  <2> SUFFICES ASSUME NEW i \in Nodes, NEW j \in Nodes, M[i].open > 0, M[j].open > 0,
                      M[i].main = j
               PROVE  M[j].name = MainName(M[i].name)
    BY DEF Kin
  <2>1. /\ node[i].main = j /\ M[i].name = node[i].name /\ M[j].name = node[j].name
        /\ i = k \/ node[i].open > 0
        /\ j = k \/ node[j].open > 0
    BY <1>8, FileNodeAssumption
  <2>2. node[j].open > 0
    BY <1>1, <1>7, <2>1
  <2>3. CASE node[i].open > 0
    BY <1>9, <2>1, <2>2, <2>3 DEF Kin
  <2>4. CASE i = n
    <3>1. IsStream(node[n].name)
      BY <1>2, <1>4, <2>1, <2>4, FileNodeAssumption DEF NodesOK
    <3>2. Creates(q)
      BY <1>1, <1>2, <1>3, <1>4, <3>1 DEF Creates, Named, IsStream
    <3>3. node[n].main = file[q.main].node
          /\ node[file[q.main].node].name = MainName(node[n].name)
      BY <1>1, <1>10, <3>2
    <3> QED BY <2>1, <2>4, <3>3
  <2> QED BY <1>1, <2>1, <2>3, <2>4
<1>12. KinFiles(M, G)
  <2> SUFFICES ASSUME NEW g \in Files, Creates(G[g])
               PROVE  M[G[g].node].main = G[G[g].main].node
    BY DEF KinFiles
  <2>1. g # f
    BY <1>3, <1>5 DEF Creates
  <2>2. G[g] = file[g]
    BY <1>5, <2>1
  <2>3. /\ file[g].node \in Nodes /\ node[file[g].node].main = file[file[g].main].node
        /\ file[g].main \in Files /\ file[file[g].main].pc = "open"
    BY <1>10, <2>2
  <2>4. file[g].main # f
    BY <1>1, <1>3, <2>3
  <2>5. G[file[g].main] = file[file[g].main]
    BY <1>5, <2>3, <2>4
  <2>6. M[G[g].node].main # None
    BY <1>1, MainOfCreate
  <2>7. M[file[g].node].main = node[file[g].node].main
    BY <1>8, <2>2, <2>3, <2>6
  <2> QED BY <2>2, <2>3, <2>5, <2>7
<1>13. \A g \in Files : file[g].pc \in HasHandle => file[g].node \in Nodes
  BY <1>2, LabelsDiffer DEF FileOK
<1>14. ASSUME NEW g \in Files \ {f}, file[g].pc \in HasHandle, NEW s, s = file[g]
       PROVE  /\ k = s.node => ~Conflict(q.mode, s.mode)
              /\ k = node[s.node].main => Spares(q.mode, s.mode)
  <2>1. s.node \in Nodes /\ s.node # n /\ s.pc \in HasHandle
    BY <1>6, <1>13, <1>14
  <2>2. ASSUME k = s.node, Conflict(q.mode, s.mode) PROVE FALSE
    <3>1. HasAccess(s.mode)
      BY <2>2, ConflictIs
    <3>2. g \in SharersAt(file, k)
      BY <1>14, <2>1, <2>2, <3>1 DEF SharersAt, HandlesAt
    <3>3. g \in node[k].share
      BY <1>2, <3>2 DEF Uses
    <3>4. ~Conflict(q.mode, file[g].mode)
      BY <1>1, <2>1, <2>2, <3>3 DEF Allowed
    <3> QED BY <1>14, <2>2, <3>4
  <2>3. ASSUME k = node[s.node].main, ~Spares(q.mode, s.mode) PROVE FALSE
    <3>1. k # n
      BY <1>7, <2>1, <2>3
    <3>2. q.mode.delete /\ ~s.mode.shareDelete /\ HasAccess(s.mode)
      BY <2>3 DEF Spares
    <3>3. g \in DeniersAt(node, file, k)
      BY <1>14, <2>1, <2>3, <3>2 DEF DeniersAt, Denies
    <3>4. IsFiniteSet(DeniersAt(node, file, k))
      <4>1. DeniersAt(node, file, k) \subseteq Files
        BY DEF DeniersAt
      <4> QED BY <4>1, FS_Subset, FileNodeAssumption
    <3>5. PICK c : c = Cardinality(DeniersAt(node, file, k))
      OBVIOUS
    <3>6. c \in Nat /\ c # 0
      BY <3>3, <3>4, <3>5, FS_CardinalityType, FS_EmptySet
    <3>7. node[k].denyStream = c
      BY <1>2, <3>5 DEF Uses
    <3>8. node[k].denyStream > 0
      BY <3>6, <3>7
    <3> QED BY <1>1, <3>1, <3>2, <3>8 DEF Allowed
  <2> QED BY <2>2, <2>3
<1>15. ASSUME NEW g \in Files \ {f}, file[g].pc \in HasHandle, NEW s, s = file[g],
              s.node = node[k].main
       PROVE  Spares(s.mode, q.mode)
  <2> SUFFICES ASSUME ~Spares(s.mode, q.mode) PROVE FALSE
    OBVIOUS
  <2>1. PICK j : j = s.node
    OBVIOUS
  <2>2. j \in Nodes /\ node[j].open > 0
    BY <1>2, <1>13, <1>15, <2>1 DEF Plain, Held
  <2>3. node[n].main = j
    <3>1. CASE k = n
      BY <1>15, <2>1, <3>1
    <3>2. CASE k # n
      <4>1. node[k].open > 0 /\ node[k].name = node[n].name
        BY <1>1, <3>2
      <4>2. PICK N, F : N = node /\ F = file
        OBVIOUS
      <4>3. /\ Good(N, table, F) /\ Fair(N, F) /\ F[f].pc \in Private \ {"main"}
            /\ n = F[f].node /\ N[k].open > 0 /\ N[k].name = N[n].name /\ N[k].main = j
            /\ N[j].open > 0
        BY <1>1, <1>3, <1>15, <2>1, <2>2, <4>1, <4>2
      <4>4. N[n].main = j
        BY <2>2, <4>3, SameMain
      <4> QED BY <4>2, <4>4
    <3> QED BY <3>1, <3>2
  <2>4. s.mode.delete /\ ~q.mode.shareDelete /\ HasAccess(q.mode)
    BY DEF Spares
  <2>5. g \in DeletersAt(file, j)
    BY <1>15, <2>1, <2>4 DEF DeletersAt, HandlesAt
  <2>6. IsFiniteSet(DeletersAt(file, j))
    <3>1. DeletersAt(file, j) \subseteq Files
      BY DEF DeletersAt, HandlesAt
    <3> QED BY <3>1, FS_Subset, FileNodeAssumption
  <2>7. PICK c : c = Cardinality(DeletersAt(file, j))
    OBVIOUS
  <2>8. c \in Nat /\ c # 0
    BY <2>5, <2>6, <2>7, FS_CardinalityType, FS_EmptySet
  <2>9. j # None
    BY <2>2, FileNodeAssumption
  <2>10. node[j].main = None
    BY <1>2, <1>4, <2>3, <2>9 DEF NodesOK
  <2>11. node[j].denyDelete = c
    BY <1>2, <2>2, <2>7, <2>10 DEF Uses
  <2>12. node[j].denyDelete > 0
    BY <2>8, <2>11
  <2> QED BY <1>1, <2>3, <2>4, <2>9, <2>12 DEF Allowed
<1>16. AllShare(M, G)
  <2> SUFFICES ASSUME NEW a \in Files, NEW b \in Files, a # b,
                      G[a].pc \in HasHandle, G[b].pc \in HasHandle
               PROVE  /\ G[a].node = G[b].node => ~Conflict(G[a].mode, G[b].mode)
                      /\ G[a].node = M[G[b].node].main => Spares(G[a].mode, G[b].mode)
    BY DEF AllShare, Shareable
  <2>1. G[a].node \in Nodes /\ G[b].node \in Nodes
    BY <1>2, LabelsDiffer DEF FilesOK, FileOK
  <2>2. G[a].node = M[G[b].node].main => G[a].node = node[G[b].node].main
    BY <1>8, <2>1, FileNodeAssumption
  <2>3. CASE a # f /\ b # f
    <3>1. G[a] = file[a] /\ G[b] = file[b]
      BY <1>5, <2>3
    <3>2. Shareable(node, file[a], file[b])
      BY <1>9 DEF AllShare
    <3> QED BY <2>2, <3>1, <3>2 DEF Shareable
  <2>4. CASE a = f
    <3>1. G[a] = r /\ G[b] = file[b] /\ b \in Files \ {f}
      BY <1>5, <2>4
    <3>2. PICK s : s = file[b]
      OBVIOUS
    <3>3. /\ k = s.node => ~Conflict(q.mode, s.mode)
          /\ k = node[s.node].main => Spares(q.mode, s.mode)
      BY <1>14, <3>1, <3>2
    <3> QED BY <1>3, <2>2, <3>1, <3>2, <3>3
  <2>5. CASE b = f
    <3>1. G[b] = r /\ G[a] = file[a] /\ a \in Files \ {f}
      BY <1>5, <2>5
    <3>2. PICK s : s = file[a]
      OBVIOUS
    <3>3. k = s.node => ~Conflict(s.mode, q.mode)
      BY <1>14, <3>1, <3>2, ConflictIs
    <3>4. s.node = node[k].main => Spares(s.mode, q.mode)
      BY <1>15, <3>1, <3>2
    <3> QED BY <1>3, <2>2, <3>1, <3>2, <3>3, <3>4
  <2> QED BY <2>3, <2>4, <2>5
<1> QED BY <1>1, <1>11, <1>12, <1>16 DEF Fair

LEMMA CreateCompleteGood ==
  ASSUME Good(node, table, file), NEW f \in Files, CreateComplete(f)
  PROVE  Good(node', table', file') /\ Fairly(node, file, node', file')
<1>1. /\ FilesOK(file) /\ file[f] \in FileType /\ FileOK(file[f])
      /\ Whole(node, table, file) /\ Plain(node, file)
  BY GoodIs
<1>2. PICK v : /\ v = Refused \/ \E writable : v = Verdict(f, writable)
               /\ Answering(f) /\ Settled(f, v)
  BY <1>1, CreateCompleteIs
<1>3. PICK n, k : n = file[f].node /\ k = v.node
  OBVIOUS
<1>4. file[f].pc \in Private \ Refusing
  BY <1>2 DEF Answering, Private, Refusing
<1>5. Verdicts(f, v)
  <2>1. CASE v = Refused
    BY <2>1 DEF Verdicts
  <2>2. CASE \E writable : v = Verdict(f, writable)
    BY <1>4, <2>2, VerdictIs
  <2> QED BY <1>2, <2>1, <2>2
<1>6. CASE v.status = "refused"
  <2>1. Becomes(Dereference(State, file[f].node)) /\ Finish(f, PostClose(Finished(f)))
    BY <1>2, <1>6 DEF Settled
  <2>2. Over(PostClose(Finished(f)))
    BY <1>1, OverIs
  <2> QED BY <1>4, <2>1, <2>2, DropStep
<1>7. CASE v.status = "violation"
  <2>1. PICK pc \in {"violation", "refused"} :
          Becomes(Count(State, k)) /\ Finish(f, Violated(f, v, pc))
    BY <1>2, <1>3, <1>7 DEF Settled
  <2>2. v.reason \in Reasons /\ k \in Nodes /\ node[k].open > 0 /\ ~node[k].pending
    BY <1>3, <1>5, <1>7 DEF Verdicts, Refused
  <2>3. PICK r : r = Violated(f, v, pc)
    OBVIOUS
  <2>4. r \in FileType /\ FileOK(r) /\ Refuses(file[f], r, k) /\ r.posix = file[f].posix
    BY <1>1, <1>2, <1>3, <2>2, <2>3, ViolatedIs
  <2>5. PICK M : /\ Count(State, k) = [node |-> M, table |-> table]
                 /\ Good(M, table, At1(file, f, r)) /\ Fairly(node, file, M, At1(file, f, r))
    BY <2>2, <2>4, RefuseGood
  <2>6. node' = M /\ table' = table /\ file' = At1(file, f, r)
    BY <2>1, <2>3, <2>5 DEF Becomes, Finish, At1
  <2> QED BY <2>5, <2>6
<1>8. CASE v.status \notin {"refused", "violation"}
  <2>1. PICK s2 : s2 = CountShare(Count(State, k), k, f, 1)
    OBVIOUS
  <2>2. PICK pc \in {"overwrite", "tryopen"} :
          /\ Becomes(IF k = n THEN [s2 EXCEPT !.table[node[n].name] = n] ELSE Dereference(s2, n))
          /\ Finish(f, Opened(f, v, pc))
    BY <1>2, <1>3, <1>8, <2>1 DEF Settled
  <2>3. \/ k = n /\ table[node[n].name] = None
        \/ k \in Nodes /\ k # n /\ table[node[n].name] = k /\ ~node[k].pending
    BY <1>3, <1>5, <1>8 DEF Verdicts, Refused
  <2>4. n \in Nodes
    BY <1>1, <1>3, <1>4, LabelsDiffer DEF FileOK
  <2>5. PICK r : r = Opened(f, v, pc)
    OBVIOUS
  <2>6. r \in FileType /\ FileOK(r) /\ Opens(file[f], r, k) /\ r.posix = file[f].posix
    BY <1>1, <1>2, <1>3, <2>3, <2>4, <2>5, OpenedIs
  <2>7. s2 = Shared1(node, table, k, f)
    BY <2>1 DEF Shared1, State
  <2>8. file' = At1(file, f, r)
    BY <2>2, <2>5 DEF Finish, At1
  <2>9. Allowed(file[f].mode, file[f].node, k)
    <3>1. v # Refused
      BY <1>8 DEF Refused
    <3>2. PICK writable : v = Verdict(f, writable)
      BY <1>2, <3>1
    <3>3. v.status = "success"
      BY <1>5, <1>8, <3>1 DEF Verdicts
    <3> QED BY <1>1, <1>3, <3>2, <3>3, VerdictAllows
  <2>10. CASE k = n
    <3>1. Opens(file[f], r, n) /\ table[node[n].name] = None
      BY <2>3, <2>6, <2>10
    <3>2. PICK M, U : /\ [Shared1(node, table, n, f) EXCEPT !.table[node[n].name] = n]
                         = [node |-> M, table |-> U]
                      /\ Whole(M, U, At1(file, f, r))
                      /\ Carried(node, M, U, At1(file, f, r), n, node[n].open + 1)
      BY <1>1, <1>3, <2>6, <3>1, InsertKeeps
    <3>3. n = file[f].node /\ node[n].name = node[file[f].node].name
      BY <1>3
    <3>4. Plain(M, At1(file, f, r)) /\ Mains(M, At1(file, f, r))
      BY <2>4, <2>6, <3>1, <3>2, <3>3, OpenPlain
    <3>5. node' = M /\ table' = U
      BY <2>2, <2>7, <2>10, <3>2 DEF Becomes
    <3>6. Good(M, U, At1(file, f, r))
      BY <3>2, <3>4 DEF Good
    <3>7. Allowed(file[f].mode, file[f].node, n)
      BY <2>10, <2>9
    <3>8. Fairly(node, file, M, At1(file, f, r))
      BY <2>4, <3>1, <3>2, <3>3, <3>6, <3>7, OpenFair
    <3> QED BY <2>8, <3>5, <3>6, <3>8
  <2>11. CASE k # n
    <3>1. k \in Nodes /\ table[node[n].name] = k /\ ~node[k].pending
      BY <2>3, <2>11
    <3>2. PICK M : /\ Dereference(Shared1(node, table, k, f), n) = [node |-> M, table |-> table]
                   /\ Whole(M, table, At1(file, f, r))
                   /\ Carried(node, M, table, At1(file, f, r), k, node[k].open + 1)
                   /\ node[k].name = node[n].name /\ node[k].open > 0
      BY <1>1, <1>3, <2>6, <3>1, JoinKeeps
    <3>3. node[k].name = node[file[f].node].name
      BY <1>3, <3>2
    <3>4. Plain(M, At1(file, f, r)) /\ Mains(M, At1(file, f, r))
      BY <2>6, <3>1, <3>2, <3>3, OpenPlain
    <3>5. node' = M /\ table' = table
      BY <2>2, <2>7, <2>11, <3>2 DEF Becomes
    <3>6. Good(M, table, At1(file, f, r))
      BY <3>2, <3>4 DEF Good
    <3>7. Fairly(node, file, M, At1(file, f, r))
      BY <2>6, <2>9, <3>1, <3>2, <3>3, <3>6, OpenFair
    <3> QED BY <2>8, <3>5, <3>6, <3>7
  <2> QED BY <2>10, <2>11
<1> QED BY <1>6, <1>7, <1>8

-----------------------------------------------------------------------------
(* FspFileNodeCleanupComplete.                                             *)

(* While a file is deleted, nobody else has a handle of its node or, when  *)
(* it is a main file, of one of its streams.                               *)
LEMMA DeletedAlone ==
  ASSUME NEW N, NEW T, NEW F, Good(N, T, F), NEW f \in Files, Deleting(F[f]),
         NEW n, n = F[f].node, NEW d \in Nodes,
         d = n \/ (N[n].main = None /\ N[d].name[1] = N[n].name[1] /\ N[d].name # N[n].name),
         NEW g \in Files \ {f}, F[g].node = d, F[g].pc \in HasHandle
  PROVE  FALSE
<1>1. /\ Plain(N, F) /\ Mains(N, F) /\ Named(N, F) /\ Acc(N, T, F, Nothing)
      /\ \A h \in Files : FileOK(F[h])
  BY GoodIs
<1>2. F[f].pc = "cleanup" /\ F[f].pc \in HasHandle /\ n \in Nodes
  BY <1>1, PlainLabels DEF Deleting, FileOK
<1>3. \A h \in Files \ {f} : F[h].pc \in HasHandle => F[h].node # n
  BY <1>1 DEF Plain, LastDeletes, Off
<1>4. N[n].main = None /\ N[d].name[1] = N[n].name[1] /\ N[d].name # N[n].name
  BY <1>3
<1>5. N[n].open > 0 /\ N[d].open > 0
  BY <1>1, <1>2 DEF Plain, Held
<1>6. N[n].name \in Names /\ T[N[n].name] = n /\ N[d].name \in Names
  BY <1>1, <1>2, <1>5, OpenIs
<1>7. N[n].name[2] = NoStream
  BY <1>1, <1>2, <1>4, <1>5 DEF Mains, IsStream
<1>8. N[d].name[2] # NoStream /\ N[n].name = MainName(N[d].name)
  <2>1. \A x \in Names : x = <<x[1], x[2]>>
    BY DEF Names
  <2>2. N[n].name = <<N[n].name[1], N[n].name[2]>> /\ N[d].name = <<N[d].name[1], N[d].name[2]>>
    BY <1>6, <2>1
  <2> QED BY <1>4, <1>7, <2>2 DEF MainName
<1>9. PICK q, h, m : q = F[g] /\ h = q.main /\ m = F[h]
  OBVIOUS
<1>10. IsStream(q.name) /\ q.pc \notin Ended
  BY <1>1, <1>8, <1>9, PlainLabels DEF Named, IsStream
<1>11. h \in Files \ {g} /\ StreamOK(N, q, m)
  BY <1>1, <1>9, <1>10 DEF Plain, StreamsOK, Streamed
<1>12. m.pc = "open" /\ N[m.node].name = N[n].name
  BY <1>8, <1>9, <1>11 DEF StreamOK, Under
<1>13. m.node \in Nodes /\ N[m.node].open > 0
  BY <1>1, <1>9, <1>11, <1>12, PlainLabels DEF FileOK, Plain, Held
<1>14. T[N[m.node].name] = m.node
  BY <1>1, <1>13, OpenIs
<1>15. m.node = n /\ h # f
  BY <1>2, <1>6, <1>9, <1>12, <1>14
<1> QED BY <1>3, <1>9, <1>11, <1>12, <1>15, PlainLabels

LEMMA CleanedGood ==
  ASSUME Good(node, table, file), NEW f \in Files, NEW n, n = file[f].node,
         NEW r, r \in FileType, FileOK(r), Cleaned(file[f], r), ~r.posix, ~r.delete,
         NEW M, NEW U, Whole(M, U, At1(file, f, r)),
         \A k \in Nodes : Alike(node[k], M[k]) /\ (M[k].open > 0 => node[k].open > 0),
         \A g \in Files \ {f} : file[g].pc \in HasHandle => M[file[g].node].open > 0
  PROVE  Good(M, U, At1(file, f, r)) /\ Fairly(node, file, M, At1(file, f, r))
<1>1. PICK q : q = file[f]
  OBVIOUS
<1>2. /\ Plain(node, file) /\ FilesOK(file) /\ Mains(node, file) /\ ~q.posix
      /\ \A g \in Files : FileOK(file[g])
  BY <1>1, GoodIs DEF Plain, NoPosix
<1>3. /\ q.pc = "cleanup" /\ r.pc = "cleaned" /\ r.node = q.node /\ r.extra = q.extra
      /\ r.name = q.name /\ r.mode = q.mode /\ r.main = q.main
  BY <1>1 DEF Cleaned
<1>4. \A k \in Nodes : /\ M[k].name = node[k].name /\ M[k].main = node[k].main
                       /\ M[k].pending = node[k].pending
  BY DEF Alike
<1>5. Undisturbed(node, M, file, f)
  <2> SUFFICES ASSUME NEW g \in Files \ {f}, file[g].pc \notin Ended
               PROVE  Left(node, M, file[g])
    BY DEF Undisturbed
  <2>1. file[g].node \in Nodes
    BY <1>2 DEF FileOK
  <2>2. Deleting(file[g]) => node[file[g].node].pending
    BY <1>2 DEF Plain, LastDeletes
  <2> QED BY <1>4, <2>1, <2>2 DEF Left
<1>6. q.node \in Nodes
  BY <1>1, <1>2, <1>3, PlainLabels DEF FileOK
<1>7. GoesFrom(node, M, q, r)
  BY <1>3, <1>4, <1>6, PlainLabels DEF GoesFrom
<1>8. Goes(q, r)
  BY <1>3, PlainLabels DEF Goes
<1>9. Unneeded(file, f, r) /\ StartsRename(M, file, f, r)
  BY <1>1, <1>3 DEF Unneeded, StartsRename
<1>10. FitsDelete(M, file, f, r)
  BY <1>1, <1>2, <1>3, PlainLabels, OffStays DEF Deleting
<1>11. Plain(M, At1(file, f, r))
  BY <1>1, <1>2, <1>5, <1>7, <1>8, <1>9, <1>10, PlainGoes
<1>12. MayOpen(node, M)
  BY <1>2, <1>4, AlikeOpen
<1>13. r.pc \notin Private
  BY <1>3, LabelsDiffer DEF Private
<1>14. Mains(M, At1(file, f, r))
  BY <1>2, <1>5, <1>12, <1>13, MainsMove
<1>15. Good(M, U, At1(file, f, r))
  BY <1>11, <1>14 DEF Good
<1>16. Keeps(node, M)
  BY <1>4 DEF Keeps
<1>17. Fairly(node, file, M, At1(file, f, r))
  BY <1>3, <1>15, <1>16, GoneRemains, FairAt1
<1> QED BY <1>15, <1>17

LEMMA CleanupDoneGood ==
  ASSUME Good(node, table, file), NEW f \in Files, CleanupDone(f)
  PROVE  Good(node', table', file') /\ Fairly(node, file, node', file')
<1>1. PICK q, n, pc, false : q = file[f] /\ n = q.node /\ pc = "cleaned" /\ false = FALSE
  OBVIOUS
<1>2. /\ q \in FileType /\ FileOK(q) /\ q.pc = "cleanup" /\ Plain(node, file)
      /\ Whole(node, table, file) /\ FilesOK(file) /\ file \in [Files -> FileType]
      /\ Acc(node, table, file, Nothing) /\ \A g \in Files : FileOK(file[g])
  BY <1>1, GoodIs DEF CleanupDone
<1>3. PICK r : r = [q EXCEPT !.pc = pc, !.delete = false, !.posix = false]
  OBVIOUS
<1>4. pc \in FilePCs /\ false \in BOOLEAN
  BY <1>1 DEF FilePCs
<1>5. /\ r \in FileType /\ r.pc = pc /\ r.node = q.node /\ r.extra = q.extra /\ r.name = q.name
      /\ r.mode = q.mode /\ r.main = q.main /\ r.posix = false /\ r.delete = false
  BY <1>2, <1>3, <1>4 DEF FileType
<1>6. FileOK(r)
  BY <1>1, <1>2, <1>5, LabelsDiffer, PlainLabels DEF FileOK
<1>7. Cleaned(q, r)
  BY <1>1, <1>2, <1>5 DEF Cleaned
<1>8. file' = At1(file, f, r)
  BY <1>1, <1>3 DEF CleanupDone, Finish, At1
<1>9. Cleaned(file[f], r) /\ n = file[f].node
  BY <1>1, <1>7
<1>10. /\ n \in Nodes /\ node[n].name \in Names
       /\ \E M : /\ WithoutHandle(node, table, n, f) = [node |-> M, table |-> table]
                 /\ Whole(M, table, At1(file, f, r))
                 /\ \A k \in Nodes : Alike(node[k], M[k]) /\ M[k].open = node[k].open
  BY <1>2, <1>5, <1>6, <1>9, CleanedKeeps
<1>11. PICK M : /\ WithoutHandle(node, table, n, f) = [node |-> M, table |-> table]
                /\ Whole(M, table, At1(file, f, r))
                /\ \A k \in Nodes : Alike(node[k], M[k]) /\ M[k].open = node[k].open
  BY <1>10
<1>12. PICK s : s = [node |-> M, table |-> table]
  OBVIOUS
<1>13. Becomes(IF q.delete THEN Deleted(s, n) ELSE s)
  BY <1>1, <1>11, <1>12 DEF CleanupDone, WithoutHandle, State
<1>14. ~r.posix /\ ~r.delete
  BY <1>1, <1>5
<1>15. \A g \in Files \ {f} : file[g].pc \in HasHandle =>
         file[g].node \in Nodes /\ M[file[g].node].open > 0
  <2>1. \A g \in Files : file[g].pc \in HasHandle => file[g].node \in Nodes
    BY <1>2, PlainLabels DEF FileOK
  <2> QED BY <1>2, <1>11, <2>1 DEF Plain, Held
<1>16. CASE ~q.delete
  <2>1. Good(M, table, At1(file, f, r)) /\ Fairly(node, file, M, At1(file, f, r))
    <3>1. \A k \in Nodes : Alike(node[k], M[k]) /\ (M[k].open > 0 => node[k].open > 0)
      BY <1>11
    <3> QED BY <1>5, <1>6, <1>9, <1>11, <1>14, <1>15, <3>1, CleanedGood
  <2>2. node' = M /\ table' = table
    BY <1>12, <1>13, <1>16 DEF Becomes
  <2> QED BY <1>8, <2>1, <2>2
<1>17. CASE q.delete
  <2>1. node[n].open > 0
    BY <1>1, <1>2, PlainLabels DEF Plain, Held
  <2>2. table[node[n].name] = n
    BY <1>2, <1>10, <2>1, OpenIs
  <2>3. M[n].name = node[n].name /\ M[n].main = node[n].main
    BY <1>10, <1>11 DEF Alike
  <2>4. M[n].name \in Names /\ table[M[n].name] \in {n, None}
    BY <1>10, <2>2, <2>3
  <2>5. PICK D : /\ Deleted([node |-> M, table |-> table], n)
                    = [node |-> Untabled(M, D), table |-> TableWithout(M, table, D)]
                 /\ Tabled(M, table, D)
                 /\ \A d \in D : d = n \/ (M[n].main = None /\ M[d].name[1] = M[n].name[1]
                                           /\ M[d].name # M[n].name)
    BY <1>10, <1>11, <2>4, DeletedIs
  <2>6. PICK W, V : W = Untabled(M, D) /\ V = TableWithout(M, table, D)
    OBVIOUS
  <2>7. Whole(W, V, At1(file, f, r))
    BY <1>11, <2>5, <2>6, UntableKeeps
  <2>8. M \in [Nodes -> NodeType] /\ D \subseteq Nodes
    BY <1>11, <2>5 DEF Whole, Acc, NodesOK, Tabled
  <2>9. ASSUME NEW k \in Nodes
        PROVE  /\ Alike(M[k], W[k]) /\ (W[k].open > 0 => M[k].open > 0)
               /\ (k \notin D => W[k] = M[k])
    <3>1. PICK p, o : p = W[k] /\ o = M[k]
      OBVIOUS
    <3>2. /\ Alike(M[k], Untabled(M, D)[k])
          /\ Untabled(M, D)[k].open = IF k \in D THEN 0 ELSE M[k].open
          /\ k \notin D => Untabled(M, D)[k] = M[k]
      BY <2>8, UntabledIs
    <3>4. Alike(o, p) /\ p.open = (IF k \in D THEN 0 ELSE o.open) /\ (k \notin D => p = o)
      BY <2>6, <3>1, <3>2
    <3>3. p.open > 0 => o.open > 0
      BY <3>4
    <3> QED BY <3>1, <3>3, <3>4
  <2>10. \A k \in Nodes : Alike(node[k], W[k]) /\ (W[k].open > 0 => node[k].open > 0)
    BY <1>11, <2>9 DEF Alike
  <2>11. ASSUME NEW g \in Files \ {f}, file[g].pc \in HasHandle
         PROVE  W[file[g].node].open > 0
    <3>1. PICK d : d = file[g].node
      OBVIOUS
    <3>2. d \in Nodes /\ M[d].open > 0
      BY <1>15, <2>11, <3>1
    <3>3. d \notin D
      <4> SUFFICES ASSUME d \in D PROVE FALSE
        OBVIOUS
      <4>1. M[d].name = node[d].name
        BY <1>11, <3>2 DEF Alike
      <4>2. d = n \/ (node[n].main = None /\ node[d].name[1] = node[n].name[1]
                      /\ node[d].name # node[n].name)
        BY <2>3, <2>5, <4>1
      <4>3. Deleting(file[f])
        BY <1>1, <1>2, <1>17 DEF Deleting
      <4>4. PICK G : G = file
        OBVIOUS
      <4>5. /\ Good(node, table, G) /\ Deleting(G[f]) /\ n = G[f].node
            /\ G[g].node = d /\ G[g].pc \in HasHandle
        BY <1>1, <2>11, <3>1, <4>3, <4>4
      <4> QED BY <1>10, <3>2, <4>2, <4>5, DeletedAlone
    <3> QED BY <2>9, <3>1, <3>2, <3>3
  <2>12. Good(W, V, At1(file, f, r)) /\ Fairly(node, file, W, At1(file, f, r))
    BY <1>5, <1>6, <1>9, <1>14, <2>7, <2>10, <2>11, CleanedGood
  <2>13. node' = W /\ table' = V
    BY <1>12, <1>13, <1>17, <2>5, <2>6 DEF Becomes
  <2> QED BY <1>8, <2>12, <2>13
<1> QED BY <1>16, <1>17

-----------------------------------------------------------------------------
(* FspFileNodeRename: the handles and their main files move together.      *)
LEMMA RelocatedPlain ==
  ASSUME NEW N, NEW T, NEW F, Good(N, T, F), NEW from \in FileNames, NEW to \in FileNames,
         NEW M, \A k \in Nodes : Relocated(N[k], M[k], from, to),
         \A g \in Files : F[g].pc # "rename" /\ Away(N, F[g], to)
  PROVE  Plain(M, F) /\ Mains(M, F)
<1>1. /\ Plain(N, F) /\ Mains(N, F) /\ \A g \in Files : FileOK(F[g])
      /\ Acc(N, T, F, Nothing)
  BY GoodIs
<1>2. \A k \in Nodes :
        /\ M[k].main = N[k].main /\ M[k].pending = N[k].pending
        /\ M[k].name = IF N[k].open > 0 /\ N[k].name[1] = from
                         THEN <<to, N[k].name[2]>> ELSE N[k].name
        /\ N[k].name[1] # to => M[k].open = N[k].open
        /\ M[k].open > 0 => N[k].open > 0
  BY DEF Relocated
<1>3. \A g \in Files : F[g].pc \in HasHandle =>
        LET k == F[g].node
        IN k \in Nodes /\ N[k].open > 0 /\ M[k].open > 0
  <2> SUFFICES ASSUME NEW g \in Files, F[g].pc \in HasHandle, NEW k, k = F[g].node
               PROVE  k \in Nodes /\ N[k].open > 0 /\ M[k].open > 0
    OBVIOUS
  <2>1. k \in Nodes /\ N[k].open > 0
    BY <1>1, PlainLabels DEF FileOK, Plain, Held
  <2>2. N[k].name[1] # to
    BY DEF Away
  <2> QED BY <1>2, <2>1, <2>2
<1>4. Held(M, F)
  BY <1>3 DEF Held
<1>5. LastDeletes(M, F)
  <2> SUFFICES ASSUME NEW g \in Files, Deleting(F[g])
               PROVE  /\ M[F[g].node].pending
                      /\ \A h \in Files \ {g} : Off(F[h], F[g].node)
    BY DEF LastDeletes
  <2>1. F[g].node \in Nodes
    BY <1>1, PlainLabels DEF FileOK, Deleting
  <2> QED BY <1>1, <1>2, <2>1 DEF Plain, LastDeletes
<1>6. Renaming(M, F)
  BY DEF Renaming
<1>7. StreamsOK(M, F)
  <2> SUFFICES ASSUME NEW g \in Files, Streamed(F[g])
               PROVE  F[g].main \in Files \ {g} /\ StreamOK(M, F[g], F[F[g].main])
    BY DEF StreamsOK
  <2>1. PICK q, h, m : q = F[g] /\ h = q.main /\ m = F[h]
    OBVIOUS
  <2>2. h \in Files \ {g} /\ StreamOK(N, q, m)
    BY <1>1, <2>1 DEF Plain, StreamsOK
  <2>3. q.pc \notin Creating
    BY <2>1 DEF Away
  <2>4. ASSUME q.pc \in HasHandle PROVE m.pc = "open" /\ Under(M, q, m)
    <3>1. m.pc = "open" /\ N[m.node].name = MainName(N[q.node].name)
      BY <2>2, <2>4 DEF StreamOK, Under
    <3>2. PICK j, k : j = q.node /\ k = m.node
      OBVIOUS
    <3>3. j \in Nodes /\ k \in Nodes /\ N[j].open > 0 /\ N[k].open > 0
      BY <1>3, <2>1, <2>2, <2>4, <3>1, <3>2, PlainLabels
    <3>4. N[k].name = <<N[j].name[1], NoStream>>
      BY <3>1, <3>2 DEF MainName
    <3>5. N[k].name[1] = N[j].name[1] /\ N[k].name[2] = NoStream
      BY <3>4
    <3>6. CASE N[j].name[1] = from
      <4>1. M[j].name = <<to, N[j].name[2]>> /\ M[k].name = <<to, NoStream>>
        BY <1>2, <3>3, <3>5, <3>6
      <4>2. M[j].name[1] = to
        BY <4>1
      <4> QED BY <3>1, <3>2, <4>1, <4>2 DEF Under, MainName
    <3>7. CASE N[j].name[1] # from
      <4>1. M[j].name = N[j].name /\ M[k].name = N[k].name
        BY <1>2, <3>3, <3>5, <3>7
      <4> QED BY <3>1, <3>2, <4>1 DEF Under
    <3> QED BY <3>6, <3>7
  <2>5. StreamOK(M, q, m)
    BY <2>2, <2>3, <2>4, PlainLabels DEF StreamOK
  <2> QED BY <2>1, <2>2, <2>5
<1>8. NoPosix(F)
  BY <1>1 DEF Plain
<1>9. Mains(M, F)
  <2>1. ASSUME NEW k \in Nodes, M[k].open > 0, IsStream(M[k].name) PROVE M[k].main # None
    <3>1. N[k].open > 0
      BY <1>2, <2>1
    <3>3. M[k].name = <<to, N[k].name[2]>> \/ M[k].name = N[k].name
      BY <1>2
    <3>2. M[k].name[2] = N[k].name[2]
      BY <3>3
    <3> QED BY <1>1, <1>2, <2>1, <3>1, <3>2 DEF Mains, IsStream
  <2>2. \A g \in Files : F[g].pc \notin Private
    BY DEF Away, Creating, Private
  <2> QED BY <2>1, <2>2 DEF Mains
<1> QED BY <1>4, <1>5, <1>6, <1>7, <1>8, <1>9 DEF Plain

LEMMA RelocatedFair ==
  ASSUME NEW N, NEW F, NEW from, NEW to, NEW M,
         \A k \in Nodes : Relocated(N[k], M[k], from, to),
         \A g \in Files : F[g].pc \notin Creating,
         \A g \in Files : F[g].pc \in HasHandle => F[g].node \in Nodes
  PROVE  Fairly(N, F, M, F)
<1> SUFFICES ASSUME Fair(N, F) PROVE Fair(M, F)
  BY DEF Fairly
<1>1. Kin(N) /\ AllShare(N, F)
  BY DEF Fair
<1>2. \A k \in Nodes :
        /\ M[k].main = N[k].main /\ (M[k].open > 0 => N[k].open > 0)
        /\ M[k].name = IF N[k].open > 0 /\ N[k].name[1] = from
                         THEN <<to, N[k].name[2]>> ELSE N[k].name
  BY DEF Relocated
<1>3. Kin(M)
  <2> SUFFICES ASSUME NEW n \in Nodes, NEW k \in Nodes, M[n].open > 0, M[k].open > 0,
                      M[n].main = k
               PROVE  M[k].name = MainName(M[n].name)
    BY DEF Kin
  <2>1. N[n].open > 0 /\ N[k].open > 0 /\ N[n].main = k
    BY <1>2
  <2>2. N[k].name = <<N[n].name[1], NoStream>>
    BY <1>1, <2>1 DEF Kin, MainName
  <2>3. N[k].name[1] = N[n].name[1] /\ N[k].name[2] = NoStream
    BY <2>2
  <2>4. CASE N[n].name[1] = from
    <3>1. M[n].name = <<to, N[n].name[2]>> /\ M[k].name = <<to, NoStream>>
      BY <1>2, <2>1, <2>3, <2>4
    <3>2. M[n].name[1] = to
      BY <3>1
    <3> QED BY <3>1, <3>2 DEF MainName
  <2>5. CASE N[n].name[1] # from
    <3>1. M[n].name = N[n].name /\ M[k].name = N[k].name
      BY <1>2, <2>1, <2>3, <2>5
    <3> QED BY <2>2, <3>1 DEF MainName
  <2> QED BY <2>4, <2>5
<1>4. KinFiles(M, F)
  BY DEF KinFiles, Creates, Private, Creating
<1>5. AllShare(M, F)
  <2> SUFFICES ASSUME NEW f \in Files, NEW g \in Files, f # g PROVE Shareable(M, F[f], F[g])
    BY DEF AllShare
  <2>1. Shareable(N, F[f], F[g])
    BY <1>1 DEF AllShare
  <2>2. F[g].pc \in HasHandle => M[F[g].node].main = N[F[g].node].main
    BY <1>2
  <2> QED BY <2>1, <2>2 DEF Shareable
<1> QED BY <1>3, <1>4, <1>5 DEF Fair

LEMMA RenameDoneGood ==
  ASSUME Good(node, table, file), NEW f \in Files, RenameDone(f)
  PROVE  Good(node', table', file') /\ Fairly(node, file, node', file')
<1>1. PICK q, n, pc : q = file[f] /\ n = q.node /\ pc = "open"
  OBVIOUS
<1>2. PICK from, to : from = node[n].name[1] /\ to = q.to
  OBVIOUS
<1>3. /\ q \in FileType /\ FileOK(q) /\ q.pc = "rename" /\ Plain(node, file)
      /\ FilesOK(file) /\ file \in [Files -> FileType] /\ Named(node, file)
      /\ node \in [Nodes -> NodeType] /\ ~q.posix
  BY <1>1, GoodIs DEF RenameDone, Plain, NoPosix
<1>4. n \in Nodes /\ node[n].name \in Names
  BY <1>1, <1>3, FileUses, PlainLabels
<1>5. /\ from \in FileNames /\ to \in FileNames /\ from # to
      /\ \A g \in Files : file[g].pc = "rename" => g = f
  <2>1. from \in FileNames
    BY <1>2, <1>4 DEF Names
  <2> QED BY <1>1, <1>2, <1>3, <1>4, <2>1 DEF Named
<1>6. PICK r : r = [q EXCEPT !.pc = pc, !.to = None]
  OBVIOUS
<1>7. pc \in FilePCs
  BY <1>1 DEF FilePCs, HasHandle
<1>8. /\ r \in FileType /\ r.pc = pc /\ r.node = q.node /\ r.extra = q.extra
      /\ r.name = q.name /\ r.mode = q.mode /\ r.main = q.main /\ r.posix = q.posix
  BY <1>3, <1>6, <1>7 DEF FileType
<1>9. Quiet(q, r)
  BY <1>1, <1>3, <1>8 DEF Quiet, Deleting, Ended, Creating, HasHandle, Private, Refusing
<1>10. PICK G : G = At1(file, f, r)
  OBVIOUS
<1>11. G[f] = r /\ \A g \in Files : g # f => G[g] = file[g]
  BY <1>3, <1>10, At1Is
<1>12. Good(node, table, G) /\ Fairly(node, file, node, G)
  <2>1. \A k \in Nodes : Marked(node[k], node[k])
    BY DEF Marked
  <2>2. \A g \in Files \ {f} : Deleting(file[g]) => node[file[g].node].pending
    BY <1>3 DEF Plain, LastDeletes
  <2>3. Quiet(file[f], r)
    BY <1>1, <1>9
  <2> QED BY <1>3, <1>10, <2>1, <2>2, <2>3, QuietGood
<1>13. \A g \in Files : G[g].pc # "rename" /\ Away(node, G[g], to)
  <2>1. \A g \in Files : Away(node, file[g], to)
    BY <1>1, <1>2, <1>3 DEF Plain, Renaming
  <2>2. Away(node, r, to)
    BY <1>1, <1>3, <1>8, <2>1, PlainLabels DEF Away
  <2> QED BY <1>1, <1>5, <1>8, <1>11, <2>1, <2>2
<1>14. Whole(node, table, G) /\ \A g \in Files : G[g].pc # "rename"
  BY <1>12, <1>13, GoodIs
<1>15. PICK M, U : /\ Renamed(from, to) = [node |-> M, table |-> U]
                   /\ Whole(M, U, G)
                   /\ \A k \in Nodes : Relocated(node[k], M[k], from, to)
  BY <1>5, <1>14, RenamedKeeps
<1>16. Plain(M, G) /\ Mains(M, G)
  BY <1>5, <1>12, <1>13, <1>15, RelocatedPlain
<1>17. node' = M /\ table' = U
  BY <1>1, <1>2, <1>15 DEF RenameDone, Becomes
<1>18. file' = G
  BY <1>1, <1>6, <1>10 DEF RenameDone, Finish, At1
<1>19. Fairly(node, G, M, G)
  <2>1. \A g \in Files : G[g].pc \notin Creating
    BY <1>13 DEF Away
  <2>2. \A g \in Files : G[g].pc \in HasHandle => G[g].node \in Nodes
    BY <1>12, GoodIs, LabelsDiffer DEF FileOK
  <2> QED BY <1>15, <2>1, <2>2, RelocatedFair
<1>20. Fairly(node, file, M, G)
  BY <1>12, <1>19 DEF Fairly
<1> QED BY <1>15, <1>16, <1>17, <1>18, <1>20 DEF Good

-----------------------------------------------------------------------------
(* The main file of a stream is open: the node of the stream refers to the *)
(* node of the main file.                                                  *)
LEMMA MainIs ==
  ASSUME NEW N, NEW T, NEW F, Good(N, T, F), NEW f \in Files, F[f].pc = "main",
         NEW n, n = F[f].node, NEW g, g = F[f].main, F[g].pc = "open", NEW k, k = F[g].node
  PROVE  /\ g \in Files \ {f} /\ n \in Nodes /\ k \in Nodes /\ n # k
         /\ N[n].main = None /\ IsStream(N[n].name) /\ ~(N[n].open > 0)
         /\ N[k].main = None /\ N[k].refs # 0
         /\ \A h \in Files : F[h].pc \in Private => F[h].node # k
         /\ \A h \in Files \ {f} : F[h].node # n
         /\ ~F[g].mode.delete /\ N[k].name = MainName(N[n].name)
<1>1. PICK q, m : q = F[f] /\ m = F[g]
  OBVIOUS
<1>2. /\ Plain(N, F) /\ Named(N, F) /\ Own(N, T, F) /\ NodesOK(N) /\ FileOK(q)
      /\ Acc(N, T, F, Nothing)
  BY <1>1, GoodIs
<1>3. q.pc = "main" /\ q.pc \in Private /\ q.pc \notin Ended /\ IsStream(q.name)
  BY <1>1, <1>2 DEF FileOK, Private, Ended
<1>4. g \in Files \ {f} /\ StreamOK(N, q, m)
  BY <1>1, <1>2, <1>3 DEF Plain, StreamsOK, Streamed
<1>5. n \in Nodes /\ N[n].refs # 0 /\ N[n].name \in Names
  BY <1>1, <1>3, FileUses
<1>6. k \in Nodes /\ N[k].refs # 0
  BY <1>4, FileUses, PlainLabels
<1>7. /\ N[n].main = None /\ ~m.mode.delete /\ N[k].name = MainName(N[n].name)
  BY <1>1, <1>3, <1>4, PlainLabels DEF StreamOK, Under
<1>8. IsStream(N[n].name)
  BY <1>1, <1>2, <1>3, <1>5 DEF Named, IsStream
<1>9. ~IsStream(N[k].name)
  BY <1>7 DEF MainName, IsStream
<1>10. N[k].main = None
  BY <1>2, <1>6, <1>9 DEF NodesOK
<1>11. \A h \in Files : F[h].pc \in Private =>
         (\A j \in Files : j # h => F[j].node # F[h].node) /\ (\A x \in Names : T[x] # F[h].node)
  BY <1>2 DEF Own
<1>12. \A h \in Files : F[h].pc \in Private => F[h].node # k
  BY <1>1, <1>4, <1>11, LabelsDiffer, PlainLabels
<1>13. \A h \in Files \ {f} : F[h].node # n
  BY <1>1, <1>3, <1>11
<1>14. ~(N[n].open > 0)
  BY <1>1, <1>2, <1>3, <1>5, <1>11, OpenIs
<1> QED BY <1>1, <1>3, <1>4, <1>5, <1>6, <1>7, <1>8, <1>10, <1>12, <1>13, <1>14

LEMMA LinkedNode ==
  ASSUME NEW N, N \in [Nodes -> NodeType], NEW n \in Nodes, NEW k \in Nodes, n # k,
         NEW j \in Nodes, NEW p, p = Linked(N, n, k)[j]
  PROVE  /\ p.name = N[j].name /\ p.open = N[j].open /\ p.pending = N[j].pending
         /\ p.main = IF j = n THEN k ELSE N[j].main
<1>1. PICK a, b, refs : a = N[n] /\ b = N[k] /\ refs = b.refs + 1
  OBVIOUS
<1>2. a \in NodeType /\ b \in NodeType
  BY <1>1
<1>3. CASE j = n
  <2>1. p = [a EXCEPT !.main = k]
    BY <1>1, <1>3 DEF Linked
  <2> QED BY <1>1, <1>2, <1>3, <2>1 DEF NodeType
<1>4. CASE j = k
  <2>1. p = [b EXCEPT !.refs = refs]
    BY <1>1, <1>2, <1>4 DEF Linked, NodeType
  <2> QED BY <1>1, <1>2, <1>4, <2>1 DEF NodeType
<1>5. CASE j # n /\ j # k
  BY <1>5 DEF Linked
<1> QED BY <1>3, <1>4, <1>5

Linking(N, F, f, n, k) ==
  /\ F[f].pc \in Private /\ n = F[f].node /\ N[n].main = None /\ IsStream(N[n].name)
  /\ N[k].main = None /\ N[k].refs # 0
  /\ \A g \in Files : F[g].pc \in Private => F[g].node # k

LEMMA LinkWhole ==
  ASSUME NEW N, NEW T, NEW F, Whole(N, T, F), NEW f \in Files, NEW n, NEW k \in Nodes,
         Linking(N, F, f, n, k)
  PROVE  Whole(Linked(N, n, k), T, F)
<1>1. /\ F[f].pc \in Private /\ n = F[f].node /\ N[n].main = None /\ IsStream(N[n].name)
      /\ N[k].main = None /\ N[k].refs # 0
      /\ \A g \in Files : F[g].pc \in Private => F[g].node # k
  BY DEF Linking
<1> QED BY <1>1, LinkKeeps

LEMMA LinksGood ==
  ASSUME NEW N, NEW T, NEW F, Good(N, T, F), NEW f \in Files, F[f].pc = "main",
         NEW n, n = F[f].node, NEW g, g = F[f].main, F[g].pc = "open", NEW k, k = F[g].node,
         NEW pc, pc = "create", NEW r, r = [F[f] EXCEPT !.pc = pc]
  PROVE  /\ Good(Linked(N, n, k), T, At1(F, f, r))
         /\ Fairly(N, F, Linked(N, n, k), At1(F, f, r))
<1>1. PICK q, m, G : q = F[f] /\ m = F[g] /\ G = At1(F, f, r)
  OBVIOUS
<1>2. /\ g \in Files \ {f} /\ n \in Nodes /\ k \in Nodes /\ n # k
      /\ N[n].main = None /\ IsStream(N[n].name) /\ ~(N[n].open > 0)
      /\ N[k].main = None /\ N[k].refs # 0
      /\ \A h \in Files : F[h].pc \in Private => F[h].node # k
      /\ \A h \in Files \ {f} : F[h].node # n
      /\ ~m.mode.delete /\ N[k].name = MainName(N[n].name)
  BY <1>1, MainIs
<1>3. /\ Whole(N, T, F) /\ Plain(N, F) /\ Mains(N, F) /\ FilesOK(F) /\ F \in [Files -> FileType]
      /\ q \in FileType /\ FileOK(q) /\ ~q.posix /\ N \in [Nodes -> NodeType]
      /\ \A h \in Files : FileOK(F[h])
  BY <1>1, GoodIs DEF Plain, NoPosix
<1>5. pc \in FilePCs /\ r = [q EXCEPT !.pc = pc]
  BY <1>1 DEF FilePCs, Private
<1>6. /\ r \in FileType /\ r.pc = pc /\ r.node = q.node /\ r.extra = q.extra
      /\ r.name = q.name /\ r.mode = q.mode /\ r.main = q.main /\ r.posix = q.posix
  <2>1. q \in FileType
    BY <1>3
  <2> QED BY <1>5, <2>1 DEF FileType
<1>7. q.pc = "main" /\ q.pc \in Private /\ q.pc \notin Ended /\ q.pc \notin HasHandle
      /\ q.pc \notin Refusing
  BY <1>1 DEF Private, Ended, HasHandle, Refusing
<1>8. /\ r.pc = "create" /\ r.pc \in Private /\ r.pc \notin Ended /\ r.pc \notin HasHandle
      /\ r.pc \notin Refusing /\ r.pc # "main"
  BY <1>6 DEF Private, Ended, HasHandle, Refusing
<1>9. FileOK(r)
  BY <1>3, <1>6, <1>7, <1>8 DEF FileOK
<1>10. Holds(q, r)
  <2>1. q.pc \in HasHandle <=> r.pc \in HasHandle
    BY <1>7, <1>8
  <2>2. q.pc \in Private <=> r.pc \in Private
    BY <1>7, <1>8
  <2> QED BY <1>6, <1>7, <1>8, <2>1, <2>2 DEF Holds
<1>11. Whole(N, T, G)
  <2>1. RenameNamed(N, F, f, r)
    BY <1>8 DEF RenameNamed
  <2>2. \A j \in Nodes : Marked(N[j], N[j])
    BY DEF Marked
  <2>3. Holds(F[f], r)
    BY <1>1, <1>10
  <2> QED BY <1>1, <1>3, <1>6, <1>8, <1>9, <2>1, <2>2, <2>3, MarkKeeps
<1>12. G[f] = r /\ \A h \in Files : h # f => G[h] = F[h]
  BY <1>1, <1>3, At1Is
<1>13. PICK M : M = Linked(N, n, k)
  OBVIOUS
<1>14. Whole(M, T, G)
  <2>1. n = G[f].node /\ G[f].pc \in Private
    BY <1>1, <1>6, <1>8, <1>12
  <2>2. ASSUME NEW h \in Files, G[h].pc \in Private PROVE G[h].node # k
    <3>1. CASE h = f
      BY <1>2, <2>1, <3>1
    <3>2. CASE h # f
      <4>1. G[h] = F[h]
        BY <1>12, <3>2
      <4> QED BY <1>2, <2>2, <4>1
    <3> QED BY <3>1, <3>2
  <2>3. /\ N[n].main = None /\ IsStream(N[n].name) /\ N[k].main = None /\ N[k].refs # 0
        /\ k \in Nodes
    BY <1>2
  <2>4. Whole(Linked(N, n, k), T, G)
    <3>1. Linking(N, G, f, n, k)
      BY <2>1, <2>2, <2>3 DEF Linking
    <3> QED BY <1>11, <2>3, <3>1, LinkWhole
  <2> QED BY <1>13, <2>4
<1>15. \A j \in Nodes :
         /\ M[j].name = N[j].name /\ M[j].open = N[j].open /\ M[j].pending = N[j].pending
         /\ M[j].main = IF j = n THEN k ELSE N[j].main
  <2> SUFFICES ASSUME NEW j \in Nodes
               PROVE  /\ M[j].name = N[j].name /\ M[j].open = N[j].open
                      /\ M[j].pending = N[j].pending
                      /\ M[j].main = IF j = n THEN k ELSE N[j].main
    OBVIOUS
  <2>1. PICK p : p = Linked(N, n, k)[j]
    OBVIOUS
  <2>2. /\ p.name = N[j].name /\ p.open = N[j].open /\ p.pending = N[j].pending
        /\ p.main = IF j = n THEN k ELSE N[j].main
    BY <1>2, <1>3, <2>1, LinkedNode
  <2> QED BY <1>13, <2>1, <2>2
<1>16. Undisturbed(N, M, F, f)
  <2> SUFFICES ASSUME NEW h \in Files \ {f}, F[h].pc \notin Ended
               PROVE  Left(N, M, F[h])
    BY DEF Undisturbed
  <2>1. F[h].node \in Nodes /\ F[h].node # n
    BY <1>2, <1>3 DEF FileOK
  <2>2. F[h].pc \in HasHandle => N[F[h].node].open > 0
    BY <1>3 DEF Plain, Held
  <2>3. Deleting(F[h]) => N[F[h].node].pending
    BY <1>3 DEF Plain, LastDeletes
  <2> QED BY <1>15, <2>1, <2>2, <2>3 DEF Left
<1>17. FitsHandle(M, r)
  BY <1>3, <1>6, <1>8 DEF FitsHandle
<1>18. FitsDelete(M, F, f, r)
  BY <1>1, <1>3, <1>6, <1>8, OffStays DEF Deleting
<1>19. FitsRename(M, F, f, r)
  <2>1. \A h \in Files : F[h].pc # "rename"
    BY <1>1, <1>3, <1>7, PlainLabels DEF Plain, Renaming, Away
  <2> QED BY <1>8, <2>1 DEF FitsRename
<1>20. FitsStream(M, F, f, r)
  <2>1. StreamOK(N, q, m) /\ g = q.main
    BY <1>1, <1>3, <1>7 DEF Plain, StreamsOK, Streamed, FileOK
  <2>2. Under(M, r, m)
    <3>1. M[k].name = N[k].name /\ M[n].name = N[n].name
      BY <1>2, <1>15
    <3> QED BY <1>1, <1>2, <1>6, <3>1 DEF Under
  <2>3. StreamOK(M, r, m)
    BY <1>1, <1>2, <1>8, <2>2, PlainLabels DEF StreamOK
  <2>4. ASSUME NEW h \in Files \ {f}, Streamed(F[h]), F[h].main = f
        PROVE  StreamOK(M, F[h], r)
    <3>1. PICK p : p = F[h]
      OBVIOUS
    <3>2. StreamOK(N, p, q)
      BY <1>1, <1>3, <2>4, <3>1 DEF Plain, StreamsOK
    <3>3. p.node \in Nodes /\ p.node # n /\ q.node = n
      BY <1>1, <1>2, <1>3, <2>4, <3>1 DEF Streamed, FileOK
    <3>4. M[p.node].main = N[p.node].main /\ M[p.node].name = N[p.node].name
          /\ M[n].name = N[n].name
      BY <1>2, <1>15, <3>3
    <3>5. Under(N, p, q) => Under(M, p, r)
      BY <1>6, <3>3, <3>4 DEF Under
    <3> QED BY <1>6, <1>7, <1>8, <3>1, <3>2, <3>4, <3>5, PlainLabels DEF StreamOK
  <2> QED BY <1>1, <1>2, <1>6, <2>1, <2>3, <2>4 DEF FitsStream
<1>21. Plain(M, G)
  BY <1>1, <1>3, <1>16, <1>17, <1>18, <1>19, <1>20, PlainMoves DEF Fits
<1>22. MayOpen(N, M)
  <2>1. \A j \in Nodes : M[j].open > 0 => j # n /\ N[j].open > 0
    BY <1>2, <1>15
  <2> QED BY <1>3, <1>15, <2>1 DEF MayOpen, Mains
<1>23. M[r.node].main # None
  BY <1>1, <1>2, <1>6, <1>15, FileNodeAssumption
<1>24. Mains(M, G)
  BY <1>1, <1>3, <1>16, <1>22, <1>23, MainsMove
<1>25. ASSUME Fair(N, F) PROVE Fair(M, G)
  <2>1. Kin(N) /\ KinFiles(N, F) /\ AllShare(N, F)
    BY <1>25 DEF Fair
  <2>2. Kin(M)
    <3> SUFFICES ASSUME NEW i \in Nodes, NEW j \in Nodes, M[i].open > 0, M[j].open > 0,
                        M[i].main = j
                 PROVE  M[j].name = MainName(M[i].name)
      BY DEF Kin
    <3>1. /\ N[i].open > 0 /\ N[j].open > 0 /\ i # n
          /\ M[i].name = N[i].name /\ M[j].name = N[j].name
      BY <1>2, <1>15
    <3>2. N[i].main = j
      BY <1>15, <3>1
    <3> QED BY <2>1, <3>1, <3>2 DEF Kin
  <2>3. KinFiles(M, G)
    <3> SUFFICES ASSUME NEW h \in Files, Creates(G[h])
                 PROVE  M[G[h].node].main = G[G[h].main].node
      BY DEF KinFiles
    <3>1. CASE h = f
      <4>1. G[h].node = n /\ G[h].main = g
        BY <1>1, <1>6, <1>12, <3>1
      <4>2. G[g].node = k
        BY <1>2, <1>12
      <4> QED BY <1>2, <1>15, <4>1, <4>2
    <3>2. CASE h # f
      <4>1. G[h] = F[h] /\ Creates(F[h])
        BY <1>12, <3>2
      <4>2. F[h].node \in Nodes /\ F[h].main \in Files /\ F[F[h].main].pc = "open"
        BY <4>1, MainOfCreate
      <4>3. F[h].node # n /\ F[h].main # f
        BY <1>1, <1>2, <1>7, <3>2, <4>2, PlainLabels
      <4>4. M[F[h].node].main = N[F[h].node].main /\ G[F[h].main] = F[F[h].main]
        BY <1>12, <1>15, <4>2, <4>3
      <4>5. N[F[h].node].main = F[F[h].main].node
        BY <2>1, <4>1 DEF KinFiles
      <4> QED BY <4>1, <4>4, <4>5
    <3> QED BY <3>1, <3>2
  <2>4. AllShare(M, G)
    <3> SUFFICES ASSUME NEW i \in Files, NEW j \in Files, i # j,
                        G[i].pc \in HasHandle, G[j].pc \in HasHandle
                 PROVE  Shareable(M, G[i], G[j])
      BY DEF AllShare, Shareable
    <3>1. i # f /\ j # f
      BY <1>8, <1>12
    <3>2. G[i] = F[i] /\ G[j] = F[j]
      BY <1>12, <3>1
    <3>3. F[j].node \in Nodes /\ F[j].node # n
      BY <1>2, <1>3, <3>1, <3>2, LabelsDiffer DEF FileOK
    <3>4. M[F[j].node].main = N[F[j].node].main
      BY <1>15, <3>3
    <3>5. Shareable(N, F[i], F[j])
      BY <2>1 DEF AllShare
    <3> QED BY <3>2, <3>4, <3>5 DEF Shareable
  <2> QED BY <2>2, <2>3, <2>4 DEF Fair
<1>26. Fairly(N, F, M, G)
  BY <1>25 DEF Fairly
<1> QED BY <1>1, <1>13, <1>14, <1>21, <1>24, <1>26 DEF Good

LEMMA MainReadyGood ==
  ASSUME Good(node, table, file), NEW f \in Files, MainReady(f)
  PROVE  Good(node', table', file') /\ Fairly(node, file, node', file')
<1>1. PICK g, n : g = file[f].main /\ n = file[f].node
  OBVIOUS
<1>2. /\ file[f].pc = "main"
      /\ \/ /\ file[g].pc = "open"
            /\ node' = [Reference(State, file[g].node).node EXCEPT ![n].main = file[g].node]
            /\ At(f, "create")
            /\ UNCHANGED table
         \/ /\ Becomes(Dereference(State, n))
            /\ Finish(f, Finished(f))
  BY <1>1 DEF MainReady
<1>3. CASE /\ file[g].pc = "open"
           /\ node' = [Reference(State, file[g].node).node EXCEPT ![n].main = file[g].node]
           /\ At(f, "create")
           /\ UNCHANGED table
  <2>0. PICK k, pc : k = file[g].node /\ pc = "create"
    OBVIOUS
  <2>1. PICK r : r = [file[f] EXCEPT !.pc = pc]
    OBVIOUS
  <2>2. /\ Good(Linked(node, n, k), table, At1(file, f, r))
        /\ Fairly(node, file, Linked(node, n, k), At1(file, f, r))
    BY <1>1, <1>2, <1>3, <2>0, <2>1, LinksGood
  <2>3. n \in Nodes /\ k \in Nodes /\ n # k /\ node \in [Nodes -> NodeType]
    <3>1. file[f].pc = "main" /\ file[g].pc = "open" /\ n = file[f].node /\ g = file[f].main
          /\ k = file[g].node
      BY <1>1, <1>2, <1>3, <2>0
    <3>2. n \in Nodes /\ k \in Nodes /\ n # k
      BY <3>1, MainIs
    <3> QED BY <3>2, GoodIs
  <2>4. [Reference([node |-> node, table |-> table], k).node EXCEPT ![n].main = k]
        = Linked(node, n, k)
    BY <2>3, LinkedIs
  <2>5. node' = Linked(node, n, k) /\ table' = table
    BY <1>3, <2>0, <2>4 DEF State
  <2>6. file' = At1(file, f, r)
    BY <1>3, <2>0, <2>1, GoodIs DEF At, At1
  <2> QED BY <2>2, <2>5, <2>6
<1>4. CASE Becomes(Dereference(State, n)) /\ Finish(f, Finished(f))
  <2>1. Over(Finished(f))
    BY GoodIs, OverIs
  <2>2. file[f].pc \in Private \ Refusing
    BY <1>2 DEF Private, Refusing
  <2> QED BY <1>1, <1>4, <2>1, <2>2, DropStep
<1> QED BY <1>2, <1>3, <1>4

-----------------------------------------------------------------------------
(* A Create starts with a node of its own.                                 *)
Starts(N, F, f, r, n) ==
  /\ F[f].pc = "new" /\ r \in FileType /\ FileOK(r) /\ n \in Nodes /\ N[n].refs = 0
  /\ r.pc \in {"create", "main"} /\ r.node = n /\ ~r.posix
  /\ \A g \in Files : F[g].pc # "rename"
  /\ IsStream(r.name) =>
       /\ r.pc = "main" /\ r.main \in Files \ {f}
       /\ F[r.main].pc = "create" /\ ~F[r.main].mode.delete
       /\ N[F[r.main].node].name = MainName(r.name) /\ F[r.main].name[2] = NoStream

LEMMA CreatedIs ==
  ASSUME NEW name
  PROVE  /\ Created(name).name = name /\ Created(name).main = None
         /\ ~(Created(name).open > 0)
<1>1. PICK zero, one, false, none :
        zero = 0 /\ one = 1 /\ false = FALSE /\ none = {}
  OBVIOUS
<1>2. PICK q : q = [name |-> None, main |-> None, refs |-> zero, active |-> zero,
                    open |-> zero, handles |-> zero, pending |-> false, posix |-> false,
                    denyDelete |-> zero, denyStream |-> zero, share |-> none]
  OBVIOUS
<1>3. q = FreeNode
  BY <1>1, <1>2 DEF FreeNode
<1>4. PICK p : p = [q EXCEPT !.name = name, !.refs = one]
  OBVIOUS
<1>5. p.name = name /\ p.main = None /\ p.open = zero
  BY <1>2, <1>4
<1>6. Created(name) = p
  BY <1>1, <1>3, <1>4 DEF Created
<1> QED BY <1>1, <1>5, <1>6

LEMMA StartsGood ==
  ASSUME NEW N, NEW T, NEW F, Good(N, T, F), NEW f \in Files, NEW r, NEW n,
         Starts(N, F, f, r, n)
  PROVE  /\ Good([N EXCEPT ![n] = Created(r.name)], T, At1(F, f, r))
         /\ Fairly(N, F, [N EXCEPT ![n] = Created(r.name)], At1(F, f, r))
<1>1. PICK p, G : p = Created(r.name) /\ G = At1(F, f, r)
  OBVIOUS
<1>2. PICK M : M = [N EXCEPT ![n] = p]
  OBVIOUS
<1>3. /\ Whole(N, T, F) /\ Plain(N, F) /\ Mains(N, F) /\ FilesOK(F) /\ F \in [Files -> FileType]
      /\ N \in [Nodes -> NodeType] /\ \A g \in Files : FileOK(F[g])
  BY GoodIs
<1>4. /\ F[f].pc = "new" /\ r \in FileType /\ FileOK(r) /\ n \in Nodes /\ N[n].refs = 0
      /\ r.pc \in {"create", "main"} /\ r.node = n /\ ~r.posix
      /\ \A g \in Files : F[g].pc # "rename"
  BY DEF Starts
<1>5. /\ r.pc \notin Ended /\ r.pc \notin HasHandle /\ r.pc \notin Refusing /\ r.pc # "rename"
      /\ r.pc # "cleanup"
  BY <1>4 DEF Ended, HasHandle, Refusing
<1>6. r.pc = "main" <=> IsStream(r.name)
  BY <1>4 DEF Starts, FileOK
<1>7. Whole(M, T, G)
  <2>1. r.pc = "main" => /\ F[r.main].pc # "new" /\ r.main # f
                         /\ (F[r.main].pc # "done" => F[r.main].name[2] = NoStream)
    BY <1>6 DEF Starts
  <2> QED BY <1>1, <1>2, <1>3, <1>4, <2>1, CreateKeeps
<1>8. M[n] = p /\ \A k \in Nodes : k # n => M[k] = N[k]
  BY <1>2, <1>3, <1>4
<1>9. p.name = r.name /\ p.main = None /\ ~(p.open > 0)
  BY <1>1, CreatedIs
<1>10. \A g \in Files : F[g].pc \notin Ended => F[g].node \in Nodes /\ F[g].node # n
  BY <1>4, FileUses
<1>11. Undisturbed(N, M, F, f)
  <2> SUFFICES ASSUME NEW g \in Files \ {f}, F[g].pc \notin Ended
               PROVE  Left(N, M, F[g])
    BY DEF Undisturbed
  <2>1. F[g].node \in Nodes /\ M[F[g].node] = N[F[g].node]
    BY <1>8, <1>10
  <2>2. F[g].pc \in HasHandle => N[F[g].node].open > 0
    BY <1>3 DEF Plain, Held
  <2>3. Deleting(F[g]) => N[F[g].node].pending
    BY <1>3 DEF Plain, LastDeletes
  <2> QED BY <2>1, <2>2, <2>3 DEF Left
<1>12. FitsHandle(M, r)
  BY <1>4, <1>5 DEF FitsHandle
<1>13. FitsDelete(M, F, f, r)
  <2>1. r.extra = None
    BY <1>4, <1>5 DEF FileOK
  <2>2. ASSUME NEW g \in Files \ {f}, Deleting(F[g]) PROVE Off(r, F[g].node)
    <3>1. F[g].node \in Nodes /\ F[g].node # n
      BY <1>10, <2>2, PlainLabels DEF Deleting
    <3> QED BY <1>4, <2>1, <3>1, FileNodeAssumption DEF Off
  <2> QED BY <1>5, <2>2 DEF FitsDelete, Deleting
<1>14. FitsRename(M, F, f, r)
  BY <1>4, <1>5 DEF FitsRename
<1>15. FitsStream(M, F, f, r)
  <2>1. ASSUME Streamed(r) PROVE r.main \in Files \ {f} /\ StreamOK(M, r, F[r.main])
    <3>1. PICK h, m : h = r.main /\ m = F[h]
      OBVIOUS
    <3>2. /\ r.pc = "main" /\ h \in Files \ {f} /\ m.pc = "create" /\ ~m.mode.delete
          /\ N[m.node].name = MainName(r.name)
      BY <2>1, <3>1 DEF Streamed, Starts
    <3>3. m.node \in Nodes /\ m.node # n
      BY <1>10, <3>1, <3>2 DEF Ended
    <3>4. M[m.node].name = N[m.node].name /\ M[n].name = r.name /\ M[n].main = None
      BY <1>8, <1>9, <3>3
    <3>5. Under(M, r, m)
      BY <1>4, <3>2, <3>4 DEF Under
    <3>6. StreamOK(M, r, m)
      BY <1>4, <3>2, <3>4, <3>5, PlainLabels DEF StreamOK
    <3> QED BY <3>1, <3>2, <3>6
  <2>2. ASSUME NEW g \in Files \ {f}, Streamed(F[g]), F[g].main = f PROVE FALSE
    <3>1. StreamOK(N, F[g], F[f])
      BY <1>3, <2>2 DEF Plain, StreamsOK
    <3> QED BY <1>4, <3>1 DEF StreamOK
  <2> QED BY <2>1, <2>2 DEF FitsStream
<1>16. Plain(M, G)
  BY <1>1, <1>3, <1>11, <1>12, <1>13, <1>14, <1>15, PlainMoves DEF Fits
<1>17. MayOpen(N, M)
  <2>1. \A k \in Nodes : M[k].open > 0 => k # n /\ M[k] = N[k]
    BY <1>8, <1>9
  <2> QED BY <1>3, <2>1 DEF MayOpen, Mains
<1>18. Mains(M, G)
  BY <1>1, <1>3, <1>6, <1>11, <1>17, MainsMove
<1>19. Good(M, T, G)
  BY <1>7, <1>16, <1>18 DEF Good
<1>20. Keeps(N, M)
  BY <1>8, <1>9 DEF Keeps
<1>21. Remains(F[f], r)
  BY <1>5, <1>6 DEF Remains, Creates
<1>22. Fairly(N, F, M, G)
  BY <1>1, <1>19, <1>20, <1>21, FairAt1
<1> QED BY <1>1, <1>2, <1>19, <1>22

Started(r, name, mode, n) ==
  /\ r \in FileType /\ r.pc = "create" /\ r.name = name /\ r.mode = mode /\ r.node = n
  /\ r.extra = None /\ r.posix = FALSE

LEMMA FreshIs ==
  ASSUME NEW name \in Names, NEW mode \in AllModes, NEW n \in Nodes, NEW overwrite,
         overwrite \in BOOLEAN
  PROVE  Started(Fresh(name, mode, n, overwrite), name, mode, n)
<1>1. PICK q, pc : q = NewFile /\ pc = "create"
  OBVIOUS
<1>2. /\ q \in FileType /\ q.extra = None /\ q.posix = FALSE
  BY <1>1, NewFileIs
<1>3. pc \in FilePCs
  BY <1>1 DEF FilePCs, Private
<1>4. PICK p : p = [q EXCEPT !.pc = pc, !.name = name, !.mode = mode]
  OBVIOUS
<1>5. /\ p \in FileType /\ p.pc = pc /\ p.name = name /\ p.mode = mode
      /\ p.extra = q.extra /\ p.posix = q.posix
  BY <1>2, <1>3, <1>4 DEF FileType
<1>6. PICK r : r = [p EXCEPT !.node = n, !.overwrite = overwrite]
  OBVIOUS
<1>7. /\ r \in FileType /\ r.pc = pc /\ r.name = name /\ r.mode = mode /\ r.node = n
      /\ r.extra = q.extra /\ r.posix = q.posix
  BY <1>5, <1>6 DEF FileType
<1>8. Fresh(name, mode, n, overwrite) = r
  BY <1>1, <1>2, <1>4, <1>6 DEF Fresh, FileType
<1> QED BY <1>1, <1>2, <1>7, <1>8 DEF Started

LEMMA IssueFileGood ==
  ASSUME Good(node, table, file), NEW f \in Files, file[f].pc = "new",
         \A g \in Files : file[g].pc # "rename",
         NEW name \in Names, NEW mode \in AllModes, NEW overwrite \in BOOLEAN,
         IssueFile(f, name, mode, overwrite)
  PROVE  Good(node', table, file') /\ Fairly(node, file, node', file')
<1>1. PICK n : n = Min(Free)
  OBVIOUS
<1>2. Free # {} /\ Free \subseteq Nat /\ ~IsStream(name)
  BY FileNodeAssumption DEF IssueFile, Free
<1>3. n \in Free
  BY <1>1, <1>2, MinIs
<1>4. n \in Nodes /\ node[n].refs = 0
  BY <1>3 DEF Free
<1>5. PICK r : r = Fresh(name, mode, n, overwrite)
  OBVIOUS
<1>6. /\ r \in FileType /\ r.pc = "create" /\ r.name = name /\ r.node = n /\ r.extra = None
      /\ r.posix = FALSE
  <2>1. Started(Fresh(name, mode, n, overwrite), name, mode, n)
    BY <1>4, FreshIs
  <2>2. Started(r, name, mode, n)
    BY <1>5, <2>1
  <2> QED BY <2>2 DEF Started
<1>7. FileOK(r)
  BY <1>4, <1>6 DEF FileOK, Ended, Refusing
<1>8. Starts(node, file, f, r, n)
  BY <1>2, <1>4, <1>6, <1>7 DEF Starts
<1>9. /\ Good([node EXCEPT ![n] = Created(r.name)], table, At1(file, f, r))
      /\ Fairly(node, file, [node EXCEPT ![n] = Created(r.name)], At1(file, f, r))
  BY <1>8, StartsGood
<1>10. node' = [node EXCEPT ![n] = Created(r.name)] /\ file' = At1(file, f, r)
  BY <1>1, <1>5, <1>6 DEF IssueFile, At1
<1> QED BY <1>9, <1>10

LEMMA IssueStreamGood ==
  ASSUME Good(node, table, file), NEW f \in Files, file[f].pc = "new",
         \A h \in Files : file[h].pc # "rename",
         NEW g \in Files, NEW name \in Names, NEW mode \in AllModes,
         NEW overwrite \in BOOLEAN, IssueStream(f, g, name, mode, overwrite)
  PROVE  Good(node', table, file') /\ Fairly(node, file, node', file')
<1>1. /\ g # f /\ file[g].pc = "new" /\ IsStream(name) /\ Cardinality(Free) >= 2
      /\ Free \subseteq Nat
  BY FileNodeAssumption DEF IssueStream, Free
<1>2. PICK n, k : n = Min(Free) /\ k = Min(Free \ {n})
  OBVIOUS
<1>3. Free # {}
  <2>1. Cardinality({}) = 0
    BY FS_EmptySet
  <2> QED BY <1>1, <2>1
<1>4. n \in Free
  BY <1>1, <1>2, <1>3, MinIs
<1>5. Free \ {n} # {}
  <2> SUFFICES ASSUME Free \ {n} = {} PROVE FALSE
    OBVIOUS
  <2>1. Free = {n}
    BY <1>4
  <2>2. Cardinality({n}) = 1
    BY FS_Singleton
  <2> QED BY <1>1, <2>1, <2>2
<1>6. k \in Free \ {n}
  <2>1. Free \ {n} \subseteq Nat
    BY <1>1
  <2> QED BY <1>2, <1>5, <2>1, MinIs
<1>7. n \in Nodes /\ k \in Nodes /\ n # k /\ node[n].refs = 0 /\ node[k].refs = 0
  BY <1>4, <1>6 DEF Free
<1>8. PICK main, false : main = MainName(name) /\ false = FALSE
  OBVIOUS
<1>9. main \in Names /\ main[2] = NoStream /\ ~IsStream(main) /\ false \in BOOLEAN
      /\ MainMode \in AllModes /\ MainMode.delete = FALSE
  BY <1>8, NewFileIs DEF MainName, Names, IsStream
<1>10. PICK a, b : a = Fresh(main, MainMode, k, false) /\ b = Fresh(name, mode, n, overwrite)
  OBVIOUS
<1>11. /\ a \in FileType /\ a.pc = "create" /\ a.name = main /\ a.mode = MainMode
       /\ a.node = k /\ a.extra = None /\ a.posix = FALSE
  <2>1. Started(Fresh(main, MainMode, k, false), main, MainMode, k)
    BY <1>7, <1>9, FreshIs
  <2>2. Started(a, main, MainMode, k)
    BY <1>10, <2>1
  <2> QED BY <2>2 DEF Started
<1>12. /\ b \in FileType /\ b.name = name /\ b.node = n /\ b.extra = None /\ b.posix = FALSE
  <2>1. Started(Fresh(name, mode, n, overwrite), name, mode, n)
    BY <1>7, FreshIs
  <2>2. Started(b, name, mode, n)
    BY <1>10, <2>1
  <2> QED BY <2>2 DEF Started
<1>13. PICK pc : pc = "main"
  OBVIOUS
<1>14. pc \in FilePCs
  BY <1>13 DEF FilePCs, Private
<1>15. PICK r : r = [b EXCEPT !.pc = pc, !.main = g]
  OBVIOUS
<1>16. /\ r \in FileType /\ r.pc = pc /\ r.name = name /\ r.node = n /\ r.extra = None
       /\ r.posix = FALSE /\ r.main = g
  BY <1>12, <1>14, <1>15 DEF FileType
<1>17. FileOK(a)
  BY <1>7, <1>9, <1>11 DEF FileOK, Ended, Refusing
<1>18. FileOK(r)
  BY <1>1, <1>7, <1>13, <1>16 DEF FileOK, Ended, Refusing
<1>19. Starts(node, file, g, a, k)
  BY <1>1, <1>7, <1>9, <1>11, <1>17 DEF Starts
<1>20. PICK N, F : N = [node EXCEPT ![k] = Created(main)] /\ F = At1(file, g, a)
  OBVIOUS
<1>21. Good(N, table, F) /\ Fairly(node, file, N, F)
  BY <1>11, <1>19, <1>20, StartsGood
<1>22. /\ F[g] = a /\ \A h \in Files : h # g => F[h] = file[h]
       /\ N[k] = Created(main) /\ N[n] = node[n]
  BY <1>7, <1>20, GoodIs, At1Is
<1>23. N[k].name = main
  BY <1>22, CreatedIs
<1>24. \A h \in Files : F[h].pc # "rename"
  BY <1>11, <1>22
<1>25. Starts(N, F, f, r, n)
  <2>1. F[f].pc = "new" /\ N[n].refs = 0
    BY <1>1, <1>7, <1>22
  <2>2. /\ r.main \in Files \ {f} /\ F[r.main].pc = "create" /\ ~F[r.main].mode.delete
        /\ N[F[r.main].node].name = MainName(r.name) /\ F[r.main].name[2] = NoStream
    BY <1>1, <1>8, <1>9, <1>11, <1>16, <1>22, <1>23
  <2> QED BY <1>7, <1>13, <1>16, <1>18, <1>24, <2>1, <2>2 DEF Starts
<1>26. /\ Good([N EXCEPT ![n] = Created(r.name)], table, At1(F, f, r))
       /\ Fairly(N, F, [N EXCEPT ![n] = Created(r.name)], At1(F, f, r))
  BY <1>21, <1>25, StartsGood
<1>27. node' = [node EXCEPT ![n] = Created(name), ![k] = Created(main)]
       /\ file' = [file EXCEPT ![f] = r, ![g] = a]
  BY <1>2, <1>8, <1>10, <1>13, <1>15 DEF IssueStream
<1>28. node' = [N EXCEPT ![n] = Created(r.name)]
  BY <1>7, <1>16, <1>20, <1>27, GoodIs
<1>29. file' = At1(F, f, r)
  BY <1>1, <1>20, <1>27, GoodIs DEF At1
<1>30. Fairly(node, file, node', file')
  BY <1>21, <1>26, <1>28, <1>29 DEF Fairly
<1> QED BY <1>26, <1>28, <1>29, <1>30

LEMMA IssueGood ==
  ASSUME Good(node, table, file), NEW f \in Files, Issue(f)
  PROVE  Good(node', table', file') /\ Fairly(node, file, node', file')
<1>1. file[f].pc = "new" /\ (\A g \in Files : file[g].pc # "rename") /\ table' = table
  BY DEF Issue
<1>2. PICK name \in Names, mode \in Modes, overwrite \in BOOLEAN :
        \/ IssueFile(f, name, mode, overwrite)
        \/ \E g \in Files : IssueStream(f, g, name, mode, overwrite)
  BY DEF Issue
<1>3. mode \in AllModes
  BY FileNodeAssumption
<1>4. CASE IssueFile(f, name, mode, overwrite)
  BY <1>1, <1>3, <1>4, IssueFileGood
<1>5. CASE \E g \in Files : IssueStream(f, g, name, mode, overwrite)
  BY <1>1, <1>3, <1>5, IssueStreamGood
<1> QED BY <1>2, <1>4, <1>5

-----------------------------------------------------------------------------
(* The accounts are in order in every state of a volume without POSIX      *)
(* deletes and renames.                                                    *)
LEMMA BlankCounts ==
  ASSUME Init, NEW n \in Nodes
  PROVE  /\ FilesAt(file, n) = {} /\ ExtrasAt(file, n) = {} /\ NamesAt(table, n) = {}
         /\ StreamsAt(node, n) = {} /\ HandlesAt(file, n) = {} /\ UsersAt(file, n) = {}
         /\ SharersAt(file, n) = {} /\ DeletersAt(file, n) = {}
         /\ DeniersAt(node, file, n) = {}
<1>1. n # None
  BY FileNodeAssumption
<1>2. \A f \in Files : file[f].node = None /\ file[f].extra = None
  BY NewFileIs DEF Init
<1>3. \A x \in Names : table[x] = None
  BY DEF Init
<1>4. \A k \in Nodes : node[k].main = None
  BY DEF Init, FreeNode
<1>5. FilesAt(file, n) = {} /\ HandlesAt(file, n) = {} /\ UsersAt(file, n) = {}
  BY <1>1, <1>2 DEF FilesAt, HandlesAt, UsersAt
<1>6. ExtrasAt(file, n) = {} /\ NamesAt(table, n) = {} /\ StreamsAt(node, n) = {}
  BY <1>1, <1>2, <1>3, <1>4 DEF ExtrasAt, NamesAt, StreamsAt
<1>7. SharersAt(file, n) = {} /\ DeletersAt(file, n) = {}
  BY <1>5 DEF SharersAt, DeletersAt
<1>8. DeniersAt(node, file, n) = {}
  BY <1>1, <1>4 DEF DeniersAt
<1> QED BY <1>5, <1>6, <1>7, <1>8

LEMMA InitInOrder == Init /\ ~volume.posix => InOrder
<1> SUFFICES ASSUME Init, ~volume.posix PROVE InOrder
  OBVIOUS
<1>1. PICK q, b : q = NewFile /\ b = FreeNode
  OBVIOUS
<1>2. /\ file \in [Files -> {q}] /\ node \in [Nodes -> {b}] /\ table \in [Names -> {None}]
      /\ volume \in AllVolumes
  BY <1>1, FileNodeAssumption DEF Init
<1>3. /\ q \in FileType /\ q.node = None /\ q.extra = None /\ q.pc = "new" /\ ~q.posix
  BY <1>1, NewFileIs
<1>4. /\ b.refs = 0 /\ b.active = 0 /\ b.open = 0 /\ b.handles = 0 /\ b.share = {}
      /\ b.denyDelete = 0 /\ b.denyStream = 0 /\ b.main = None /\ b.name = None
  BY <1>1 DEF FreeNode
<1>5. b \in NodeType
  <2>1. PICK zero \in Int : zero = 0
    OBVIOUS
  <2>2. PICK false \in BOOLEAN : false = FALSE
    OBVIOUS
  <2>3. b = [name |-> None, main |-> None, refs |-> zero, active |-> zero,
             open |-> zero, handles |-> zero, pending |-> false, posix |-> false,
             denyDelete |-> zero, denyStream |-> zero, share |-> {}]
    BY <1>1, <2>1, <2>2 DEF FreeNode
  <2> QED BY <2>3 DEF NodeType
<1>6. \A f \in Files : file[f] = q
  BY <1>2
<1>7. \A n \in Nodes : node[n] = b
  BY <1>2
<1>8. FilesOK(file)
  <2>1. FileOK(q)
    BY <1>3 DEF FileOK, Ended, Refusing
  <2>2. file \in [Files -> FileType]
    BY <1>2, <1>3, <1>6
  <2> QED BY <1>6, <2>1, <2>2 DEF FilesOK
<1>9. NodesOK(node)
  <2>1. node \in [Nodes -> NodeType]
    BY <1>2, <1>5, <1>7
  <2> QED BY <1>1, <1>4, <1>7, <2>1 DEF NodesOK
<1>10. One(node, table)
  <2>1. table \in TableType
    BY <1>2 DEF TableType
  <2> QED BY <1>2, <1>4, <1>7, <2>1 DEF One
<1>11. Cardinality({}) = 0
  BY FS_EmptySet
<1>12. Refs(node, table, file, Nothing)
  <2> SUFFICES ASSUME NEW n \in Nodes
               PROVE  node[n].refs = Cardinality(FilesAt(file, n))
                        + Cardinality(ExtrasAt(file, n)) + Cardinality(NamesAt(table, n))
                        + Cardinality(StreamsAt(node, n)) + Nothing[n]
    BY DEF Refs
  <2>1. /\ FilesAt(file, n) = {} /\ ExtrasAt(file, n) = {} /\ NamesAt(table, n) = {}
        /\ StreamsAt(node, n) = {}
    BY BlankCounts
  <2>2. Nothing[n] = 0
    BY DEF Nothing
  <2> QED BY <1>4, <1>7, <1>11, <2>1, <2>2
<1>13. Uses(node, file)
  <2> SUFFICES ASSUME NEW n \in Nodes
               PROVE  /\ node[n].active = Cardinality(UsersAt(file, n))
                                          + Cardinality(ExtrasAt(file, n))
                      /\ node[n].open \in {0, node[n].active}
                      /\ node[n].handles = Cardinality(HandlesAt(file, n))
                                           + Cardinality(ExtrasAt(file, n))
                      /\ node[n].share = SharersAt(file, n)
                      /\ node[n].denyDelete = IF node[n].main = None
                                                THEN Cardinality(DeletersAt(file, n)) ELSE 0
                      /\ node[n].denyStream = Cardinality(DeniersAt(node, file, n))
    BY DEF Uses
  <2>1. /\ ExtrasAt(file, n) = {} /\ HandlesAt(file, n) = {} /\ UsersAt(file, n) = {}
        /\ SharersAt(file, n) = {} /\ DeletersAt(file, n) = {}
        /\ DeniersAt(node, file, n) = {}
    BY BlankCounts
  <2> QED BY <1>4, <1>7, <1>11, <2>1
<1>14. Own(node, table, file)
  BY <1>3, <1>6 DEF Own, Private
<1>15. Named(node, file)
  BY <1>3, <1>6, FileNodeAssumption DEF Named
<1>16. Plain(node, file)
  <2>1. "new" \notin HasHandle /\ "new" \in Ended
    BY DEF HasHandle, Ended
  <2> QED BY <1>3, <1>6, <2>1 DEF Plain, Held, LastDeletes, Renaming, StreamsOK, NoPosix,
                                  Streamed, Deleting
<1>17. Mains(node, file)
  <2>1. "new" \notin Private
    BY DEF Private
  <2>2. \A n \in Nodes : ~(node[n].open > 0)
    BY <1>4, <1>7
  <2> QED BY <1>3, <1>6, <2>1, <2>2 DEF Mains
<1> QED BY <1>2, <1>8, <1>9, <1>10, <1>12, <1>13, <1>14, <1>15, <1>16, <1>17
        DEF InOrder, Good, Whole, Acc

LEMMA NextInOrder == InOrder /\ [Next]_vars => InOrder'
<1> SUFFICES ASSUME InOrder, [Next]_vars PROVE InOrder'
  OBVIOUS
<1>1. Good(node, table, file) /\ volume \in AllVolumes /\ ~volume.posix
  BY DEF InOrder
<1>2. CASE UNCHANGED vars
  BY <1>1, <1>2 DEF InOrder, vars
<1>3. CASE Stop
  BY <1>1, <1>3 DEF InOrder, Stop
<1>4. ASSUME NEW f \in Files, \/ CreateFails(f) \/ CancelCreate(f) PROVE InOrder'
  <2>1. Good(node', table', file')
    BY <1>1, <1>4, CreateEnds
  <2>2. volume' = volume
    BY <1>4 DEF CreateFails, CancelCreate
  <2> QED BY <1>1, <2>1, <2>2 DEF InOrder
<1>5. ASSUME NEW f \in Files,
             \/ TryOpenFails(f) \/ OverwriteFails(f) \/ OverwriteRefused(f)
             \/ CancelTryOpen(f) \/ CancelOverwrite(f)
      PROVE  InOrder'
  <2>1. Good(node', table', file')
    BY <1>1, <1>5, HandleEnds
  <2>2. volume' = volume
    BY <1>5 DEF TryOpenFails, OverwriteFails, OverwriteRefused, CancelTryOpen, CancelOverwrite
  <2> QED BY <1>1, <2>1, <2>2 DEF InOrder
<1>6. ASSUME NEW f \in Files,
             \/ ViolationWaits(f) \/ TryOpen(f) \/ Park(f) \/ OverwriteStart(f) \/ Dispose(f)
      PROVE  InOrder'
  <2>1. Good(node', table', file')
    BY <1>1, <1>6, LabelsGood
  <2>2. volume' = volume
    BY <1>6 DEF ViolationWaits, TryOpen, Park, OverwriteStart, Dispose
  <2> QED BY <1>1, <2>1, <2>2 DEF InOrder
<1>7. ASSUME NEW f \in Files, Issue(f) \/ MainReady(f) \/ CreateAnswered(f) \/ CreateComplete(f)
      PROVE  InOrder'
  <2>1. Good(node', table', file')
    BY <1>1, <1>7, IssueGood, MainReadyGood, CreateAnsweredGood, CreateCompleteGood
  <2>2. volume' = volume
    BY <1>7 DEF Issue, MainReady, CreateAnswered, CreateComplete
  <2> QED BY <1>1, <2>1, <2>2 DEF InOrder
<1>8. ASSUME NEW f \in Files, ViolationFails(f) \/ ViolationBroken(f) \/ OverwriteDone(f)
      PROVE  InOrder'
  <2>1. Good(node', table', file')
    BY <1>1, <1>8, ViolationFailsGood, ViolationBrokenGood, OverwriteDoneGood
  <2>2. volume' = volume
    BY <1>8 DEF ViolationFails, ViolationBroken, OverwriteDone
  <2> QED BY <1>1, <2>1, <2>2 DEF InOrder
<1>9. ASSUME NEW f \in Files,
             DisposeDone(f) \/ SetInformationFails(f) \/ Rename(f) \/ RenameDone(f)
      PROVE  InOrder'
  <2>1. Good(node', table', file')
    BY <1>1, <1>9, DisposeDoneGood, SetInformationFailsGood, RenameGood, RenameDoneGood
  <2>2. volume' = volume
    BY <1>9 DEF DisposeDone, SetInformationFails, Rename, RenameDone
  <2> QED BY <1>1, <2>1, <2>2 DEF InOrder
<1>10. ASSUME NEW f \in Files, Cleanup(f) \/ CleanupDone(f) \/ Close(f) PROVE InOrder'
  <2>1. Good(node', table', file')
    BY <1>1, <1>10, CleanupGood, CleanupDoneGood, CloseGood
  <2>2. volume' = volume
    BY <1>10 DEF Cleanup, CleanupDone, Close
  <2> QED BY <1>1, <2>1, <2>2 DEF InOrder
<1> QED BY <1>2, <1>3, <1>4, <1>5, <1>6, <1>7, <1>8, <1>9, <1>10 DEF Next

LEMMA AlwaysInOrder == Spec /\ ~volume.posix => []InOrder
BY InitInOrder, NextInOrder, PTL DEF Spec

LEMMA UsersAndExtras ==
  ASSUME FilesOK(file), NEW n \in Nodes
  PROVE  Cardinality(UsersOf(n))
           = Cardinality(UsersAt(file, n)) + Cardinality(ExtrasAt(file, n))
<1>1. UsersOf(n) = UsersAt(file, n) \cup ExtrasAt(file, n)
  BY DEF UsersOf, HandlesOf, ExtrasOf, UsersAt, ExtrasAt
<1>2. n # None
  BY FileNodeAssumption
<1>3. \A f \in ExtrasAt(file, n) : file[f].pc \in Refusing
  BY <1>2 DEF ExtrasAt, FilesOK, FileOK
<1>4. \A label \in Refusing : label \notin UserPC
  BY LabelsDiffer
<1>5. UsersAt(file, n) \cap ExtrasAt(file, n) = {}
  BY <1>3, <1>4 DEF UsersAt, UserPC
<1>6. UsersAt(file, n) \subseteq Files /\ ExtrasAt(file, n) \subseteq Files
  BY DEF UsersAt, ExtrasAt
<1>7. IsFiniteSet(UsersAt(file, n)) /\ IsFiniteSet(ExtrasAt(file, n))
  BY <1>6, FS_Subset, FileNodeAssumption
<1>8. PICK users, extras : users = UsersAt(file, n) /\ extras = ExtrasAt(file, n)
  OBVIOUS
<1>9. Cardinality(users \cup extras) = Cardinality(users) + Cardinality(extras)
                                       - Cardinality(users \cap extras)
  BY <1>7, <1>8, FS_Union
<1>10. Cardinality(users \cap extras) = 0
  BY <1>5, <1>8, FS_EmptySet
<1>11. Cardinality(users) \in Nat /\ Cardinality(extras) \in Nat
  BY <1>7, <1>8, FS_CardinalityType
<1>12. Cardinality(users \cup extras) = Cardinality(users) + Cardinality(extras)
  BY <1>9, <1>10, <1>11
<1> QED BY <1>1, <1>8, <1>12

LEMMA InOrderAccounted == InOrder => NodesAccounted
<1> SUFFICES ASSUME InOrder, NEW n \in Nodes
             PROVE  /\ node[n].refs = Cardinality({f \in Files : file[f].node = n})
                                      + Cardinality(ExtrasOf(n))
                                      + Cardinality({x \in Names : table[x] = n})
                                      + Cardinality({k \in Nodes : node[k].main = n})
                    /\ node[n].active = Cardinality(UsersOf(n))
                    /\ node[n].open \in {0, node[n].active}
                    /\ node[n].handles = Cardinality(HandlesOf(n)) + Cardinality(ExtrasOf(n))
                    /\ node[n].share = {f \in HandlesOf(n) : HasAccess(file[f].mode)}
                    /\ node[n].denyDelete = Cardinality({f \in HandlesOf(n) :
                                              node[n].main = None /\ file[f].mode.delete})
                    /\ node[n].denyStream = Cardinality({f \in Files : \E k \in Nodes :
                         /\ node[k].main = n /\ f \in HandlesOf(k)
                         /\ HasAccess(file[f].mode) /\ ~file[f].mode.shareDelete})
  BY DEF NodesAccounted
<1>1. FilesOK(file) /\ Refs(node, table, file, Nothing) /\ Uses(node, file)
  BY DEF InOrder, Good, Whole, Acc
<1>2. HandlesOf(n) = HandlesAt(file, n) /\ ExtrasOf(n) = ExtrasAt(file, n)
  BY DEF HandlesOf, HandlesAt, ExtrasOf, ExtrasAt
<1>3. node[n].refs = Cardinality({f \in Files : file[f].node = n})
                     + Cardinality(ExtrasOf(n))
                     + Cardinality({x \in Names : table[x] = n})
                     + Cardinality({k \in Nodes : node[k].main = n})
  <2>1. node[n].refs = Cardinality(FilesAt(file, n)) + Cardinality(ExtrasAt(file, n))
                       + Cardinality(NamesAt(table, n)) + Cardinality(StreamsAt(node, n))
                       + Nothing[n]
    BY <1>1 DEF Refs
  <2>2. Nothing[n] = 0
    BY DEF Nothing
  <2>3. /\ Cardinality(FilesAt(file, n)) \in Nat /\ Cardinality(ExtrasAt(file, n)) \in Nat
        /\ Cardinality(NamesAt(table, n)) \in Nat /\ Cardinality(StreamsAt(node, n)) \in Nat
    BY HoldersCounted
  <2>4. node[n].refs = Cardinality(FilesAt(file, n)) + Cardinality(ExtrasAt(file, n))
                       + Cardinality(NamesAt(table, n)) + Cardinality(StreamsAt(node, n))
    BY <2>1, <2>2, <2>3
  <2> QED BY <1>2, <2>4 DEF FilesAt, NamesAt, StreamsAt
<1>4. /\ node[n].active = Cardinality(UsersAt(file, n)) + Cardinality(ExtrasAt(file, n))
      /\ node[n].open \in {0, node[n].active}
      /\ node[n].handles = Cardinality(HandlesAt(file, n)) + Cardinality(ExtrasAt(file, n))
      /\ node[n].share = SharersAt(file, n)
      /\ node[n].denyDelete = IF node[n].main = None
                              THEN Cardinality(DeletersAt(file, n)) ELSE 0
      /\ node[n].denyStream = Cardinality(DeniersAt(node, file, n))
  BY <1>1 DEF Uses
<1>5. node[n].active = Cardinality(UsersOf(n))
  BY <1>1, <1>4, UsersAndExtras
<1>6. node[n].share = {f \in HandlesOf(n) : HasAccess(file[f].mode)}
  BY <1>2, <1>4 DEF SharersAt
<1>7. node[n].denyDelete = Cardinality({f \in HandlesOf(n) :
                             node[n].main = None /\ file[f].mode.delete})
  <2>1. CASE node[n].main = None
    <3>1. {f \in HandlesOf(n) : node[n].main = None /\ file[f].mode.delete}
            = DeletersAt(file, n)
      BY <1>2, <2>1 DEF DeletersAt
    <3> QED BY <1>4, <2>1, <3>1
  <2>2. CASE node[n].main # None
    <3>1. {f \in HandlesOf(n) : node[n].main = None /\ file[f].mode.delete} = {}
      BY <2>2
    <3> QED BY <1>4, <2>2, <3>1, FS_EmptySet
  <2> QED BY <2>1, <2>2
<1>8. node[n].denyStream = Cardinality({f \in Files : \E k \in Nodes :
        /\ node[k].main = n /\ f \in HandlesOf(k)
        /\ HasAccess(file[f].mode) /\ ~file[f].mode.shareDelete})
  <2>1. {f \in Files : \E k \in Nodes :
           /\ node[k].main = n /\ f \in HandlesOf(k)
           /\ HasAccess(file[f].mode) /\ ~file[f].mode.shareDelete}
          = DeniersAt(node, file, n)
    BY DEF DeniersAt, Denies, HandlesOf
  <2> QED BY <1>4, <2>1
<1> QED BY <1>2, <1>3, <1>4, <1>5, <1>6, <1>7, <1>8

LEMMA InOrderOne == InOrder => OneNode
BY DEF InOrder, Good, Whole, Acc, One, OneNode

LEMMA InOrderLast == InOrder => DeleteIsLast
<1> SUFFICES ASSUME InOrder, NEW f \in Files, file[f].pc = "cleanup" /\ file[f].delete
             PROVE  /\ table[node[file[f].node].name] = file[f].node
                    /\ node[file[f].node].handles = 1
  BY DEF DeleteIsLast
<1>1. /\ FilesOK(file) /\ One(node, table) /\ Uses(node, file)
      /\ Held(node, file) /\ LastDeletes(node, file)
  BY DEF InOrder, Good, Whole, Acc, Plain
<1>2. PICK n : n = file[f].node
  OBVIOUS
<1>3. file[f].pc \in HasHandle
  BY DEF HasHandle
<1>4. n \in Nodes /\ file[f].extra # n
  <2>1. file[f].pc \notin Ended /\ file[f].pc \notin Refusing
    BY <1>3, LabelsDiffer
  <2> QED BY <1>1, <1>2, <2>1, FileNodeAssumption DEF FilesOK, FileOK
<1>5. node[n].open > 0 /\ table[node[n].name] = n
  <2>1. node[n].open > 0
    BY <1>1, <1>2, <1>3 DEF Held
  <2> QED BY <1>1, <1>4, <2>1 DEF One
<1>6. \A g \in Files \ {f} : Off(file[g], n)
  BY <1>1, <1>2 DEF LastDeletes, Deleting
<1>7. HandlesAt(file, n) = {f}
  BY <1>2, <1>3, <1>6 DEF HandlesAt, Off
<1>8. ExtrasAt(file, n) = {}
  BY <1>4, <1>6 DEF ExtrasAt, Off
<1>9. node[n].handles = Cardinality(HandlesAt(file, n)) + Cardinality(ExtrasAt(file, n))
  BY <1>1, <1>4 DEF Uses
<1>10. Cardinality({f}) = 1 /\ Cardinality({}) = 0
  BY FS_Singleton, FS_EmptySet
<1> QED BY <1>2, <1>5, <1>7, <1>8, <1>9, <1>10

LEMMA InitFair == Init => Fair(node, file)
<1> SUFFICES ASSUME Init PROVE Fair(node, file)
  OBVIOUS
<1>1. PICK q, b : q = NewFile /\ b = FreeNode
  OBVIOUS
<1>2. q.pc = "new" /\ b.open = 0
  BY <1>1, NewFileIs DEF FreeNode
<1>3. (\A f \in Files : file[f] = q) /\ (\A n \in Nodes : node[n] = b)
  BY <1>1 DEF Init
<1>4. "new" \notin HasHandle /\ "new" \notin Private
  BY DEF HasHandle, Private
<1>5. \A n \in Nodes : ~(node[n].open > 0)
  BY <1>2, <1>3
<1>6. Kin(node)
  BY <1>5 DEF Kin
<1>7. KinFiles(node, file)
  BY <1>2, <1>3, <1>4 DEF KinFiles, Creates
<1>8. AllShare(node, file)
  BY <1>2, <1>3, <1>4 DEF AllShare, Shareable
<1> QED BY <1>6, <1>7, <1>8 DEF Fair

LEMMA NextFair == InOrderFair /\ [Next]_vars => InOrderFair'
<1> SUFFICES ASSUME InOrderFair, [Next]_vars PROVE Fair(node', file')
  BY NextInOrder DEF InOrderFair
<1>1. /\ Good(node, table, file) /\ volume \in AllVolumes /\ ~volume.posix
      /\ Fair(node, file)
  BY DEF InOrderFair, InOrder
<1> SUFFICES Fairly(node, file, node', file')
  BY <1>1 DEF Fairly
<1>2. CASE UNCHANGED <<node, file>>
  BY <1>2 DEF Fairly
<1>3. ASSUME NEW f \in Files, \/ CreateFails(f) \/ CancelCreate(f)
      PROVE  Fairly(node, file, node', file')
  BY <1>1, <1>3, CreateEnds
<1>4. ASSUME NEW f \in Files,
             \/ TryOpenFails(f) \/ OverwriteFails(f) \/ OverwriteRefused(f)
             \/ CancelTryOpen(f) \/ CancelOverwrite(f)
      PROVE  Fairly(node, file, node', file')
  BY <1>1, <1>4, HandleEnds
<1>5. ASSUME NEW f \in Files,
             \/ ViolationWaits(f) \/ TryOpen(f) \/ Park(f) \/ OverwriteStart(f) \/ Dispose(f)
      PROVE  Fairly(node, file, node', file')
  BY <1>1, <1>5, LabelsGood
<1>6. ASSUME NEW f \in Files, Issue(f) \/ MainReady(f) \/ CreateAnswered(f) \/ CreateComplete(f)
      PROVE  Fairly(node, file, node', file')
  BY <1>1, <1>6, IssueGood, MainReadyGood, CreateAnsweredGood, CreateCompleteGood
<1>7. ASSUME NEW f \in Files, ViolationFails(f) \/ ViolationBroken(f) \/ OverwriteDone(f)
      PROVE  Fairly(node, file, node', file')
  BY <1>1, <1>7, ViolationFailsGood, ViolationBrokenGood, OverwriteDoneGood
<1>8. ASSUME NEW f \in Files,
             DisposeDone(f) \/ SetInformationFails(f) \/ Rename(f) \/ RenameDone(f)
      PROVE  Fairly(node, file, node', file')
  BY <1>1, <1>8, DisposeDoneGood, SetInformationFailsGood, RenameGood, RenameDoneGood
<1>9. ASSUME NEW f \in Files, Cleanup(f) \/ CleanupDone(f) \/ Close(f)
      PROVE  Fairly(node, file, node', file')
  BY <1>1, <1>9, CleanupGood, CleanupDoneGood, CloseGood
<1>10. CASE UNCHANGED vars \/ Stop
  BY <1>2, <1>10 DEF vars, Stop
<1> QED BY <1>3, <1>4, <1>5, <1>6, <1>7, <1>8, <1>9, <1>10 DEF Next

LEMMA AlwaysFair == Spec /\ ~volume.posix => []InOrderFair
<1>1. Init /\ ~volume.posix => InOrderFair
  BY InitInOrder, InitFair DEF InOrderFair
<1> QED BY <1>1, NextFair, PTL DEF Spec

LEMMA FairShares == InOrderFair => Sharing
<1> SUFFICES ASSUME InOrderFair, NEW f \in Files, NEW g \in Files, f # g,
                    f \in HandlesOf(file[f].node), g \in HandlesOf(file[g].node)
             PROVE  /\ file[f].node = file[g].node => ~Conflict(file[f].mode, file[g].mode)
                    /\ file[f].node = node[file[g].node].main =>
                         \/ ~file[f].mode.delete \/ file[g].mode.shareDelete
                         \/ ~HasAccess(file[g].mode)
  BY DEF Sharing
<1>1. Shareable(node, file[f], file[g])
  BY DEF InOrderFair, Fair, AllShare
<1>2. file[f].pc \in HasHandle /\ file[g].pc \in HasHandle
  BY DEF HandlesOf
<1> QED BY <1>1, <1>2 DEF Shareable, Spares

(* Every count and share access of a file node is that of the file objects *)
(* that use it, in every state of a volume without POSIX deletes and       *)
(* renames: what FspFileNodeOpen, Cleanup, Close, Rename and the release   *)
(* of a node add and subtract (file.c) balances on every path of a Create, *)
(* Cleanup, Close and rename.                                              *)
THEOREM NodesAreAccounted == Spec /\ ~volume.posix => []NodesAccounted
<1>1. InOrder => NodesAccounted
  BY InOrderAccounted
<1> QED BY <1>1, AlwaysInOrder, PTL

(* On such a volume a name that is open has one node and a node that is    *)
(* open is the one its name is looked up to, so that the opens of a file   *)
(* meet each other (the context table of file.c).                          *)
THEOREM NamesHaveOneNode == Spec /\ ~volume.posix => []OneNode
<1>1. InOrder => OneNode
  BY InOrderOne
<1> QED BY <1>1, AlwaysInOrder, PTL

(* On such a volume the Cleanup that tells user mode to delete the file is *)
(* that of its last handle, and the file is still the one of its name      *)
(* (FspFileNodeCleanup).                                                   *)
THEOREM DeletesAreLast == Spec /\ ~volume.posix => []DeleteIsLast
<1>1. InOrder => DeleteIsLast
  BY InOrderLast
<1> QED BY <1>1, AlwaysInOrder, PTL

(* On such a volume the open handles respect each other's share access,    *)
(* those of one file and those of a main file and its streams, whatever    *)
(* Creates, retries of a sharing violation, overwrites and renames are     *)
(* interleaved (FspFileNodeOpen and the share access of file.c).           *)
THEOREM HandlesShare == Spec /\ ~volume.posix => []Sharing
<1> QED BY FairShares, AlwaysFair, PTL
=============================================================================
