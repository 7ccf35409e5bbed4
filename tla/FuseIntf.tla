----------------------------- MODULE FuseIntf -----------------------------
(***************************************************************************)
(* The user mode half of a FUSE file system: the dispatcher's operations   *)
(* (dll/fsop.c) on top of the FUSE layer's (dll/fuse/fuse_intf.c), run by  *)
(* several dispatcher threads under the operation guard.                   *)
(*                                                                         *)
(* One request of the FSD is a sequence of callbacks of the FUSE file      *)
(* system, and every callback is a step of its own: it may fail, and the   *)
(* threads interleave between callbacks as far as the guard lets them.     *)
(* What a file is open with is a file descriptor of the FUSE layer, with   *)
(* the path it was opened by and a handle of the FUSE file system.         *)
(*                                                                         *)
(* Named streams, OpenTargetDirectory, directory listings, access checks,  *)
(* EAs and security descriptors are left out.                              *)
(***************************************************************************)
EXTENDS Naturals, FiniteSets, FiniteSetsExt

CONSTANTS
  Threads,      \* dispatcher threads
  Descs,        \* bound: file descriptors that exist at a time
  Paths,        \* the POSIX paths of files
  HiddenNames,  \* the .fuse_hidden names that NewHiddenName may make up
  Settings      \* bound: a guard strategy and the optional callbacks of the file system

\* Without "create" there are "mknod" and "open"; without "opendir" the handle
\* of a directory is -1.
Optional == {"create", "opendir"}

ASSUME FuseAssumption ==
  /\ IsFiniteSet(Threads) /\ IsFiniteSet(Descs)
  /\ Paths \intersect HiddenNames = {}
  /\ Settings \subseteq {"fine", "coarse"} \X SUBSET Optional

VARIABLES
  strategy,  \* OpGuardStrategy
  ops,       \* struct fuse_operations: the optional callbacks it has
  tree,      \* the FUSE file system: what a name is
  handles,   \* its open handles: what each is open on
  guard,     \* OpGuardLock: the threads that hold it, and how
  request,   \* what each thread does
  desc,      \* struct fsp_fuse_file_desc, and what the FSD does with it
  pending    \* the names whose file node has DeletePending

settings == <<strategy, ops>>
vars == <<strategy, ops, tree, handles, guard, request, desc, pending>>

Kinds == {"file", "dir", "link"}
Absent == "absent"
NoHandle == 0                          \* fi.fh = -1
Handles == 1 .. (Cardinality(Descs) + Cardinality(Threads))
Unopened == "closed"

Dispositions == {"create", "open", "openif", "overwrite", "overwriteif"}
Makes(o) == o.disp \in {"create", "openif", "overwriteif"}
Idle == [step |-> "idle"]
NoDesc == [state |-> "free"]

Init ==
  /\ \E s \in Settings : strategy = s[1] /\ ops = s[2]
  /\ tree \in {[n \in Paths \union HiddenNames |->
                  IF n \in HiddenNames THEN Absent ELSE f[n]] :
                 f \in [Paths -> Kinds \union {Absent}]}
  /\ handles = [h \in Handles |-> Unopened]
  /\ guard = [t \in Threads |-> "none"]
  /\ request = [t \in Threads |-> Idle]
  /\ desc = [d \in Descs |-> NoDesc]
  /\ pending = {}

-----------------------------------------------------------------------------
(* Mutant: the guard of FspFileSystemOpEnter, which does not know that     *)
(* FSCTL_SET_REPARSE_POINT manipulates the namespace.                      *)
FineGuardOfDispatcher(o) ==
  CASE o.kind = "create" /\ o.disp = "open" -> "shared"
    [] o.kind = "create" -> "exclusive"
    [] o.kind = "cleanup" -> IF o.delete THEN "exclusive" ELSE "none"
    [] o.kind \in {"overwrite", "rename"} -> "exclusive"
    [] o.kind = "disposition" -> "shared"
    [] o.kind = "use" /\ o.use = "list" -> "shared"
    [] OTHER -> "none"

(* fsp_fuse_op_enter_lock and fsp_fuse_op_leave_unlock: the guard of a     *)
(* request under the "fine" strategy.                                      *)
FineGuard(o) ==
  CASE o.kind = "create" /\ o.disp = "open" -> "shared"
    [] o.kind = "create" -> "exclusive"
    [] o.kind = "cleanup" -> IF o.delete THEN "exclusive" ELSE "none"
    [] o.kind \in {"overwrite", "rename", "setreparse"} -> "exclusive"
    [] o.kind = "disposition" -> "shared"
    [] o.kind = "use" /\ o.use = "list" -> "shared"
    [] OTHER -> "none"

GuardOf(o) == IF strategy = "coarse" THEN "exclusive" ELSE FineGuard(o)

GuardFree(mode) ==
  CASE mode = "exclusive" -> \A t \in Threads : guard[t] = "none"
    [] mode = "shared" -> \A t \in Threads : guard[t] # "exclusive"
    [] OTHER -> TRUE

(* A thread takes a request, and waits for the guard.                      *)
Enter(t, o) ==
  /\ request[t] = Idle
  /\ GuardFree(GuardOf(o))
  /\ guard' = [guard EXCEPT ![t] = GuardOf(o)]
  /\ request' = [request EXCEPT ![t] = o]

(* It has an answer, and gives the guard back.                             *)
Leave(t) ==
  /\ guard' = [guard EXCEPT ![t] = "none"]
  /\ request' = [request EXCEPT ![t] = Idle]

Goto(t, step) == request' = [request EXCEPT ![t].step = step]

(* A handle that the FUSE file system opens, unless for a directory when   *)
(* it has no opendir.                                                      *)
HasHandle(kind) == kind # "dir" \/ "opendir" \in ops
NewHandle == Min({h \in Handles : handles[h] = Unopened})
HandleFor(kind) == IF HasHandle(kind) THEN NewHandle ELSE NoHandle
OpenHandle(kind) ==
  handles' = IF HasHandle(kind) THEN [handles EXCEPT ![NewHandle] = kind] ELSE handles

(* release and releasedir; the descriptors without a handle pass -1.       *)
Released(h) ==
  IF h = NoHandle THEN handles ELSE [handles EXCEPT ![h] = Unopened]

-----------------------------------------------------------------------------
(* The FSD sends requests for an open file only, those that change it      *)
(* under the exclusive resource of its node; a create never overlaps a     *)
(* rename (the rename lock of the volume).                                 *)
Busy(d) == {t \in Threads : request[t] # Idle /\ request[t].d = d}
Held(d) == \E t \in Busy(d) : request[t].kind # "use"
RenameRuns == \E t \in Threads : request[t] # Idle /\ request[t].kind = "rename"
CreateRuns == \E d \in Descs : desc[d].state \in {"making", "answered", "overwrite"}

(* FspFileSystemOpCreate: by the disposition.                              *)
StartCreate(t) ==
  \E d \in Descs, p \in Paths, disp \in Dispositions, dir, openlink \in BOOLEAN :
    /\ desc[d] = NoDesc
    /\ ~RenameRuns
    /\ dir => disp \in {"create", "openif"}
    /\ Enter(t, [kind |-> "create", step |-> IF disp = "create" THEN "make" ELSE "check",
                 d |-> d, path |-> p, disp |-> disp, dir |-> dir,
                 openlink |-> openlink, fh |-> NoHandle, stat |-> Absent,
                 made |-> FALSE])
    /\ desc' = [desc EXCEPT ![d] = [state |-> "making"]]
    /\ UNCHANGED <<settings, tree, handles, pending>>

(* The request fails, or is a reparse: nothing has been opened.            *)
Fail(t) ==
  /\ Leave(t)
  /\ desc' = [desc EXCEPT ![request[t].d] = NoDesc]
  /\ UNCHANGED <<settings, tree, handles, pending>>

(* STATUS_OBJECT_NAME_NOT_FOUND: OPEN_IF and OVERWRITE_IF create then.     *)
NotFound(t) ==
  IF Makes(request[t])
  THEN Goto(t, "make") /\ UNCHANGED <<settings, tree, handles, guard, desc, pending>>
  ELSE Fail(t)

(* FspFileSystemOpenCheck with fsp_fuse_intf_GetSecurityByName.            *)
Check(t) ==
  LET k == tree[request[t].path] IN
  /\ request[t].step = "check"
  /\ \/ k = Absent /\ NotFound(t)
     \/ k = "link" /\ ~request[t].openlink /\ Fail(t)     \* STATUS_REPARSE
     \/ /\ k # Absent /\ (k = "link" => request[t].openlink)
        /\ Goto(t, "stat")
        /\ UNCHANGED <<settings, tree, handles, guard, desc, pending>>
     \/ Fail(t)

(* fsp_fuse_intf_Open: what is the file?                                   *)
Stat(t) ==
  LET k == tree[request[t].path] IN
  /\ request[t].step = "stat"
  /\ \/ k = Absent /\ NotFound(t)
     \/ /\ k # Absent
        /\ request' = [request EXCEPT ![t].stat = k, ![t].step = "openit"]
        /\ UNCHANGED <<settings, tree, handles, guard, desc, pending>>
     \/ Fail(t)

(* It is then opened as such: a reparse point not at all, nor a directory  *)
(* without opendir.  "open" of a name that is a link now follows it.       *)
OpenIt(t) ==
  LET o == request[t]
      k == tree[o.path] IN
  /\ o.step = "openit"
  /\ \/ /\ o.stat = "link"
        /\ Goto(t, "opened")
        /\ UNCHANGED <<settings, tree, handles, guard, desc, pending>>
     \/ /\ \/ o.stat = "dir" /\ (k = "dir" \/ ~HasHandle("dir"))
           \/ o.stat = "file" /\ k \in {"file", "link"}
        /\ OpenHandle(o.stat)
        /\ request' = [request EXCEPT ![t].fh = HandleFor(o.stat), ![t].step = "opened"]
        /\ UNCHANGED <<settings, tree, guard, desc, pending>>
     \/ o.stat # "link" /\ HasHandle(o.stat) /\ (Fail(t) \/ (k = Absent /\ NotFound(t)))

(* fsp_fuse_intf_Create: mkdir, create or mknod.  A name that is taken is  *)
(* a collision.                                                            *)
Make(t) ==
  LET o == request[t]
      kind == IF o.dir THEN "dir" ELSE "file" IN
  /\ o.step = "make"
  /\ \/ /\ tree[o.path] = Absent
        /\ tree' = [tree EXCEPT ![o.path] = kind]
        /\ IF "create" \in ops /\ ~o.dir
           THEN /\ OpenHandle(kind)
                /\ request' = [request EXCEPT ![t].fh = NewHandle, ![t].made = TRUE,
                                   ![t].step = "setup"]
           ELSE /\ request' = [request EXCEPT ![t].made = TRUE, ![t].step = "openmade"]
                /\ UNCHANGED handles
        /\ UNCHANGED <<settings, guard, desc, pending>>
     \/ /\ tree[o.path] # Absent
        /\ Goto(t, "collide")
        /\ UNCHANGED <<settings, tree, handles, guard, desc, pending>>
     \/ Fail(t)

(* FspFileSystemOpCreate_CollisionCheck: the answer is one of several      *)
(* errors, or a reparse.                                                   *)
Collide(t) == request[t].step = "collide" /\ Fail(t)

(* opendir or open of the new file.                                        *)
OpenMade(t) ==
  LET o == request[t] IN
  /\ o.step = "openmade"
  /\ \/ /\ tree[o.path] # Absent
        /\ OpenHandle(tree[o.path])
        /\ request' = [request EXCEPT ![t].fh = HandleFor(tree[o.path]), ![t].step = "setup"]
        /\ UNCHANGED <<settings, tree, guard, desc, pending>>
     \/ HasHandle(tree[o.path]) /\ Fail(t)

(* chflags, chown, the EAs and getattr.                                    *)
Setup(t) ==
  LET k == tree[request[t].path] IN
  /\ request[t].step = "setup"
  /\ \/ k # Absent /\ request' = [request EXCEPT ![t].stat = k, ![t].step = "opened"]
     \/ Goto(t, "undo")
  /\ UNCHANGED <<settings, tree, handles, guard, desc, pending>>

(* Mutant: what was opened is not released when the rest fails.            *)
UndoNothing(t) == request[t].step = "undo" /\ Fail(t)

(* The exit of fsp_fuse_intf_Create.  The new file stays.                  *)
Undo(t) ==
  /\ request[t].step = "undo"
  /\ handles' = Released(request[t].fh)
  /\ Leave(t)
  /\ desc' = [desc EXCEPT ![request[t].d] = NoDesc]
  /\ UNCHANGED <<settings, tree, pending>>

(* The descriptor is complete, and the answer goes to the FSD.             *)
Opened(t) ==
  LET o == request[t] IN
  /\ o.step = "opened"
  /\ desc' = [desc EXCEPT ![o.d] =
       [state |-> "answered", path |-> o.path, name |-> o.path,
        overwrite |-> o.disp \in {"overwrite", "overwriteif"} /\ ~o.made,
        dir |-> o.stat = "dir", rp |-> o.stat = "link" /\ ~o.made, fh |-> o.fh]]
  /\ Leave(t)
  /\ UNCHANGED <<settings, tree, handles, pending>>

(* The FSD opens the file node, to be overwritten first if so asked, or    *)
(* refuses and has the file closed again: it must when the deletion of the *)
(* file is pending.  The overwrite may be refused later as well.           *)
Accept(d) ==
  /\ desc[d].state = "answered"
  /\ desc[d].name \notin pending
  /\ desc' = [desc EXCEPT ![d].state = IF desc[d].overwrite THEN "overwrite" ELSE "open",
                          ![d].overwrite = FALSE]
  /\ UNCHANGED <<settings, tree, handles, guard, request, pending>>

Refuse(d) ==
  /\ desc[d].state \in {"answered", "overwrite"}
  /\ Busy(d) = {}
  /\ desc' = [desc EXCEPT ![d].state = "cleaned", ![d].overwrite = FALSE]
  /\ UNCHANGED <<settings, tree, handles, guard, request, pending>>

-----------------------------------------------------------------------------
(* The requests for an open file.                                          *)
StartOf(t, d, o) ==
  /\ Enter(t, o)
  /\ UNCHANGED <<settings, tree, handles, desc, pending>>

Start(t, kind, d, step, states) ==
  /\ desc[d].state \in states
  /\ Busy(d) = {}
  /\ StartOf(t, d, [kind |-> kind, step |-> step, d |-> d])

(* Overwrite: truncation, the attributes, getattr.                         *)
StartOverwrite(t, d) == Start(t, "overwrite", d, "truncate", {"overwrite"})

Overwritten(t) ==
  LET d == request[t].d IN
  /\ request[t].step = "truncate"
  /\ ~desc[d].dir /\ ~desc[d].rp
  /\ desc' = [desc EXCEPT ![d].state = "open"]
  /\ Leave(t)
  /\ UNCHANGED <<settings, tree, handles, pending>>

(* FspFileSystemOpOverwrite closes the file when it fails, and the FSD     *)
(* does not ask for it.                                                    *)
OverwriteFails(t) ==
  LET d == request[t].d IN
  /\ request[t].step = "truncate"
  /\ handles' = IF desc[d].rp THEN handles ELSE Released(desc[d].fh)
  /\ desc' = [desc EXCEPT ![d] = NoDesc]
  /\ Leave(t)
  /\ UNCHANGED <<settings, tree, pending>>

(* Requests copy the handle into a struct fuse_file_info of their own, and *)
(* call the FUSE file system with it: Read, Write and SetFileSize those of *)
(* files only,                                                             *)
ReadWrite(d) == ~desc[d].dir /\ ~desc[d].rp

(* Flush not those of reparse points,                                      *)
Flush(d) == ~desc[d].rp

(* GetFileInfo and SetBasicInfo when there is one (FUSE_FILE_INFO, -1),    *)
GetFileInfo(d) == ~desc[d].dir /\ desc[d].fh # NoHandle

(* ReadDirectory those of directories.                                     *)
ReadDirectory(d) == desc[d].dir /\ ~desc[d].rp

Uses(d) ==
  {u \in {"data", "flush", "info", "list"} :
     /\ u = "data" => ReadWrite(d)
     /\ u = "flush" => Flush(d)
     /\ u = "info" => GetFileInfo(d)
     /\ u = "list" => ReadDirectory(d)}

(* The other requests of these kinds go by the path or are refused.  All   *)
(* may share the resource of the node.                                     *)
StartUse(t, d) ==
  /\ desc[d].state \in {"open", "cleaned"}
  /\ ~Held(d)
  /\ \E u \in Uses(d) :
       StartOf(t, d, [kind |-> "use", step |-> "use", d |-> d, use |-> u,
                      fh |-> desc[d].fh])

Use(t) ==
  /\ request[t].step = "use"
  /\ Leave(t)
  /\ UNCHANGED <<settings, tree, handles, desc, pending>>

(* SetInformation(Disposition) with fsp_fuse_intf_CanDelete.               *)
StartDisposition(t, d) == Start(t, "disposition", d, "candelete", {"open"})

CanDelete(t) ==
  /\ request[t].step = "candelete"
  /\ \/ pending' = pending \union {desc[request[t].d].name}
     \/ UNCHANGED pending
  /\ Leave(t)
  /\ UNCHANGED <<settings, tree, handles, desc>>

(* Cleanup: it deletes when it is for the last handle of a file whose      *)
(* deletion is pending.  The FUSE layer goes by the path of the            *)
(* descriptor, and ignores failures.                                       *)
StartCleanup(t, d) ==
  /\ desc[d].state = "open"
  /\ Busy(d) = {}
  /\ StartOf(t, d, [kind |-> "cleanup", step |-> "remove", d |-> d,
       delete |-> /\ desc[d].name \in pending
                  /\ \A e \in Descs \ {d} :
                       desc[e].state \in {"open", "overwrite"} => desc[e].name # desc[d].name])

Cleanup(t) ==
  LET o == request[t]
      d == o.d
      k == tree[desc[d].path] IN
  /\ o.step = "remove"
  /\ \/ /\ o.delete
        /\ IF desc[d].dir /\ ~desc[d].rp THEN k = "dir" ELSE k \in {"file", "link"}
        /\ tree' = [tree EXCEPT ![desc[d].path] = Absent]
     \/ UNCHANGED tree
  /\ pending' = IF o.delete THEN pending \ {desc[d].name} ELSE pending
  /\ desc' = [desc EXCEPT ![d].state = "cleaned"]
  /\ Leave(t)
  /\ UNCHANGED <<settings, handles>>

(* fsp_fuse_intf_Close: the last request for a file.                       *)
Close(d) ==
  /\ desc[d].state = "cleaned"
  /\ Busy(d) = {}
  /\ strategy = "coarse" => GuardFree("exclusive")
  /\ handles' = IF desc[d].rp THEN handles ELSE Released(desc[d].fh)
  /\ desc' = [desc EXCEPT ![d] = NoDesc]
  /\ UNCHANGED <<settings, tree, guard, request, pending>>

-----------------------------------------------------------------------------
(* fsp_fuse_intf_Rename.  The FSD does not rename to a file that is open.  *)
StartRename(t, d, to) ==
  /\ desc[d].state = "open"
  /\ Busy(d) = {}
  /\ ~CreateRuns /\ ~RenameRuns
  /\ to # desc[d].name
  /\ \A e \in Descs : desc[e].state = "open" => desc[e].name # to
  /\ StartOf(t, d, [kind |-> "rename", step |-> "target", d |-> d, to |-> to])

EndRename(t) == Leave(t) /\ UNCHANGED <<settings, tree, handles, desc, pending>>

(* The target must not exist, or be a file that is to be replaced.         *)
RenameTarget(t) ==
  /\ request[t].step = "target"
  /\ \/ /\ tree[request[t].to] # "dir"
        /\ Goto(t, "move")
        /\ UNCHANGED <<settings, tree, handles, guard, desc, pending>>
     \/ EndRename(t)

(* The FSD renames the file node; PosixPath of the descriptors stays.      *)
Rename(t) ==
  LET d == request[t].d
      from == desc[d].path
      old == desc[d].name
      to == request[t].to IN
  /\ request[t].step = "move"
  /\ \/ /\ tree[from] # Absent
        /\ tree' = [tree EXCEPT ![from] = Absent, ![to] = tree[from]]
        /\ desc' = [e \in Descs |->
             IF desc[e].state = "open" /\ desc[e].name = old
             THEN [desc[e] EXCEPT !.name = to] ELSE desc[e]]
        /\ pending' = IF old \in pending
                      THEN (pending \ {old}) \union {to} ELSE pending \ {to}
        /\ Leave(t)
        /\ UNCHANGED <<settings, handles>>
     \/ EndRename(t)

-----------------------------------------------------------------------------
(* fsp_fuse_intf_SetReparsePoint: the file is replaced by a symbolic link  *)
(* (or special file) that is made under a hidden name.                     *)
StartSetReparsePoint(t, d) == Start(t, "setreparse", d, "name", {"open"})

EndSetReparsePoint(t) ==
  Leave(t) /\ UNCHANGED <<settings, tree, handles, desc, pending>>

(* A name that does not exist; after three tries it gives up.              *)
NewHiddenName(t) ==
  LET o == request[t] IN
  /\ o.step = "name"
  /\ \/ \E n \in HiddenNames :
          /\ tree[n] = Absent
          /\ request' = [request EXCEPT ![t] =
               [kind |-> o.kind, step |-> "hide", d |-> o.d, hidden |-> n]]
          /\ UNCHANGED <<settings, tree, handles, guard, desc, pending>>
     \/ EndSetReparsePoint(t)

(* symlink or mknod of it.                                                 *)
Hide(t) ==
  LET o == request[t] IN
  /\ o.step = "hide"
  /\ \/ /\ tree[o.hidden] = Absent
        /\ tree' = [tree EXCEPT ![o.hidden] = "link"]
        /\ Goto(t, IF desc[o.d].dir THEN "rmdir" ELSE "replace")
        /\ UNCHANGED <<settings, handles, guard, desc, pending>>
     \/ EndSetReparsePoint(t)

(* rmdir of the directory.                                                 *)
RemoveDirectory(t) ==
  LET p == desc[request[t].d].path IN
  /\ request[t].step = "rmdir"
  /\ \/ /\ tree[p] = "dir"
        /\ tree' = [tree EXCEPT ![p] = Absent]
        /\ Goto(t, "replace")
     \/ Goto(t, "unhide") /\ UNCHANGED tree
  /\ UNCHANGED <<settings, handles, guard, desc, pending>>

(* rename of the hidden name.                                              *)
Replace(t) ==
  LET p == desc[request[t].d].path IN
  /\ request[t].step = "replace"
  /\ \/ /\ tree[p] # "dir"
        /\ tree' = [tree EXCEPT ![p] = "link", ![request[t].hidden] = Absent]
        /\ Goto(t, "release")
     \/ Goto(t, "unhide") /\ UNCHANGED tree
  /\ UNCHANGED <<settings, handles, guard, desc, pending>>

(* When that fails the hidden name is removed, if possible.                *)
Unhide(t) ==
  /\ request[t].step = "unhide"
  /\ tree' \in {tree, [tree EXCEPT ![request[t].hidden] = Absent]}
  /\ Leave(t)
  /\ UNCHANGED <<settings, handles, desc, pending>>

(* The descriptor becomes that of a reparse point, which is not open.      *)
Release(t) ==
  LET d == request[t].d IN
  /\ request[t].step = "release"
  /\ handles' = Released(desc[d].fh)
  /\ desc' = [desc EXCEPT ![d].rp = TRUE, ![d].fh = NoHandle]
  /\ Leave(t)
  /\ UNCHANGED <<settings, tree, pending>>

-----------------------------------------------------------------------------
Create(t) ==
  StartCreate(t) \/ Check(t) \/ Stat(t) \/ OpenIt(t) \/ Make(t) \/ Collide(t)
    \/ OpenMade(t) \/ Setup(t) \/ Undo(t) \/ Opened(t)

SetReparsePoint(t) ==
  NewHiddenName(t) \/ Hide(t) \/ RemoveDirectory(t) \/ Replace(t) \/ Unhide(t) \/ Release(t)

Next ==
  \/ \E t \in Threads :
       \/ Create(t) \/ SetReparsePoint(t)
       \/ Overwritten(t) \/ OverwriteFails(t) \/ Use(t) \/ CanDelete(t) \/ Cleanup(t)
       \/ RenameTarget(t) \/ Rename(t)
       \/ \E d \in Descs :
            \/ StartOverwrite(t, d) \/ StartUse(t, d) \/ StartDisposition(t, d)
            \/ StartCleanup(t, d) \/ StartSetReparsePoint(t, d)
            \/ \E to \in Paths : StartRename(t, d, to)
  \/ \E d \in Descs : Accept(d) \/ Refuse(d) \/ Close(d)

Spec == Init /\ [][Next]_vars

-----------------------------------------------------------------------------
(* The descriptors that own a handle, and the requests that do: a Create   *)
(* between its open and its answer.                                        *)
Live == {d \in Descs : desc[d].state \in {"answered", "overwrite", "open", "cleaned"}}
OpenDescs == {d \in Live : ~desc[d].rp}
OpenOps == {t \in Threads : /\ request[t] # Idle /\ request[t].kind = "create"
                            /\ request[t].fh # NoHandle}

(* Every handle of the FUSE file system is that of one file descriptor or  *)
(* of one Create in progress, so that it is released once, whatever fails; *)
(* a descriptor that is no reparse point has an open handle of its kind,   *)
(* or none where there is none to be had; and a request that has copied    *)
(* a handle finds it open as it needs it (fsp_fuse_intf_Create,            *)
(* SetReparsePoint and Close, and the Close of FspFileSystemOpOverwrite).  *)
HandlesBalanced ==
  /\ \A d \in OpenDescs :
       LET kind == IF desc[d].dir THEN "dir" ELSE "file"
       IN  /\ desc[d].fh # NoHandle <=> HasHandle(kind)
           /\ HasHandle(kind) => handles[desc[d].fh] = kind
  /\ \A h \in Handles :
       Cardinality({d \in OpenDescs : desc[d].fh = h})
         + Cardinality({t \in OpenOps : request[t].fh = h})
           = IF handles[h] = Unopened THEN 0 ELSE 1
  /\ \A t \in Threads :
       LET o == request[t] IN
       o.step = "use" =>
         IF o.fh = NoHandle
         THEN o.use \in {"list", "flush"} /\ desc[o.d].dir /\ ~HasHandle("dir")
         ELSE handles[o.fh] \in CASE o.use = "list" -> {"dir"}
                                  [] o.use = "flush" -> {"dir", "file"}
                                  [] OTHER -> {"file"}

(* What a Create found stays true until it answers (the operation guard):  *)
(* FILE_OPEN_IF and FILE_OVERWRITE_IF create what they did not find and    *)
(* never answer that it exists, and the descriptor of an open is that of   *)
(* the file that has the name, also when a reparse point replaces it.      *)
AnswersAgree ==
  \A t \in Threads :
    /\ request[t].step = "collide" => request[t].disp = "create"
    /\ request[t].step = "opened" => request[t].stat = tree[request[t].path]
=============================================================================
