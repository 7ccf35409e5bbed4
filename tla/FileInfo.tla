------------------------------ MODULE FileInfo ------------------------------
(***************************************************************************)
(* The file information that a file node keeps itself, next to what it has *)
(* in the meta caches (module MetaCache): the sizes of a file or stream,   *)
(* and the basic information that a main file shares with its streams.     *)
(*                                                                         *)
(* Queries and changes follow the protocol of the meta caches, under the   *)
(* resource of the main file, with a change number that is made of those   *)
(* of a stream and of its main file.  "version" is here the size that user *)
(* mode has, and "answer" the pair of size and basic information.          *)
(***************************************************************************)
EXTENDS MetaCache

CONSTANTS
  MainFile,       \* the node of the main file; the others are its streams
  MainModulus,    \* 2^20, the bits of the main file in a change number
  StreamModulus,  \* 2^12, the bits of a stream
  MaxInfo,        \* bound: changes of the sizes and the basic information
  MaxInfoChange   \* bound: change number up to which user mode is asked

ASSUME FileInfoAssumption ==
  /\ MainFile \in Nodes
  /\ MainModulus \in Nat \ {0}
  /\ StreamModulus \in Nat \ {0}
  /\ MaxInfo \in Nat
  /\ MaxInfoChange \in Nat

VARIABLES
  basic,      \* the basic information of the file, as user mode has it
  size,       \* Header.FileSize and Header.AllocationSize of each node
  times,      \* FileAttributes, the times, etc. of the main file's node
  fileValid,  \* FileInfoExpirationTime of each node has not passed
  basicValid  \* BasicInfoExpirationTime of the main file has not passed

infoVars == <<basic, size, times, fileValid, basicValid>>
itemVars == <<kind, cacheVars, stored, inv>>
fileVars == <<vars, infoVars>>

InfoInit ==
  /\ Init
  /\ basic = 0
  /\ size = [n \in Nodes |-> 0]
  /\ times = 0
  /\ fileValid = [n \in Nodes |-> FALSE]
  /\ basicValid = FALSE

-----------------------------------------------------------------------------
(* The lock of a stream is that of its main file. *)
InfoUnowned == Unowned(MainFile)

(* FspFileNodeFileInfoChangeNumber. *)
FileInfoChangeNumber(n) ==
  IF n = MainFile
  THEN <<change[n] % MainModulus>>
  ELSE <<change[MainFile] % MainModulus, change[n] % StreamModulus>>

(* The condition of FspFileNodeTryGetFileInfo. *)
InfoCached(n) == fileValid[n] /\ (n # MainFile => basicValid)

(* Mutant: a stream does not count the change of its main file.            *)
SetFileInfoOfStream(n, info) ==
  /\ size' = [size EXCEPT ![n] = info[1]]
  /\ times' = info[2]
  /\ fileValid' = [fileValid EXCEPT ![n] = TRUE]
  /\ basicValid' = TRUE
  /\ change' = [change EXCEPT ![n] = @ + 1]

(* FspFileNodeSetFileInfo: a stream sets the basic information of its main *)
(* file, which it also keeps from expiring, and counts for both.           *)
SetFileInfo(n, info) ==
  /\ size' = [size EXCEPT ![n] = info[1]]
  /\ times' = info[2]
  /\ fileValid' = [fileValid EXCEPT ![n] = TRUE]
  /\ basicValid' = TRUE
  /\ change' = [m \in Nodes |-> IF m \in {n, MainFile} THEN change[m] + 1 ELSE change[m]]

-----------------------------------------------------------------------------
(* Queries and changes. *)

(* FspFsvolQueryInformation finds the information expired, ...             *)
InfoAsk(q, n) ==
  /\ kind = "fileinfo"
  /\ req[q].pc = "idle"
  /\ owner[MainFile] = None
  /\ ~InfoCached(n)
  /\ change[MainFile] < MaxInfoChange
  /\ Share(MainFile, q)
  /\ req' = [req EXCEPT ![q].pc = "asked", ![q].file = n]
  /\ UNCHANGED <<itemVars, change, version, owner, infoVars>>

(* ... user mode answers, ...                                              *)
InfoAnswer(q) ==
  /\ kind = "fileinfo"
  /\ req[q].pc = "asked"
  /\ req' = [req EXCEPT ![q].pc = "answered",
                        ![q].answer = <<version[req[q].file], basic>>]
  /\ UNCHANGED <<itemVars, change, version, lockVars, infoVars>>

(* ... the completion notes the change number and unlocks the node, ...    *)
InfoComplete(q) ==
  /\ kind = "fileinfo"
  /\ req[q].pc = "answered"
  /\ Unshare(q)
  /\ req' = [req EXCEPT ![q].pc = "retry",
                        ![q].seen = FileInfoChangeNumber(req[q].file)]
  /\ UNCHANGED <<itemVars, change, version, owner, infoVars>>

(* ... and locks it exclusive, now or when it is retried.  An answer that  *)
(* was overtaken is replaced by what the node has.                         *)
InfoTrySet(q) ==
  LET n == req[q].file
  IN  /\ kind = "fileinfo"
      /\ req[q].pc = "retry"
      /\ InfoUnowned
      /\ IF FileInfoChangeNumber(n) = req[q].seen
         THEN SetFileInfo(n, req[q].answer)
         ELSE UNCHANGED <<change, size, times, fileValid, basicValid>>
      /\ Finish(q)
      /\ UNCHANGED <<itemVars, version, lockVars, basic>>

(* A write, a flush, SetEndOfFile, SetBasicInfo, an overwrite...           *)
InfoChange(q, n) ==
  /\ kind = "fileinfo"
  /\ req[q].pc = "idle"
  /\ InfoUnowned
  /\ Lock(MainFile, q)
  /\ req' = [req EXCEPT ![q].pc = "setting", ![q].file = n]
  /\ UNCHANGED <<itemVars, change, version, sharers, infoVars>>

(* ... changes the size, the times, or both, or fails; the completion sets *)
(* what user mode reports.                                                 *)
InfoChanged(q) ==
  LET n == req[q].file
  IN  /\ kind = "fileinfo"
      /\ req[q].pc = "setting"
      /\ \/ /\ version[n] + basic < MaxInfo
            /\ \/ version' = [version EXCEPT ![n] = @ + 1] /\ UNCHANGED basic
               \/ basic' = basic + 1 /\ UNCHANGED version
            /\ SetFileInfo(n, <<version'[n], basic'>>)
         \/ UNCHANGED <<version, change, infoVars>>
      /\ Unlock(q)
      /\ Finish(q)
      /\ UNCHANGED <<itemVars, sharers>>

(* FspFileNodeInvalidateFileInfo, for a notification, under the exclusive  *)
(* lock: the basic information of the main file expires with a stream.     *)
InvalidateFileInfo(n) ==
  /\ kind = "fileinfo"
  /\ InfoUnowned
  /\ fileValid' = [fileValid EXCEPT ![n] = FALSE]
  /\ basicValid' = FALSE
  /\ UNCHANGED <<vars, basic, size, times>>

(* Time passes.  Every setting of the information is also one of the basic *)
(* information, which is the last to expire.                               *)
InfoExpire ==
  /\ \/ /\ basicValid /\ \A n \in Nodes : ~fileValid[n]
        /\ basicValid' = FALSE
        /\ UNCHANGED fileValid
     \/ /\ \E n \in Nodes : /\ fileValid[n]
                            /\ fileValid' = [fileValid EXCEPT ![n] = FALSE]
        /\ UNCHANGED basicValid
  /\ UNCHANGED <<vars, basic, size, times>>

-----------------------------------------------------------------------------
InfoQuery(q) ==
  \/ \E n \in Nodes : InfoAsk(q, n)
  \/ InfoAnswer(q) \/ InfoComplete(q) \/ InfoTrySet(q)

InfoSetting(q) == (\E n \in Nodes : InfoChange(q, n)) \/ InfoChanged(q)

InfoNext ==
  \/ Next /\ UNCHANGED infoVars
  \/ \E q \in Queries : InfoQuery(q)
  \/ \E q \in Setters : InfoSetting(q)
  \/ \E n \in Nodes : InvalidateFileInfo(n)
  \/ InfoExpire

InfoSpec ==
  /\ InfoInit
  /\ [][InfoNext]_fileVars
  /\ WF_vars(Sweep)
  /\ WF_vars(\E k \in 1 .. Len(list) : Expire(k))

-----------------------------------------------------------------------------
(* Properties. *)

(* What applications are told of a file without asking user mode is what   *)
(* user mode has, when nobody holds the file to change it: an answer is    *)
(* dropped when the file, or any of its streams as far as they share their *)
(* basic information, was changed while it was under way.  As long as the  *)
(* main file is changed less than 2^20 times meanwhile, the 12 bits of a   *)
(* stream may wrap around (FspFileNodeFileInfoChangeNumber).               *)
InfoCoherent ==
  kind = "fileinfo" /\ owner[MainFile] = None =>
    \A n \in Nodes : InfoCached(n) => size[n] = version[n] /\ times = basic

=============================================================================
