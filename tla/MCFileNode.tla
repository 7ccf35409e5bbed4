----------------------------- MODULE MCFileNode -----------------------------
(* Instances of FileNode. *)
EXTENDS FileNode, TLC

MCSymmetry == Permutations(Files) \cup Permutations(FileNames)

Mode(data, delete, shareData, shareDelete, deleteOnClose) ==
  [data |-> data, delete |-> delete, shareData |-> shareData,
   shareDelete |-> shareDelete, deleteOnClose |-> deleteOnClose]

(* A writer that denies deletion, and a caller that deletes: by request,   *)
(* or on close.                                                            *)
MCModes == {Mode(TRUE, FALSE, TRUE, FALSE, FALSE),
            Mode(FALSE, TRUE, TRUE, TRUE, FALSE),
            Mode(FALSE, TRUE, TRUE, TRUE, TRUE)}

Volume(streams, posix, overwrite, files) ==
  [streams |-> streams, posix |-> posix, overwrite |-> overwrite,
   files |-> files]

(* Streams and overwriting, POSIX deletion, and renames, each by itself.   *)
MCVolumes ==
  {Volume(TRUE, FALSE, TRUE, {x}) : x \in FileNames}
    \cup {Volume(FALSE, TRUE, FALSE, {x}) : x \in FileNames}
    \cup {Volume(FALSE, FALSE, FALSE, FileNames)}
MCPlain == {Volume(FALSE, FALSE, FALSE, FileNames)}

(* Bound: files are deleted on close on the volume with POSIX deletion.    *)
MCOnClose == volume.posix \/ \A f \in Files : ~file[f].mode.deleteOnClose
=============================================================================
