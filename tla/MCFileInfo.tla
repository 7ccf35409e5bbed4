----------------------------- MODULE MCFileInfo -----------------------------
(* Instances of FileInfo, and with it of MetaCache, for TLC. *)
EXTENDS FileInfo

=============================================================================
