----------------------------- MODULE MCLauncher -----------------------------
(* Two names, three instances and two tokens.                              *)
EXTENDS Launcher
=============================================================================
