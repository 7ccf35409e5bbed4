---------------------------- MODULE MCServiceHost ----------------------------
(* Instances of ServiceHost for TLC. *)
EXTENDS ServiceHost

=============================================================================
