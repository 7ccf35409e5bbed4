------------------------------- MODULE MCIoq -------------------------------
(***************************************************************************)
(* Model checking of Ioq.  IRPs, and dispatcher threads, are               *)
(* interchangeable; the instances are in MCIoq_*.cfg.                      *)
(***************************************************************************)
EXTENDS Ioq

Symmetry == Permutations(Irps) \union Permutations(Dispatchers)

=============================================================================
