--------------------------- MODULE MCProcessBuffer ---------------------------
(* Instances of ProcessBuffer for TLC. *)
EXTENDS ProcessBuffer, TLC

Symmetry == Permutations(Processes) \union Permutations(Requests) \union
            Permutations(Entries)

=============================================================================
