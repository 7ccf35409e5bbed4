--------------------------- MODULE MCVolumeNotify ---------------------------
(* Instances of VolumeNotify for TLC. *)
EXTENDS VolumeNotify, TLC

Symmetry == Permutations(Renames) \union Permutations(Others) \union
            Permutations(Works) \union Permutations(Clients)

=============================================================================
