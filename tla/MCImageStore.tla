---------------------------- MODULE MCImageStore ----------------------------
(* Small instances of ImageStore for TLC. *)
EXTENDS ImageStore, TLC

Symmetry == Permutations(Images) \cup Permutations(Jobs) \cup Permutations(Requests)
                \cup Permutations(Downloads)

=============================================================================
