------------------------- MODULE MCPersistedUploads -------------------------
(* Model-checking instance of PersistedUploads. *)
EXTENDS PersistedUploads, TLC

Symmetry == Permutations(File)
=============================================================================
