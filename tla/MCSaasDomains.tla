--------------------------- MODULE MCSaasDomains ---------------------------
(* Model-checking instance of SaasDomains. *)
EXTENDS SaasDomains, TLC

Symmetry == Permutations(Service)
=============================================================================
