--------------------------- MODULE MCDomainBinding ---------------------------
(* DomainBinding on small sets; tasks, services and domains are each        *)
(* interchangeable.                                                         *)
EXTENDS DomainBinding, TLC

Symmetry == Permutations(Task) \cup Permutations(Service) \cup Permutations(Domain)
=============================================================================
