------------------------------ MODULE MCGitOps ------------------------------
(* GitOps on small sets; commits, and the tasks of handlers, are interchangeable. *)
EXTENDS GitOps, TLC

Symmetry == Permutations(Task) \cup Permutations(Commit)
=============================================================================
