-------------------------- MODULE MCServiceRuntime --------------------------
(* Model-checking instance of ServiceRuntime: tasks and instances are       *)
(* interchangeable.                                                         *)
EXTENDS ServiceRuntime, TLC

Symmetry == Permutations(Task) \cup Permutations(Inst)
=============================================================================
