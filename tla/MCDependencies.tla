--------------------------- MODULE MCDependencies ---------------------------
(* Model-checking instance of Dependencies: services of a kind are          *)
(* interchangeable; the daemon starts with nothing running and brings up    *)
(* any of them.                                                             *)
EXTENDS Dependencies, TLC

Symmetry == {p \in Permutations(Services) : \A s \in Processes : p[s] \in Processes}

MCInit ==
    /\ Init
    /\ \A s \in Services : status[s] = "stopped" /\ s \notin dependsOn[s]

MCSpec == MCInit /\ [][Next]_vars
=============================================================================
