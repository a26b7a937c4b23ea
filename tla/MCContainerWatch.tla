-------------------------- MODULE MCContainerWatch --------------------------
(* Model-checking instance of ContainerWatch: boot starts an app that never *)
(* answers, or adopts one that does (a container) or that is not probed;    *)
(* what is left of an earlier control plane is one of a few rows and states *)
(* of Docker.                                                               *)
EXTENDS ContainerWatch

MCInit ==
    /\ Init
    /\ auto <=> health = "sick"
    /\ health = "well" => kind = "docker"
    /\ status \in {"stopped", "starting", "running"}
    /\ container \in {"none", "running"}

MCFairSpec == MCInit /\ [][Next]_vars /\ Fairness
=============================================================================
