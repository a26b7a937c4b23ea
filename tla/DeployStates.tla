---------------------------- MODULE DeployStates ----------------------------
(***************************************************************************)
(* What services/deployStateMachine.ts promises of a deployment: a closed  *)
(* set of states and a table of the transitions between them.              *)
(***************************************************************************)
CONSTANT Deployment

VARIABLE state      \* the state of each deployment; "absent" before its row

States == {"queued", "cloning", "building", "starting", "healthy", "failed", "rolled_back"}

Transitions(from) ==
    CASE from = "queued"   -> {"cloning", "failed", "rolled_back"}
      [] from = "cloning"  -> {"building", "failed", "rolled_back"}
      [] from = "building" -> {"starting", "failed", "rolled_back"}
      [] from = "starting" -> {"healthy", "failed", "rolled_back"}
      [] from \in {"healthy", "failed"} -> {"rolled_back"}
      [] OTHER -> {}

Init == state = [d \in Deployment |-> "absent"]

Create(d) ==
    /\ state[d] = "absent"
    /\ state' = [state EXCEPT ![d] = "queued"]

Move(d) == \E to \in Transitions(state[d]) : state' = [state EXCEPT ![d] = to]

Next == \E d \in Deployment : Create(d) \/ Move(d)

Spec == Init /\ [][Next]_state
=============================================================================
