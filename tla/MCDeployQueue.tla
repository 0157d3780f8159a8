--------------------------- MODULE MCDeployQueue ---------------------------
(* Small instances of DeployQueue.                                         *)
EXTENDS DeployQueue, TLC

Symmetry == Permutations(Apps) \cup Permutations(Tags) \cup Permutations(JobIds)
              \cup Permutations(Callers)

(* For the run about order and limit, which concern pending jobs alone: no *)
(* state beyond the first disabled application or the first ended or       *)
(* canceled job is explored.                                               *)
OnlyPending ==
  /\ \A a \in Apps : apps[a] # "disabled"
  /\ \A j \in Rows : jobs[j].status \in {"pending", "in_progress"}

=============================================================================
