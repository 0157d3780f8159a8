--------------------------- MODULE MCCoordinator ---------------------------
(* A small instance of Coordinator: one client, the scheduler, two jobs.   *)
EXTENDS Coordinator, TLC

CONSTANTS c1, s, j1, j2

CallersOfRun == {c1, s, j1, j2}

Symmetry == Permutations(JobIds) \cup Permutations(Tags)

=============================================================================
