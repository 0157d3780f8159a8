---------------------------- MODULE JobLifecycle ----------------------------
(***************************************************************************)
(* What a deploy job promises to whoever submitted it, with the database,  *)
(* the caches and the goroutines abstracted away: a job is submitted once, *)
(* started at most once, and ends in exactly one of three ways that never  *)
(* changes afterwards.  A job that is running can be asked to stop; only a *)
(* job that was asked to stop, or that never started, ends "canceled".     *)
(***************************************************************************)

CONSTANT Jobs   \* The identities of jobs.

VARIABLE life   \* The stage each job has reached.

Stages == {"none", "pending", "in_progress", "cancel_requested",
           "succeeded", "failed", "canceled", "removed"}

Underway == {"in_progress", "cancel_requested"}

Init == life = [j \in Jobs |-> "none"]

(***************************************************************************)
(* Every job of S moves to stage s at once; the others stay where they     *)
(* are.                                                                    *)
(***************************************************************************)
Move(S, s) == life' = [j \in Jobs |-> IF j \in S THEN s ELSE life[j]]

At(stages) == {j \in Jobs : life[j] \in stages}

Submit(j) == life[j] = "none" /\ Move({j}, "pending")

Start(j) == life[j] = "pending" /\ Move({j}, "in_progress")

(* Canceling ends what has not started and signals what has.               *)
Cancel(S) ==
  life' = [j \in Jobs |->
             CASE j \in S /\ life[j] = "pending"     -> "canceled"
               [] j \in S /\ life[j] = "in_progress" -> "cancel_requested"
               [] OTHER                              -> life[j]]

Finish(j) ==
  \/ life[j] \in Underway /\ \E s \in {"succeeded", "failed"} : Move({j}, s)
  \/ life[j] = "cancel_requested" /\ Move({j}, "canceled")

(* After a crash nothing that was underway still is.                       *)
Recover == Move(At(Underway), "failed")

(* Jobs are forgotten together with their application, never while one of  *)
(* them is underway.                                                       *)
Remove(S) == S \cap At(Underway) = {} /\ Move(S, "removed")

Next ==
  \/ \E j \in Jobs : Submit(j) \/ Start(j) \/ Finish(j)
  \/ \E S \in SUBSET Jobs : Cancel(S) \/ (S \subseteq At(Stages \ {"none"}) /\ Remove(S))
  \/ Recover

Spec == Init /\ [][Next]_life

=============================================================================
