------------------------------ MODULE MCAdminUI ------------------------------
(* A small instance of AdminUI.                                            *)
EXTENDS AdminUI

CONSTANTS p1, p2, o1, o2, v1

(* A job of each of two applications: at one row to a page, both together  *)
(* have a page that neither has by itself.                                 *)
PastJobsOfRun ==
  <<[id |-> p1, app |-> o1, status |-> "ended"], [id |-> p2, app |-> o2, status |-> "ended"]>>

PartValuesInRun == [app |-> {v1}, env |-> {v1}, args |-> {v1}]

SavedInRun == {[app |-> v1, env |-> v1, args |-> v1]}

=============================================================================
