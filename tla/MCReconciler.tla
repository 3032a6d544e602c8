---------------------------- MODULE MCReconciler ----------------------------
(* Instance of Reconciler for TLC: two workers, and either a burst of two  *)
(* changes, or one change with a failure and a lost session.               *)
EXTENDS Reconciler

CONSTANTS w1, w2

VARIABLE story

TwoWorkers == {w1, w2}

InitBounded == Init /\ story \in {"burst", "failures"}

NextBounded ==
  /\ Next /\ UNCHANGED story
  /\ story = "burst" => faults' = 0 /\ lost' = 0
  /\ story = "failures" => db' <= 1

SpecBounded == InitBounded /\ [][NextBounded]_<<vars, story>> /\ Fairness
=============================================================================
