------------------------------- MODULE MCRpc -------------------------------
(* Instance of Rpc for TLC: two calls, one of them without a handler, and  *)
(* room for two tasks, so that an entry can be read again while its task   *)
(* runs.  Failures and the stop of the consumer come to one call; two      *)
(* calls, which may both pass their deadlines, meet neither.               *)
EXTENDS Rpc

CONSTANTS r1, r2

TwoCalls == {r1, r2}
OneCall == {r1}

BothCalled == \A r \in TwoCalls : caller[r] # "idle"

NextBounded ==
  /\ Next
  /\ BothCalled' => faults' = 0 /\ ~stopping'

SpecBounded == Init /\ [][NextBounded]_vars /\ Fairness
=============================================================================
