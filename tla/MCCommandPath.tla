--------------------------- MODULE MCCommandPath ---------------------------
(* Instance of CommandPath for TLC: one command with failures, or two      *)
(* commands of one session that may pass their deadlines and meet none.    *)
EXTENDS CommandPath

CONSTANTS c1, c2

NextBounded ==
  /\ Next
  /\ status'[c2] # "none" =>
       status'[c1] # "none" /\ faults' = 0 /\ opened' <= 1

SpecBounded == Init /\ [][NextBounded]_vars /\ Fairness
=============================================================================
