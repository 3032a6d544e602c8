SPECIFICATION SpecBounded
CONSTANTS
  c1 = c1  c2 = c2
  Command = {c1, c2}
  MaxSession = 2
  MaxQueue = 1
  MaxFaults = 2
INVARIANTS CommandSafety OutcomeIsReal
PROPERTIES SettledForGood EveryCommandSettles
CHECK_DEADLOCK FALSE
