SPECIFICATION SpecBounded
CONSTANTS
  r1 = r1  r2 = r2
  Request <- TwoCalls
  Handled <- OneCall
  MaxPending = 2
  BatchSize = 2
  MaxFaults = 4
INVARIANTS RpcSafety HonestOutcome
PROPERTIES DecisionsStand RpcLiveness
CHECK_DEADLOCK FALSE
