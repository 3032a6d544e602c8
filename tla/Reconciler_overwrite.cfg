SPECIFICATION Spec
CONSTANTS
  Worker = {w1, w2}
  MaxChanges = 2
  Batch = 1
  CoalesceLimit = 2
  MaxFaults = 0
  MaxLost = 1
PROPERTIES NeverOverwritesNewer
CHECK_DEADLOCK FALSE
