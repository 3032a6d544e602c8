SPECIFICATION SpecBounded
CONSTANTS
  w1 = w1  w2 = w2
  Worker <- TwoWorkers
  MaxChanges = 2
  Batch = 1
  CoalesceLimit = 2
  MaxFaults = 1
  MaxLost = 1
INVARIANTS ReconcilerSafety
PROPERTIES ImplementsPromise EveryEntryRemoved
CHECK_DEADLOCK FALSE
