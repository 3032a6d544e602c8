SPECIFICATION SpecBoth
CONSTANTS
  Report = {"r1"}
  Raw = {"r1"}
  Worker = {w1, w2}
  Kind <- Kinds
  MaxSends = 2
  MaxFaults = 2
  Sweeper = {s1}
  Projector = {p1}
  Window = 1
  MaxNow = 2
  MaxProjections = 1
INVARIANTS TelemetrySafety LatestSafety
PROPERTIES KeepsPromise ValueNeverGoesBack SilentGoesStale
CHECK_DEADLOCK FALSE
