SPECIFICATION SpecAny
CONSTANTS
  Process = {"I", "J"}
  Serving <- ThreeWorkers
  ProcessOf <- Processes
  Conn = {"k1", "k2"}
  MaxEpoch = 2
  MaxMishaps = 1
  e1 = e1
  e2 = e2
  Editor = {e1, e2}
  Sessions = 3
  MaxEdits = 2
  MaxClock = 2
  MaxLosses = 1
  Incarnation = {"i", "j", "k"}
  Capacity = 2
  BatchSize = 2
  MaxAccepts = 2
  MaxFaults = 2
INVARIANTS RouteSafety EdgeConfigSafety EdgeStreamSafety
PROPERTIES LiveRouteIsKept OneConnectionStays NodeNeverGoesBack PendingSettles EdgeStreamsEmpty
CHECK_DEADLOCK FALSE
