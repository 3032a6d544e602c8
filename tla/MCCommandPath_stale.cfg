SPECIFICATION Spec
CONSTANTS
  c1 = c1  c2 = c2
  Command = {c1}
  MaxSession = 2
  MaxQueue = 1
  MaxFaults = 1
INVARIANTS RejectedNeverWritten
CHECK_DEADLOCK FALSE
