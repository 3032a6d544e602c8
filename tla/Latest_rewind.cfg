SPECIFICATION SpecLatest
CONSTANTS
  Sweeper = {s1}
  Projector = {p1}
  Window = 1
  MaxNow = 2
  MaxProjections = 1
PROPERTIES ProjectionKeepsReports
CHECK_DEADLOCK FALSE
