SPECIFICATION SpecAll
CONSTANTS
  Reports = 2
  High = {1}
  AlertWorker = {w1, w2}
  Silence = 1
  Calm = 0
  MaxClock = 1
  MaxOffline = 1
  MaxAlertFaults = 1
  Evaluator = {e1}
  Duration = 1
  MaxTime = 2
  MaxRefreshes = 1
  MaxEvalFaults = 1
  Area = {"device", "link"}
  Channel = {"device", "device.realtime"}
  ReadCount = 2
  MaxEdits = 2
  MaxBroken = 2
  MaxMisses = 1
INVARIANTS AlertSafety OfflineSafety LiveSafety
PROPERTIES EventsArePublished SilentRaises LiveCatchesUp
CHECK_DEADLOCK FALSE
