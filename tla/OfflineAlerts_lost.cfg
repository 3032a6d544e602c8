SPECIFICATION FairSpecOffline
CONSTANTS
  Evaluator = {e1}
  Duration = 1
  MaxTime = 2
  MaxRefreshes = 0
  MaxEvalFaults = 0
PROPERTIES OfflineRuleFires
CHECK_DEADLOCK FALSE
