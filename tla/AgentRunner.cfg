SPECIFICATION Spec
CONSTANTS
  Rounds = 3
  Threshold = 2
  CriticalTasks = {"critical"}
  Scenarios <- AllScenarios
  BatchSize = 3
  MaxHead = 2
  MaxFaults = 1
INVARIANTS ReportTraced AblationsEarned PositiveIsFinal ClosedIsDecided
PROPERTY WorkDoneOnce
CHECK_DEADLOCK FALSE
