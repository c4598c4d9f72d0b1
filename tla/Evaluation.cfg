SPECIFICATION Spec
CONSTANTS
  Tiers = {"local-practical"}
  RoutesReachable = TRUE
  InitialRounds = 1
  Rounds = 1
  MinDelta = 1
  MaxRatio = 2
  Schedule <- MCSchedule
  Measurements <- MCMeasurements
  OlderBaselines <- MCOlderBaselines
  MigratedAt = {1}
  MaxHead = 2
  MaxExecutions = 4
  CommitsDuringRun = FALSE
INVARIANTS TracedResults RestsOnItsHead
PROPERTIES GapHeld NothingLost
CHECK_DEADLOCK FALSE
