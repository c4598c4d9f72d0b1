SPECIFICATION Spec
CONSTANTS
  Calls = 3
  Scenarios <- MCScenarios
INVARIANTS OneStart OneSidecarInSequence RetryIsFresh
PROPERTIES RequestsSettle
CHECK_DEADLOCK FALSE
