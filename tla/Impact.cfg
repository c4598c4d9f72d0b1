SPECIFICATION ImpactSpec
CONSTANTS
  Changes <- MCChanges
  MaxDepth = 2
  Floor = 0
  InferredFloor = 4
CHECK_DEADLOCK FALSE
INVARIANTS ImpactIsExact NothingUnobliged
