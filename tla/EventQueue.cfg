SPECIFICATION QueueSpec
CONSTANTS
  PathKinds = {"file.edited"}
  BareKinds = {"session.idle"}
  Paths = {p1, p2}
  MaxPathsPerKind = 1
  MaxEnqueues = 4
INVARIANTS NothingForgotten CloseDrains
PROPERTIES ChangesReported
CHECK_DEADLOCK FALSE
