SPECIFICATION Spec
CONSTANTS
  Results <- MCResults
  Status <- MCStatus
  MaxContent = 2
  MaxSidecars = 2
INVARIANTS RecordedOnce CountedOnce AnsweredAsRecorded
PROPERTIES FailureSticks
CHECK_DEADLOCK FALSE
