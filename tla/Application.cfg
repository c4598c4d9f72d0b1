SPECIFICATION Spec
CONSTANTS
  Scenarios <- MCScenarios
  Paths = {"a", "b"}
  Calls = {"symbol", "impact", "context", "verify"}
  Declared <- MCDeclared
  Tasks = {"bug_fix", "runtime_boundary"}
  Requirements <- MCRequirements
  Items <- MCItems
  Target <- MCTarget
  Flags <- MCFlags
  MaxEdits = 2
  MaxCommits = 1
  MaxRevisions = 3
CHECK_DEADLOCK FALSE
INVARIANTS AnswersAreOfTheHead PlanFollowsSignals CompleteIsVerified ActiveAnswersAreCurrent
