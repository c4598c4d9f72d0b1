SPECIFICATION RoutingSpec
CONSTANTS
  Stacks <- MCStacks
  Requests <- MCRequests
  Adapters <- MCAdapters
  MaxRequests = 2
CHECK_DEADLOCK FALSE
INVARIANTS SourceStaysPermitted NoForbiddenFallback SessionsAreClosed
