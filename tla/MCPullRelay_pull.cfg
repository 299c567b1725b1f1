\* Two applications, two loops.
SPECIFICATION FairSpec
CONSTANTS
  p1 = p1
  p2 = p2
  Players = {p1, p2}
  LoopOf <- MCLoopOf
  Scenarios <- MCScenarios
  Loops = 2
  MaxRetry <- MCMaxRetry
  Interval <- MCInterval
  Pulls <- MCPulls
  Sessions = {"a", "b", "c"}
  None = None
INVARIANTS
  CallsLiveObjects
  RetriesBounded
PROPERTY PullSettles
CHECK_DEADLOCK FALSE
