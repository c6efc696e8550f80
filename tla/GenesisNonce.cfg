SPECIFICATION Spec
CONSTANTS
  Network = "test"
  NumCores = 2
  ThreadCap = 100
  Half = 4
  Flag = 2
  Solution <- TestSolution
  RefreshAfter = 1
  StartTime = 5
  MaxClock = 0
INVARIANT OwnNonce
