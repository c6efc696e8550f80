SPECIFICATION FairSpec
CONSTANTS
  Network = "main"
  NumCores = 2
  ThreadCap = 100
  Half = 2
  Flag = 1
  Solution <- MainSolution
  RefreshAfter = 0
  StartTime = 5
  MaxClock = 0
INVARIANTS
  BoxesContiguous
  ReturnedWithReport
PROPERTY
  Termination
