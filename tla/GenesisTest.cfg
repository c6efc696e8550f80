SPECIFICATION Spec
CONSTANTS
  Network = "test"
  NumCores = 3
  ThreadCap = 2
  Half = 4
  Flag = 2
  Solution <- TestSolution
  RefreshAfter = 1
  StartTime = 5
  MaxClock = 1
INVARIANTS
  NonceMixed
  ReportsAreSolutions
  CounterCountsFinders
  DisjointScans
  TimeFollowsClock
PROPERTY
  SearchSafety
