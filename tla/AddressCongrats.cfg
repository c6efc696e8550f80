SPECIFICATION Spec
CONSTANTS
  NumCores = 2
  ThreadCap = 100
  Key <- MCKey
  Target <- MCTarget
  Exact <- MCExact
  Folded <- MCFolded
  Unverifiable = {"broken"}
  Request <- MCRequest
INVARIANT CongratsTruthful
