SPECIFICATION Spec
CONSTANTS
  NoValue = NoValue
  Key <- MCKey
  Value <- MCValue
  Number <- MCNumber
  Negated <- MCNegated
  Network <- MCNetwork
  Secret <- MCSecret
  AlertKey <- MCAlertKey
  ConfLine <- ConfLines
  FileLine <- FileLines
  MaxConf = 2
  MaxFile = 3
INVARIANTS
  NetworkFromConf
  OnlyAuthorizedRelay
  NodesUsable
  ReportExact
  NothingLeaks
  AlertFromFiles
  NodesFromFiles
PROPERTY AlertSafety
