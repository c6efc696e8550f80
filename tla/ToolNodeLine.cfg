SPECIFICATION Spec
CONSTANTS
  NoValue = NoValue
  Key <- MCKey
  Value <- MCValue
  Number <- MCNumber
  Negated <- MCNegated
  Network <- MCNetwork
  Secret <- MCSecret
  AlertKey <- MCAlertKey
  ConfLine <- ConfLines
  FileLine <- AdviceLines
  MaxConf = 1
  MaxFile = 2
INVARIANT NodeLineHelps
