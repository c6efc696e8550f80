SPECIFICATION Spec
CONSTANTS
  Pair = {"a", "b"}
  Message = {"m"}
  Signs <- MCSigns
  Decodes <- MCDecodes
  MaxLines = 3
INVARIANTS
  TypeOK
  NoneLost
  ClaimedRight
  OwnShown
PROPERTY
  Termination
