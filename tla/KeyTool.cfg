SPECIFICATION Spec
CONSTANTS
  Pair = {"a", "b"}
  Message = {"m1", "m2"}
  Signs <- MCSigns
  Network = {"main", "test"}
  Count <- MCCount
  MaxSignatures = 2
INVARIANTS
  KeysAddUp
  VerdictExact
