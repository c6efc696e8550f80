SPECIFICATION Spec
CONSTANTS
  MaxMempool <- MCMaxMempool
  TxSize <- MCTxSize
  SigOps = {0, 1}
  Million = 30
  Tenth = 3
INVARIANTS
  NeverFull
  EndsFull
  ShownInTime
  EntryExact
  EndsOnlyIf
PROPERTY
  Termination
