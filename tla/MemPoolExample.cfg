SPECIFICATION Spec
CONSTANTS
  MaxMempool <- MCMaxMempool
  TxSize <- MCTxSize
  SigOps = {0, 1}
  Million = 30
  Tenth = 3
INVARIANT
  ExampleEnables
