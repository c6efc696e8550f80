SPECIFICATION Spec
CONSTANTS
  COIN = 3
  YearBlocks = 2
  StartBlock = 2
  Superblock <- MCSuperblock
  Payout <- MCPayout
  Subsidy <- MCSubsidy
  IntMax = 15
  Arguments <- MCArguments
  Heights <- MCHeights
  ExampleCalls <- MCExampleCalls
INVARIANTS
  ColumnsExact
  BlockColumnExact
  RowsTile
  HeightsAgree
