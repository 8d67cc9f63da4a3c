SPECIFICATION EccSpec
CONSTANTS
  RowBits = 2
  Seeds = {0, 29, 58, 87, 116, 145, 174, 203, 232, 255}
  Blocks <- MCBlocks
INVARIANTS
  EccTypeOK
  ParitySoFar
  Verdict
PROPERTIES
  OnlyRepairs
CHECK_DEADLOCK FALSE
