SPECIFICATION XmodemSpec
CONSTANTS
  Data <- MCData
  IsHeader <- MCIsHeader
  Length <- MCLongLength
  LoadAddr <- MCLoadAddr
  DramBase = 12
  HeaderSize = 2
  BlockSizes <- MCBlockSizes
  Scratch = 1
  Residues <- MCResidues
  ByteMod = 8
  SOH = 1
  EOT = 4
  Files <- MCLongFile
  TimerMod = 6
  Short = 0
  Long = 1
  LineCap = 5
  ReplyCap = 3
  FaultKinds <- MCLossy
  MaxFaults = 0
  MaxRestarts = 1
  FastLine = FALSE
INVARIANTS
  AckAfterBlock
