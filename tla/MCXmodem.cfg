SPECIFICATION FairReceiverSpec
CONSTANTS
  Data <- MCData
  IsHeader <- MCIsHeader
  Length <- MCLength
  LoadAddr <- MCLoadAddr
  DramBase = 6
  HeaderSize = 2
  BlockSizes <- MCBlockSizes
  Scratch = 1
  Residues <- MCResidues
  ByteMod = 8
  SOH = 1
  EOT = 4
  Files <- MCFiles
  TimerMod = 6
  Short = 0
  Long = 1
  LineCap = 6
  ReplyCap = 2
  FaultKinds <- MCNoisy
  MaxFaults = 1
  MaxRestarts = 1
  FastLine = FALSE
PROPERTIES
  AttemptEnds
  LoaderSpec
INVARIANTS
  XmodemTypeOK
  StreamIsFile
  AckAfterBlock
  TimeoutBeforeWrap
