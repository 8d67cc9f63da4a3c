SPECIFICATION FairNanoBootSpec
CONSTANTS
  Data <- MCData
  IsHeader <- MCIsHeader
  Length <- MCLength
  LoadAddr <- MCLoadAddr
  DramBase = 8
  HeaderSize = 2
  BlockSizes <- MCBlockSizes
  Scratch = 3
  Residues <- MCResidues
  Half = 1
  Pages = 3
  Flashes <- MCFlashes
  Marked <- MCMarked
  EccErrors <- MCEccErrors
  EccFixed <- MCEccFixed
  ByteMod = 8
  SOH = 1
  EOT = 4
  Files <- MCFiles
  TimerMod = 10
  Short = 0
  Long = 3
  LineCap = 10
  ReplyCap = 3
  FaultKinds <- MCLossy
  MaxFaults = 2
  MaxRestarts = 1
  FastLine = TRUE
INVARIANTS
  OneSource
PROPERTIES
  KeepsPromise
  Recovers
