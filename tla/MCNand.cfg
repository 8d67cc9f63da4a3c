SPECIFICATION FairNandSpec
CONSTANTS
  MCPages = 4
  Data <- MCData
  IsHeader <- MCIsHeader
  Length <- MCLength
  LoadAddr <- MCLoadAddr
  DramBase = 10
  HeaderSize = 2
  BlockSizes <- MCBlockSizes
  Scratch = 3
  Residues <- MCResidues
  Half = 1
  Pages = 6
  Flashes <- MCFlashes
  Marked <- MCMarked
  EccErrors <- MCEccErrors
  EccFixed <- MCEccFixed
INVARIANTS
  NandTypeOK
  StreamIsFlashed
  ImageComplete
PROPERTIES
  BadPagesSkipped
  LoaderSpec
  SweepEnds
  BootsIntactCopy
