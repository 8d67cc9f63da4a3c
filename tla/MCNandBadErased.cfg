SPECIFICATION NandSpec
CONSTANTS
  MCPages = 4
  Data <- MCData
  IsHeader <- MCIsHeader
  Length <- MCLength
  LoadAddr <- MCLoadAddr
  DramBase = 10
  HeaderSize = 2
  BlockSizes <- MCBlockSizes
  Scratch = 3
  Residues <- MCResidues
  Half = 1
  Pages = 4
  Flashes <- BadErasedInside
  Marked <- MCMarked
  EccErrors <- MCEccErrors
  EccFixed <- MCEccFixed
PROPERTIES
  BadPagesSkipped
