SPECIFICATION LoaderSpec
CONSTANTS
  hdrA = hdrA
  hdrB = hdrB
  code = code
  Data <- MCData
  IsHeader <- MCIsHeader
  Length <- MCLength
  LoadAddr <- MCLoadAddrZero
  DramBase = 7
  HeaderSize = 2
  BlockSizes <- MCBlockSizes
  Scratch = 2
  Residues <- MCResidues
INVARIANTS
  ImageComplete
