SPECIFICATION CacheSpec
CONSTANTS
  hdrA = hdrA
  hdrB = hdrB
  code = code
  Data <- MCData
  IsHeader <- MCIsHeader
  Length <- MCLength
  LoadAddr <- MCLoadAddr
  DramBase = 6
  HeaderSize = 2
  BlockSizes <- MCBlockSizes
  Scratch = 1
  Residues <- MCResidues
  Entries = 2
  ISets = 1
  DSets = 2
  Garbage <- MCGarbage
INVARIANTS
  LoaderTypeOK
  ImageComplete
  LoaderInv
  LoadsSeeStores
  ExecutesImage
PROPERTIES
  MovesForward
