\* A file system of four blocks, with a neighbour, on a card that may fail.
SPECIFICATION Spec
CONSTANTS
  byteA = byteA
  byteB = byteB
  old = old
  BlockSize = 4
  Word = 64
  NumBlocks = 4
  DiskBlocks = 5
  BomLen = 1
  MarkLen = 2
  Bom = Bom
  Eof = Eof
  Tilde = Tilde
  Data <- MCData
  Payloads <- MCPayloads
  Disks <- MCDisks
  Junk = Junk
  NoBlock <- MCNoBlock
  UsedModes <- MCUsedModes
  Sizes <- MCSizes
  Counts <- MCCounts
  WildPositions <- MCWildPositions
  Offsets <- MCOffsets
  MayFail <- MCMayFail
  MaxCalls = 4
INVARIANTS Framed ReadsFile WritesRange AppendsAtEnd
\* The calls are bounded.
CHECK_DEADLOCK FALSE
