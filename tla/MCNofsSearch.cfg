\* A file that has grown beyond its first block is opened to append.
SPECIFICATION FairSpec
CONSTANTS
  byteA = byteA
  byteB = byteB
  old = old
  BlockSize = 4
  Word = 64
  NumBlocks = 4
  DiskBlocks = 5
  BomLen = 1
  MarkLen = 2
  Bom = Bom
  Eof = Eof
  Tilde = Tilde
  Data <- MCData
  Payloads <- MCPayloads
  Disks <- MCDisks
  Junk = Junk
  NoBlock <- MCNoBlock
  UsedModes <- MCUsedModes
  Sizes <- MCSizes
  Counts <- MCCounts
  WildPositions <- MCWildPositions
  Offsets <- MCOffsets
  MayFail = {}
  MaxCalls = 4
PROPERTIES SearchEnds
\* The calls are bounded.
CHECK_DEADLOCK FALSE
