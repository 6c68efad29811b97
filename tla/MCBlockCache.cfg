\* Every interleaving of requests and failures of the card.
SPECIFICATION Spec
CONSTANTS
  a = a
  b = b
  Junk = Junk
  Empty = Empty
  Data <- MCData
  CacheEntries <- MCCacheEntries
  NumBlocks = 4
  MaxCount = 3
  MayFail <- Both
  MultiRead = TRUE
INVARIANTS Coherent ReadsSeeDisk WritesAPrefix
PROPERTIES ImplementsBlockStore
\* After an overrun nothing is the program's doing any more.
CHECK_DEADLOCK FALSE
