\* A failed write leaves slots that differ from the card.
SPECIFICATION Spec
CONSTANTS
  a = a
  b = b
  Junk = Junk
  Empty = Empty
  Data <- MCData
  CacheEntries <- MCCacheEntries
  NumBlocks = 3
  MaxCount = 2
  MayFail <- Both
  MultiRead = TRUE
INVARIANTS WriteThrough
CHECK_DEADLOCK FALSE
