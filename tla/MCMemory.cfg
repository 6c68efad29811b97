SPECIFICATION MemorySpec
CONSTANTS
  Size = 14
  Page = 2
  Align = 2
  Low = 6
  ImageEnd = 1
  MaxBrk = 4
  Regions <- MCRegions
  Wrapping = FALSE
  MaxCalls = 3
INVARIANTS ChunksInMemory ChunksDisjoint LowMemory RefusedOnlyWhenFull
CHECK_DEADLOCK FALSE
