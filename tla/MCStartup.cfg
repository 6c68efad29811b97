SPECIFICATION FairSpec
CONSTANTS
  Word = 256
  OldBase <- MCOldBase
  BASE_ADJUST = 31
  AllMemory = 512
  CHAR_W = 2
  CHAR_H = 2
  WIDTH = 4
  HEIGHT = 6
  Chars = {x, y}
  Newline = newline
  Machines <- MCMachines
  MaxText = 7
INVARIANTS MachineKnown ScreenRight
           PartitionsInPlace FirstConfigRuns LinesRead PathsResolve
PROPERTY Starts
\* The loader stops where it has no configuration, or after it.
CHECK_DEADLOCK FALSE
