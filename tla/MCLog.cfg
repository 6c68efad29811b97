SPECIFICATION Spec
CONSTANTS
  LogFiles = {f1, f2}
  None = None
  Sizes <- MCSizes
  Boot = 3
  MayFail = TRUE
  MaxChars = 5
  MaxCalls = 4
INVARIANTS
  InBuffer
  LogWhole
PROPERTIES
  OnlyTheLogFileGrows
CHECK_DEADLOCK FALSE
