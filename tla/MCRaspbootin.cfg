SPECIFICATION FairSpec
CONSTANTS
  DirSizes = {0, 1}
  BufWords = 2
  MaxCalls = 1
  MaxFaults = 1
INVARIANTS CapabilitiesRight AnswerBelongs
PROPERTY CallReturns
\* The calls are bounded.
CHECK_DEADLOCK FALSE
