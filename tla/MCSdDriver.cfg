\* Every command may fail, at any time, with any kind of card.
SPECIFICATION FairSpec
CONSTANTS
  Kinds <- MCKinds
  MayFail <- MCFaults
  BaseClock = 2500
INVARIANTS DataCommandInTran ClockFits
PROPERTIES RemovalStopsData Recovers
CHECK_DEADLOCK FALSE
