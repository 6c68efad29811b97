SPECIFICATION TimerFairSpec
CONSTANTS
  Clock = 12
  Sleeps <- MCSleeps
  Delay = 2
INVARIANTS
  TimedOutInTime
PROPERTIES
  Returns
