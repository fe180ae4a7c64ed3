SPECIFICATION Spec
CONSTANTS
  b1 = b1
  b2 = b2
  Branches <- MCBranches
  Script <- MCWaits
  Duration <- MCDuration
  Limit = 1
  Combinators <- MCGathered
  MaxPasses = 1
  MaxInbox = 0
  MaxTime = 1
INVARIANT EveryDeadlineIsReported
CHECK_DEADLOCK FALSE
