SPECIFICATION Spec
CONSTANTS
  b1 = b1
  b2 = b2
  Branches <- MCBranches
  Script <- MCScript
  Duration <- MCDuration
  Limit = 2
  Combinators <- MCOwned
  MaxPasses = 2
  MaxInbox = 2
  MaxTime = 2
INVARIANTS
  EveryDeadlineIsReported
  EffectsOutliveCancellation
  ReadsReplayAlike
  CompletedOwesNothing
CHECK_DEADLOCK FALSE
