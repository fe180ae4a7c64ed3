SPECIFICATION Spec
CONSTANTS
  p1 = p1
  p2 = p2
  w1 = w1
  NoWorker = NoWorker
  NoWorkflow = NoWorkflow
  Workers <- MCWorkers
  Workflows <- MCWorkflows
  Script <- MCShortScript
  MaxInterruptions = 0
INVARIANT DeletedStaysEmpty
CHECK_DEADLOCK FALSE
