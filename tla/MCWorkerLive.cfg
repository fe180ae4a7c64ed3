SPECIFICATION FairSpec
CONSTANTS
  p1 = p1
  p2 = p2
  w1 = w1
  NoWorker = NoWorker
  NoWorkflow = NoWorkflow
  Workers <- MCWorkers
  Workflows <- MCWorkflows
  Script <- MCScript
  MaxInterruptions = 1
PROPERTY Finishes
CHECK_DEADLOCK FALSE
