SPECIFICATION Spec
CONSTANTS
  p1 = p1
  p2 = p2
  w1 = w1
  NoWorker = NoWorker
  NoWorkflow = NoWorkflow
  Workers <- MCWorkers
  Workflows <- MCWorkflows
  Script <- MCScript
  MaxInterruptions = 2
INVARIANTS
  RepeatsArePaidFor
  TransactedOnce
  RecordedInOrder
  RunnableIsQueued
CHECK_DEADLOCK FALSE
