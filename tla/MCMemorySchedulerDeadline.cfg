SPECIFICATION Spec
CONSTANTS
  p1 = p1
  p2 = p2
  w1 = w1
  w2 = w2
  r1 = r1
  r2 = r2
  r3 = r3
  NoDelivery = NoDelivery
  Workers <- MCWorkers
  Workflows <- MCWorkflows
  Receipts <- MCReceipts
  Delays <- MCSoonAndLate
  Lease = 2
  MaxQueue = 1
  MaxFailures = 0
INVARIANT AskedIsKept
CHECK_DEADLOCK FALSE
