SPECIFICATION StoresSpec
CONSTANTS
    Components = {"postgres"}
    p1 = p1  p2 = p2  w1 = w1  w2 = w2  n1 = n1  n2 = n2  f1 = f1  f2 = f2  f3 = f3  k1 = k1
    NoDelivery = NoDelivery  Workers <- MCWorkers  Workflows <- MCWorkflows  Delays <- MCDelays
    Lease = 2  Mark = 1  Skew = 1  MaxTime = 5
    Procs = {n1, n2}  Commands = {f1, f2, f3}  Idler = Idler
    Sessions = {n1, n2}  MaxFence = 2  MaxSequence = 2
    Flows = {f1, f2}  Consumers = {n1, n2}  Nil = Nil  MaxEntry = 2  Batch = 1  Reach = 1
    Passers = {n1, n2}  NoPasser = NoPasser  Fields = {k1}  Budget = 2  Window = 1  Ttl = 3
    MaxClock = 4  MaxMinted = 3  MaxFields = 2
    Steps = {n1, n2}  Spans = {1, 3}  Grant = 5  TickWorth = 2  Lag = 1  LastInstant = 5
VIEW StoresView
SYMMETRY Alike
INVARIANT NoneBehindTheCursor
CHECK_DEADLOCK FALSE
