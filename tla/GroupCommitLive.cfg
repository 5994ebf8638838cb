SPECIFICATION FairSpec
CONSTANTS
  Threads = {t1, t2, t3}
  NoThread = NoThread
  MaxBatchSize = 1
  MaxCalls = 2
  MaxPuts = 1
  MaxSpurious = 0
PROPERTY EveryWriteReturns
CHECK_DEADLOCK FALSE
