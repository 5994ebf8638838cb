SPECIFICATION Spec
CONSTANTS
  Threads = {t1, t2, t3}
  NoThread = NoThread
  MaxBatchSize = 2
  MaxCalls = 2
  MaxPuts = 1
  MaxSpurious = 1
SYMMETRY Symmetry
INVARIANT QueueIsAlive
INVARIANT OneLeader
INVARIANT NoLostWakeup
INVARIANT AckedIsLogged
INVARIANT LogFollowsQueue
PROPERTY OnlyLeaderBatchGrows
PROPERTY ImplementsCommitLog
CHECK_DEADLOCK FALSE
