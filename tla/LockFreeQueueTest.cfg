SPECIFICATION FairSpec
CONSTANTS
  Producers = {p}
  Consumers = {c}
  Nodes = {n1, n2, n3, n4}
  Null = Null
  MaxValue = 4
  MaxFails = 1
INVARIANT NodesOutliveTheirUse
PROPERTY NonEmptyStays
PROPERTY ImplementsFifo
PROPERTY EveryValueArrives
CHECK_DEADLOCK FALSE
