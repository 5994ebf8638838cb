SPECIFICATION FairSpec
CONSTANTS
  Clients = {c1, c2, c3}
  RequestIDs = {0, 1}
  Objects = {o1, o2, o3}
  MaxBacklog = 2
INVARIANT QueuesMatchClients
PROPERTY ImplementsFairService
PROPERTY NoClientStarves
