SPECIFICATION FairSpec
CONSTANTS
  n1 = n1
  n2 = n2
  n3 = n3
  Node = {n1, n2, n3}
  Times = {1, 2}
  InitialPeers <- Tables
  MaxBlocks = 2
  MaxUpsets = 1
INVARIANTS
  TypeOK
  SparedIsUpToDate
  NobodyLeftOut
PROPERTIES
  GossipRunsDown
  GossipRests
  Converges
  ImplementsReplicas
CHECK_DEADLOCK FALSE
