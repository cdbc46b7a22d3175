SPECIFICATION FairSpec
CONSTANTS
  p1 = p1
  p2 = p2
  p3 = p3
  Peer = {p1, p2, p3}
  InitialPeers = {{}, {p1}, {p1, p2, p3}}
  Buffer = 2
  Lengths = {1, 2, 3}
  MaxUpsets = 1
INVARIANTS
  TypeOK
  OkHidesNoOtherLoss
  RetryNeverDoubles
  SmoothIsHandled
PROPERTY Served
CHECK_DEADLOCK FALSE
