SPECIFICATION FairSpec
CONSTANTS
  r = r
  a = a
  b = b
  x = x
  i1 = i1
  i2 = i2
  i3 = i3
  Proc = {r, a, b}
  Id = {i1, i2, i3}
  Root = r
  Addr = {r, a, b, x}
  Host <- HostAt
  ChainPushers = {r}
  Settings <- NetworkSettings
INVARIANTS
  TypeOK
  UnpushedShareTheirId
  IdsAreRight
  NobodyIsForgotten
PROPERTIES
  LivePeersStay
  EveryoneKnowsEveryone
  PeersRest
CHECK_DEADLOCK FALSE
