SPECIFICATION Spec
CONSTANTS
  c1 = c1
  c2 = c2
  c3 = c3
  v1 = v1
  v2 = v2
  v3 = v3
  Call = {c1, c2, c3}
  Voters = {v1, v2, v3}
  UuidVoters = {v1, v2}
  None = None
  MaxAdopts = 1
INVARIANTS
  TypeOK
  OneMinerAtATime
  AtMostTwoTasks
  NoTaskVanishes
PROPERTIES
  DriverRunsDown
  DrainedWhileLooping
  CallsReturn
CHECK_DEADLOCK FALSE
