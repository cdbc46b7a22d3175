SPECIFICATION Spec
CONSTANTS
  n1 = n1
  n2 = n2
  v1 = v1
  v2 = v2
  v3 = v3
  A = A
  B = B
  Node = {n1, n2}
  Voters = {v1}
  UuidVoters = {v1}
  Candidates = {A, B}
  NoVote = NoVote
  Times = {1, 2}
  MaxBlocks = 2
  MaxRestarts = 0
INVARIANT CacheMatchesChain
CHECK_DEADLOCK FALSE
