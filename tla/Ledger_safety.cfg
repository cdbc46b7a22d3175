SPECIFICATION Spec
CONSTANTS
  n1 = n1
  n2 = n2
  v1 = v1
  v2 = v2
  v3 = v3
  A = A
  B = B
  Node = {n1, n2}
  Voters = {v1, v2, v3}
  UuidVoters = {v1, v2}
  Candidates = {A, B}
  NoVote = NoVote
  Times = {1, 2}
  MaxBlocks = 3
  MaxRestarts = 0
SYMMETRY Symmetry
INVARIANTS
  TypeOK
  OneVotePerVoter
  WellLinked
  SeenMatchesChain
  HashNamesPrefix
  LateExactlyWhenOvertaken
  TotalIsTallySum
  CachesCountVotes
CHECK_DEADLOCK FALSE
