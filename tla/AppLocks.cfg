SPECIFICATION Spec
CONSTANTS
  h1 = h1
  h2 = h2
  h3 = h3
  Handler = {h1, h2, h3}
  Kinds = {"sync_chain", "add_mining_task", "discovery", "push_peers", "http"}
  Nobody = Nobody
SYMMETRY Symmetry
INVARIANTS
  TypeOK
  OnlyChainAndPeersDeadlock
CHECK_DEADLOCK FALSE
