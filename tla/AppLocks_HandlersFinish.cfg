SPECIFICATION Spec
CONSTANTS
  h1 = h1
  h2 = h2
  h3 = h3
  Handler = {h1, h2}
  Kinds = {"sync_chain", "add_mining_task"}
  Nobody = Nobody
PROPERTY HandlersFinish
CHECK_DEADLOCK FALSE
