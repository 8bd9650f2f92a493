CONSTANTS
  Spawns = {a1, a2}
  Ids = {i1, i2}
  Modes = {"exec", "server-ws"}
  None = None
SPECIFICATION FairSpec
CHECK_DEADLOCK FALSE
INVARIANTS LiveIsRegistered NoAgentIsForgotten
PROPERTIES IdChangesHandsAfterExit TeardownCompletes
