CONSTANTS
  Daemons = {1, 2}
  Commands = {c1, b1}
  Bridges = {b1}
  Ports = {1, 2}
  Lines = {l1, l2}
  Crashes = 1
  Faults = 1
  None = None
SPECIFICATION FairSpec
CHECK_DEADLOCK FALSE
INVARIANTS LiveIsDiscoverable ReachesWhatItFound NoLineIsLost
PROPERTIES CommandsEnd
