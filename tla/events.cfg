CONSTANTS
  Agents = {a1, a2}
  Ids = {i1, i2}
  None = None
SPECIFICATION FlowSpec
CHECK_DEADLOCK FALSE
SYMMETRY Symmetry
INVARIANTS ListenersAreHeard EventsArrive NoWakeupIsMissed NothingIsLeftBehind
