CONSTANTS
  Submits = {s1, s2, s3}
  Neighbours = {n}
  None = None
  Preempts = {FALSE}
  Batched = FALSE
  Cuts = TRUE
SPECIFICATION Spec
CHECK_DEADLOCK FALSE
SYMMETRY Symmetry
INVARIANTS RequestIsReachable ForeignTextIsFromCut ExitedIsTerminal
PROPERTIES ImplementsSerialAgent
