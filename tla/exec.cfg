CONSTANTS
  Submits = {s1, s2, s3}
  Neighbours = {n}
  None = None
  Preempts = {FALSE}
  Output = "gemini"
  LateOutput = FALSE
  Deadlines = TRUE
SPECIFICATION Spec
CHECK_DEADLOCK FALSE
INVARIANTS ChildIsReachable
PROPERTIES ImplementsSerialAgent
