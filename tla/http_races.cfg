CONSTANTS
  Submits = {s1, s2}
  Neighbours = {n}
  None = None
  Preempts = {FALSE, TRUE}
  Batched = TRUE
  Cuts = TRUE
SPECIFICATION FairSpec
CHECK_DEADLOCK FALSE
INVARIANTS BodyIsTakenOnce
PROPERTIES SubmitSettles
