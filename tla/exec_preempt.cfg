CONSTANTS
  Submits = {s1, s2}
  Neighbours = {n}
  None = None
  Preempts = {FALSE, TRUE}
  Output = "gemini"
  LateOutput = TRUE
  Deadlines = TRUE
SPECIFICATION FairSpec
CHECK_DEADLOCK FALSE
INVARIANTS NoSignalToTheDead 
PROPERTIES SubmitSettles
