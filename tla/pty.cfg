CONSTANTS
  Submits = {s1, s2}
  Neighbour = neighbour
  Stray = stray
  Messages = 1
  Overlapping = TRUE
  Shared = TRUE
  MaxStrays = 1
SPECIFICATION FairSpec
CHECK_DEADLOCK FALSE
INVARIANTS ForeignAnswerIsLate ExitedIsTerminal
PROPERTIES NoBlindAnswer SubmitSettles
