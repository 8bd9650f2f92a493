CONSTANTS
  MaxChunkBytes = 6
  MaxTotalBytes = 15
  MaxReviewers = 2
  MaxChunks = 2
  None = None
  Reviews <- MCReviews
SPECIFICATION FairSpec
CHECK_DEADLOCK FALSE
INVARIANTS AllOfTheSourceIsSeen AgentIsOwn NothingLeftBehind ChairComesLast
PROPERTIES ReviewEnds
