CONSTANTS
  Newline = "newline"
  Chunks <- Samples
SPECIFICATION Spec
CHECK_DEADLOCK FALSE
INVARIANTS TextAfterMarkerIsKept
