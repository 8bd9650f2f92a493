CONSTANTS
  Submits = {s1, s2, s3}
  Kills = {k1, k2}
SPECIFICATION FairSpec
CHECK_DEADLOCK FALSE
INVARIANTS ExitIsAnnouncedOnce KillIsFinal
PROPERTIES CallsSettle
