SPECIFICATION FollowSpec
CONSTANTS
  MaxSeq = 4
  MaxRuns = 2
  MaxBreaks = 2
INVARIANT NothingSkipped
INVARIANT NoLostWakeup
INVARIANT ViewIsCurrent
CHECK_DEADLOCK FALSE
