SPECIFICATION EffectSpec
CONSTANTS
  w1 = w1
  w2 = w2
  r1 = r1
  r2 = r2
  Workers <- OneWorker
  Requests <- OneRequest
  Tools = {"send"}
  ToolOf <- OneTool
  MaxRepeats = 2
  MaxAttemptFence = 3
  MaxEffectUpsets = 0
CHECK_DEADLOCK FALSE
INVARIANT ApprovedIsReplayed
