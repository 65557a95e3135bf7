SPECIFICATION EffectSpec
CONSTANTS
  w1 = w1
  w2 = w2
  r1 = r1
  r2 = r2
  Workers <- TwoWorkers
  Requests <- OneRequest
  Tools = {"send"}
  ToolOf <- OneTool
  MaxRepeats = 2
  MaxAttemptFence = 4
  MaxEffectUpsets = 2
SYMMETRY WorkersAlike
INVARIANT TakenOnce
INVARIANT ConsentFirst
INVARIANT CardIsAnswerable
CHECK_DEADLOCK FALSE
