SPECIFICATION CompactionSpec
CONSTANTS
  c1 = c1
  c2 = c2
  Calls <- TwoCalls
  BatchSize = 1
  WindowSize = 1
  LegacySize = 2
  Semantic = TRUE
  MaxLegacy = 3
  MaxMessages = 4
  MaxGeneration = 1
  MaxUpsets = 1
SYMMETRY Alike
INVARIANT ToldIsInTheThread
INVARIANT ContextIsWhole
INVARIANT StaleCopiesArePurged
CHECK_DEADLOCK FALSE
