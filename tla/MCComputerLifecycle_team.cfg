SPECIFICATION Spec
CONSTANTS
  b1 = b1
  b2 = b2
  r1 = r1
  r2 = r2
  c1 = c1
  c2 = c2
  x1 = x1
  x2 = x2
  NoBox = NoBox
  Nobody = Nobody
  Dead = Dead
  Bots <- TwoBots
  Runs <- TwoRuns
  BotOf <- OwnBot
  Calls <- TwoCalls
  Boxes <- TwoBoxes
  Team = TRUE
  Mounted = FALSE
  Operations = {"run","boot","sleep","pause","halt"}
  SlowOperations = {}
  Faults = {"provider","screen","stall"}
  MaxFence = 2
  MaxUpsets = 1
SYMMETRY AlikeBots
INVARIANT TypeOK
INVARIANT RunningIsUp
INVARIANT ClaimHasOwner
INVARIANT HolderOwnsScreen
INVARIANT NoSandboxLost
INVARIANT NobodyWorksDuringExport
CHECK_DEADLOCK FALSE
