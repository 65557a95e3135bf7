SPECIFICATION LiveSpec
CONSTANTS
  b1 = b1
  b2 = b2
  r1 = r1
  r2 = r2
  c1 = c1
  c2 = c2
  x1 = x1
  x2 = x2
  NoBox = NoBox
  Nobody = Nobody
  Dead = Dead
  Bots <- OneBot
  Runs <- OneRun
  BotOf <- OneOwn
  Calls <- TwoCalls
  Boxes <- TwoBoxes
  Team = FALSE
  Mounted = FALSE
  Operations = {"run","stop","sleep","pause","clear"}
  SlowOperations = {"run"}
  Faults = {"crash","provider","rollback","vanish"}
  MaxFence = 1
  MaxUpsets = 1
PROPERTY WedgedComputerRecovers
