SPECIFICATION Spec
CONSTANTS
  b1 = b1
  b2 = b2
  r1 = r1
  r2 = r2
  c1 = c1
  c2 = c2
  x1 = x1
  x2 = x2
  NoBox = NoBox
  Nobody = Nobody
  Dead = Dead
  Bots <- OneBot
  Runs <- TwoRuns
  BotOf <- SameBot
  Calls <- TwoCalls
  Boxes <- TwoBoxes
  Team = FALSE
  Mounted = FALSE
  Operations = {"run","boot","reset","pause"}
  SlowOperations = {"run"}
  Faults = {"crash","provider"}
  MaxFence = 1
  MaxUpsets = 1
SYMMETRY Alike
PROPERTY WorkersKeepTheirSandbox
INVARIANT OneProvisioner
INVARIANT OneClaim
