SPECIFICATION Spec
CONSTANTS
  r1 = r1
  r2 = r2
  r3 = r3
  h1 = h1
  h2 = h2
  w1 = w1
  w2 = w2
  NoRun = NoRun
  NoOwner = NoOwner
  Runs <- OneRun
  Handlers <- TwoHandlers
  Workers <- OneWorker
  WorkerOf <- SharedProcess
  MaxMessages = 2
  MaxUpsets = 3
  Teaching = FALSE
  ParallelRuns = FALSE
PROPERTY ReclaimRaisesFence
CHECK_DEADLOCK FALSE
