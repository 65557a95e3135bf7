SPECIFICATION FairSpec
CONSTANTS
  r1 = r1
  r2 = r2
  r3 = r3
  h1 = h1
  h2 = h2
  w1 = w1
  w2 = w2
  NoRun = NoRun
  NoOwner = NoOwner
  Runs <- TwoRuns
  Handlers <- OneHandler
  Workers <- OneWorker
  WorkerOf <- OneProcess
  MaxMessages = 2
  MaxUpsets = 1
  Teaching = TRUE
  ParallelRuns = FALSE
PROPERTY QueuedIsTaken
PROPERTY MessagesAreSettled
