SPECIFICATION HoldersSpec
CONSTANTS
  r1 = r1
  r2 = r2
  r3 = r3
  h1 = h1
  h2 = h2
  w1 = w1
  w2 = w2
  NoRun = NoRun
  NoOwner = NoOwner
  Runs <- TwoRuns
  Handlers <- TwoHandlers
  Workers <- OneWorker
  WorkerOf <- SharedProcess
  MaxMessages = 2
  MaxUpsets = 2
  Teaching = TRUE
  ParallelRuns = FALSE
SYMMETRY RunsAlike
INVARIANT TypeOK
INVARIANT OneActiveRun
INVARIANT SteeringNotStranded
INVARIANT ClearedStaysClear
INVARIANT OwnerHasRunningAttempt
PROPERTY CompletedConsumesOnlyTold
PROPERTY CompletedSettlesTold
PROPERTY TerminalIsFinal
PROPERTY MailboxSpec
