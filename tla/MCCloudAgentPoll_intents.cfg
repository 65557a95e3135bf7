SPECIFICATION CloudLiveSpec
CONSTANTS
  p1 = p1
  p2 = p2
  NoPoll = NoPoll
  DeadPoll = DeadPoll
  Polls <- TwoPolls
  SlowClaims = FALSE
  StaleMetadata = FALSE
  CloudFaults = {"crash","stall","lost"}
  MaxGeneration = 2
  MaxCloudUpsets = 2
INVARIANT WokenOnce
INVARIANT SettledMeansQuiet
INVARIANT FollowupSentOnce
PROPERTY CancelIsKept
PROPERTY ResultIsReported
CHECK_DEADLOCK FALSE
