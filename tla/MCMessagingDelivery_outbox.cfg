SPECIFICATION OutboxSpec
CONSTANTS
  d1 = d1
  d2 = d2
  t1 = t1
  t2 = t2
  Free = Free
  Drains <- TwoDrains
  Texts <- OneText
  OutboundCap = 1
  MaxAttempts = 2
  DeliveryFaults = {"crash","refuse","lost"}
  MaxCycles = 2
  MaxDeliveryUpsets = 2
INVARIANT DeliveredOnce
INVARIANT SentIsTaken
INVARIANT PrivateStaysPrivate
PROPERTY InviteWhilePending
PROPERTY RowsAreSettled
CHECK_DEADLOCK FALSE
