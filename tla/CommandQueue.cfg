SPECIFICATION FairSpec
CONSTANTS
  QueueSize = 2
  QueueBytes = 4
  CommandTtl = 1
  DrainLimit = 1
  Sizes = {1, 3, 4}
  RejectBytes = 2
  PayloadBytes = 3
  MaxArrivals = 4
INVARIANT TypeOK
INVARIANT BytesAccounted
INVARIANT NoLostWakeup
INVARIANT OneFate
PROPERTY EverythingAnswered
CHECK_DEADLOCK FALSE
