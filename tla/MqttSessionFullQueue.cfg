SPECIFICATION FairSpec
CONSTANTS
  NONE = NONE
  TxQueueSize = 2
  MaxData = 2
PROPERTY OnlineOnEveryReconnect
CHECK_DEADLOCK FALSE
