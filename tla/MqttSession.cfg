SPECIFICATION FairSpec
CONSTANTS
  NONE = NONE
  TxQueueSize = 3
  MaxData = 2
INVARIANT TypeOK
 
 
INVARIANT OnceSuccessMeansAnswered
PROPERTY OnlineWhenUp
CHECK_DEADLOCK FALSE
