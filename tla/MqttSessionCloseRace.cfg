SPECIFICATION Spec
CONSTANTS
  NONE = NONE
  TxQueueSize = 3
  MaxData = 2
INVARIANT CleanShutdownIsOffline
CHECK_DEADLOCK FALSE
