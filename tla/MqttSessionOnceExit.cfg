SPECIFICATION Spec
CONSTANTS
  NONE = NONE
  TxQueueSize = 3
  MaxData = 2
INVARIANT OnceSuccessMeansAccepted
CHECK_DEADLOCK FALSE
