SPECIFICATION FairSpec
CONSTANTS
  NONE = NONE
  x = x  y = y
  v1 = v1  v2 = v2
  Group = Group
  Refs = {x, y}
  Readings <- MCReadings
  TxQueueSize = 2
INVARIANT TypeOK
 
 
PROPERTY Quiesces
CHECK_DEADLOCK FALSE
