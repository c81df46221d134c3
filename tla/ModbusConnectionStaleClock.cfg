SPECIFICATION Spec
CONSTANTS
  NONE = NONE
  BackoffBase = 1
  BackoffMax = 5
  MaxConnectionAge = NONE
  ConnectTimeout = 3
  CounterCap = 5
PROPERTY FailedConnectBacksOff
CHECK_DEADLOCK FALSE
