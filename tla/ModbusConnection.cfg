SPECIFICATION FairSpec
CONSTANTS
  NONE = NONE
  BackoffBase = 1
  BackoffMax = 5
  MaxConnectionAge = 3
  ConnectTimeout = 3
  CounterCap = 5
INVARIANT TypeOK
INVARIANT StateConsistent
INVARIANT BackoffIsExponential
INVARIANT CountersAgree
PROPERTY ReconnectsArePaced
PROPERTY ImplementsBreaker
PROPERTY KeepsServing
CHECK_DEADLOCK FALSE
