SPECIFICATION Spec
CONSTANTS
  NONE = NONE
  a = a  b = b  c = c  d = d  u = u
  i1 = i1  i2 = i2  i3 = i3
  Known = {a, b, c, d}
  Valid = {a, b, c}
  Requests <- MCRequests
  Conflicts <- MCConflicts
  Size = 2
  Ttl = 1
  MaxBytes = 3
INVARIANT TypeOK
INVARIANT CacheRemembersLatest
INVARIANT NoReplayWhileRemembered
INVARIANT ResultsAreTruthful
INVARIANT AllOrNothing
INVARIANT LateWritesBounded
CHECK_DEADLOCK FALSE
