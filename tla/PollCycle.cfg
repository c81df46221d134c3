SPECIFICATION FairSpec
CONSTANTS
  a = a  b = b  c = c
  d1 = d1  d2 = d2
  r1 = r1  r2 = r2  r3 = r3  r4 = r4
  NONE = NONE
  Devices = {d1, d2}
  Handlers <- MCHandlers
  DeviceOf <- MCDeviceOf
  RefsOf <- MCRefsOf
  RecoverChoices = {0, 1}
INVARIANT TypeOK
INVARIANT PublishedValuesAreFresh
INVARIANT SuccessMeansAllRead
INVARIANT AutoremoveIsExact
PROPERTY NoStarvation
CHECK_DEADLOCK FALSE
