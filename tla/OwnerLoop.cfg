SPECIFICATION Spec
CONSTANTS
  Rate = 2
  DiagRates = {0, 3}
  Slice = 1
  MaxPoll = 5
  MaxDiag = 1
  MaxCommand = 3
  MaxQueue = 2
INVARIANTS
  TypeOK
  LatenessBounded
  SnapshotHonest
PROPERTY
  CyclesArePaced
