SPECIFICATION Spec
CONSTANTS
  NONE = NONE
  ByteBits = 2
  Rows <- MCRows
  MaxRows = 6
  MaxFiles = 2
  AddressSpace = 6
  MaxRegisters = 4
  MaxCoils = 6
  MaxDeviceId = 2
  Collisions <- MCCollisions
  MaxWrites = 1
  MaxChanges = 1
CHECK_DEADLOCK FALSE
INVARIANTS
  TypeOK
  ReferencesBound
  ReadsAgree
  WritesExact
