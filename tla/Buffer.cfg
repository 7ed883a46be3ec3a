CONSTANTS
  CheapPrepend = 2
  InitialSize = 3
  ExtraSize = 3
  MaxBytes = 12
SPECIFICATION Spec
INVARIANTS TypeOK BytesIntact GrowthIsBounded
PROPERTY GrowsOnlyWhenFull
CHECK_DEADLOCK FALSE
