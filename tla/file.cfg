SPECIFICATION LiveSpec
CONSTANTS
  N = 2
  MaxSize = 3
  Seg = 2
  Hdr = 1
  SndBuf = 1
INVARIANTS
  TypeOK
  NothingMissing
PROPERTIES
  ImplementsCopy
  BothEnd
CHECK_DEADLOCK FALSE
