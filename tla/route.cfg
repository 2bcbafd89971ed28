SPECIFICATION LiveSpec
CONSTANTS
  MaxMsgs = 3
  SndBuf = 1
INVARIANTS
  TypeOK
  Accounted
PROPERTIES
  RouteEnds
CHECK_DEADLOCK FALSE
