SPECIFICATION LiveSpec
CONSTANTS
  N = 2
  Modes = {TRUE, FALSE}
  MaxConnects = 1
  Socks = 2
  MaxPrints = 2
PROPERTIES
  LockReturned
  MemberRetried
  DestructorEnds
CHECK_DEADLOCK FALSE
