SPECIFICATION Spec
CONSTANTS
  N = 2
  Modes = {TRUE, FALSE}
  MaxConnects = 2
  Socks = 2
  MaxPrints = 2
INVARIANTS
  TypeOK
  LinksBounded
  DanglingOnlyIfOverlap
PROPERTIES
  LinklessOnlyIfRepeated
CHECK_DEADLOCK FALSE
