SPECIFICATION LiveSpec
CONSTANTS
  h1 = h1
  h2 = h2
  h3 = h3
  Handles <- MCHandles
  NoSock = NoSock
  Configs <- AllConfigs
  Period = 3
  MaxOrphans = 1
INVARIANTS
  TypeOK
  NoListenerWhileProcessing
  StatsHoldsCurrent
PROPERTIES
  AttemptsPaced
  DeadListenerDropped
  InterruptStopsUnlessLate
CHECK_DEADLOCK FALSE
