SPECIFICATION LiveSpec
CONSTANTS
  h1 = h1
  h2 = h2
  h3 = h3
  Handles <- MCHandles
  NoSock = NoSock
  Configs <- ListenerConfigs
  Period = 2
  MaxOrphans = 1
PROPERTIES
  InterruptEndsRun
CHECK_DEADLOCK FALSE
