SPECIFICATION LiveSpec
CONSTANTS
  MaxMsgs = 2
  SndBuf = 1
INVARIANTS
  TypeOK
  PipeIntact
PROPERTIES
  ThreadsStopTogether
  InterruptStopsUnlessIdle
CHECK_DEADLOCK FALSE
