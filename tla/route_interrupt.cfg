SPECIFICATION Spec
CONSTANTS
  MaxMsgs = 1
  SndBuf = 1
INVARIANTS
  InterruptHandled
CHECK_DEADLOCK FALSE
