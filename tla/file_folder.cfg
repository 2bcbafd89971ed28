SPECIFICATION Spec
CONSTANTS
  N = 2
  MaxSize = 2
  Seg = 2
  Hdr = 1
  SndBuf = 1
INVARIANTS
  FolderArrives
CHECK_DEADLOCK FALSE
