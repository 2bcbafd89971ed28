SPECIFICATION LiveSpec
CONSTANTS
  NumMsgs = 6
  Buf = 1
  Configs <- ReplyOrTimed
INVARIANTS
  TypeOK
  GapsAreDrops
PROPERTIES
  WaitsForGood
  PipelineEnds
CHECK_DEADLOCK FALSE
