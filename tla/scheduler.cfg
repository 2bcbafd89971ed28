SPECIFICATION LiveSpec
CONSTANTS
  t1 = t1
  t2 = t2
  Tasks <- TwoTasks
  MaxDelay = 2
  Horizon = 2
INVARIANTS
  TypeOK
  BatchIsPrefix
  DtorWakes
  SleepsOnlyIfMissed
PROPERTIES
  ImplementsService
  TaskRuns
  DtorReturns
CHECK_DEADLOCK FALSE
