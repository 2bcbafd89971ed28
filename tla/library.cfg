SPECIFICATION Spec
CONSTANTS
  Socks = {s1, s2}
  NoSock = NoSock
  Modes = {TRUE, FALSE}
  OnMain = {TRUE, FALSE}
  Backlog = 1
  MaxStarts = 2
INVARIANTS TypeOK NothingSurvives CollectorJoined
PROPERTIES CleanupReturns HangsForGood
CHECK_DEADLOCK FALSE
