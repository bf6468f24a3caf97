CONSTANTS
  t1 = t1
  t2 = t2
  Threads <- TwoThreads
  BatchSize = 2
  MaxMsgs = 3
  MaxFlushes = 1
  Limit = 2
  DbFails = TRUE
SPECIFICATION FairSpec
INVARIANTS
  DbHistoryIsLastN
PROPERTIES
  ImplementsLog
  StopSaves
CHECK_DEADLOCK FALSE
