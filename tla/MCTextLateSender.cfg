CONSTANTS
  c1 = c1
  c2 = c2
  NoCall = NoCall
  Calls <- TwoCalls
  ConcurrentStarts = FALSE
  MaxAttempts = 1
  BatchSize = 2
  MaxDeltas = 0
  TxCap = 1
  Errors <- AllErrors
  Stops = TRUE
SPECIFICATION LifeAlone
INVARIANT ClosedAfterSenders
CHECK_DEADLOCK FALSE
