CONSTANTS
  c1 = c1
  c2 = c2
  NoCall = NoCall
  Calls <- TwoCalls
  ConcurrentStarts = FALSE
  MaxAttempts = 3
  BatchSize = 2
  MaxDeltas = 1
  TxCap = 1
  Errors <- AllErrors
  Stops = TRUE
SPECIFICATION AskAlone
INVARIANT AbortIsClean
CHECK_DEADLOCK FALSE
