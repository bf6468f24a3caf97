CONSTANTS
  c1 = c1
  c2 = c2
  NoCall = NoCall
  Calls <- TwoCalls
  ConcurrentStarts = FALSE
  MaxAttempts = 3
  BatchSize = 3
  MaxDeltas = 7
  TxCap = 2
  Errors <- AllErrors
  Stops = TRUE
SPECIFICATION TextSpec
INVARIANTS
  TearDownIsSound
  DeltasAccounted
PROPERTIES
  DialogReleased
  RetriesInTurn
  CallReturns
CHECK_DEADLOCK FALSE
