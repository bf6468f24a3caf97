CONSTANTS
  MaxMsgs = 3
  MaxReplies = 1
  RxCap = 2
  AskLimit = 2
  Setups <- AllSetups
SPECIFICATION Spec
INVARIANTS
  TypeOK
  SavedWasShown
  RecordedOnce
CHECK_DEADLOCK FALSE
