CONSTANTS
  MaxMsgs = 3
  MaxReplies = 1
  RxCap = 2
  AskLimit = 2
  Setups <- Ordinary
SPECIFICATION Spec
PROPERTY OperatorModeKeepsAway
CHECK_DEADLOCK FALSE
