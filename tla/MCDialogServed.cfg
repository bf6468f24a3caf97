CONSTANTS
  MaxMsgs = 3
  MaxReplies = 0
  RxCap = 1
  AskLimit = 2
  Setups <- WithoutOperator
SPECIFICATION FairSpec
PROPERTY DialogGoesOn
CHECK_DEADLOCK FALSE
