SPECIFICATION ProvidersSpec
CONSTANTS
  Callers = {c1, c2}
  Waiters = {g1}
  Sweepers = {s1}
  Dialogs <- MCDialogs
  MaxResp = 2
  MaxWaits = 2
  Setups <- MCSetups
  Requests = {r1, r2}
  MaxQuestions = 2
  MaxRetries = 1
  Limit = 4
  MaxDepth = 2
  MaxCalls = 1
  MaxQuota = 1
  LoopSetups <- MCLoop
  Askers = {r1, r2}
  MaxTurns = 2
  MaxConvs = 3
  MaxRounds = 2
  MaxParallel = 2
  MaxRestarts = 1
  Places <- MCPlaces
INVARIANTS
  ProvidersTypeOK
  LiveIsMapped
  WaiterWoken
  ToolsFit
  ToldWhatWasSaid
PROPERTIES
  ConversationLasts
  AnswersAdvance
  ExpiredGoes
  AnswerComes
CHECK_DEADLOCK FALSE
