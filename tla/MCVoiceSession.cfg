CONSTANTS
  Setups <- Uses
  MaxStarts = 2
  MaxCloses = 1
  Talks <- OneOrTwo
  MaxResponses = 2
  MaxWire = 1
SPECIFICATION VoiceSpec
INVARIANTS
  VoiceTypeOK
  OnlyGuardPanics
  NothingLeftBehind
  OutputOnce
PROPERTIES
  VoiceEnds
  WatchdogHolds
CHECK_DEADLOCK FALSE
