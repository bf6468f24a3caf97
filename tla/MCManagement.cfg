SPECIFICATION ManagementSpec
CONSTANTS
    Managers = {m1, m2}
    Docs = {"d1", "d2"}
    MaxRows = 3
    MaxAgents = 3
    MaxLibraries = 2
    MaxSeconds = 2
    Scenes <- MCScenes
    Refreshers = {g1, g2}
    MaxOffers = 2
    Markets <- MCMarkets
INVARIANTS
  ManagementTypeOK
  OneActiveOrOff
  AgentsMatch
  FilesMatch
  FreshIsCurrent
PROPERTIES
  ClaimsReturn
  ThrottleHolds
  ImplementsUserModels
CHECK_DEADLOCK FALSE
