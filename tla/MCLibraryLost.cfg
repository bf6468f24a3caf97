SPECIFICATION StoreAlone
CONSTANTS
    Managers = {m1}
    Docs = {"d1", "d2"}
    MaxRows = 1
    MaxAgents = 1
    MaxLibraries = 1
    MaxSeconds = 1
    Scenes <- MCLost
    Refreshers = {g1}
    MaxOffers = 1
    Markets <- MCMarkets
PROPERTY OnlyEmptyLibraryGoes
CHECK_DEADLOCK FALSE
