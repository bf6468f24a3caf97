CONSTANTS
  c1 = c1
  c2 = c2
  Clients <- OneClient
  MaxSessions = 2
  MaxPosts = 1
  SubscribeFails = TRUE
  IdleFires = TRUE
SPECIFICATION FairSpec
INVARIANTS
  OneLiveSession
  MappedIsServed
PROPERTIES
  EntryMatchesSession
CHECK_DEADLOCK FALSE
