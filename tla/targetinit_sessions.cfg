SPECIFICATION FairSpec
CONSTANTS
  Frame = 1
  Worlds = 3
  Network = 1
  Page = 0
  Emulation = 0
  Fetches = 1
  MaxSessions = 2
  MaxInbox = 1
  Timeouts = TRUE
  Detaches = TRUE
CHECK_DEADLOCK FALSE
INVARIANTS TypeOK ChainsAreSequential SessionIsRouted DeliveredPageIsInitialized
PROPERTIES EveryCreationConcludes EveryPageCommandIsTaken
