SPECIFICATION Spec
CONSTANTS
  Frame = 1
  Worlds = 0
  Network = 1
  Page = 0
  Emulation = 0
  Fetches = 1
  MaxSessions = 3
  MaxInbox = 2
  Timeouts = FALSE
  Detaches = TRUE
CHECK_DEADLOCK FALSE
PROPERTIES DetachLeavesOtherSessions
