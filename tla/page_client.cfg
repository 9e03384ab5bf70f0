SPECIFICATION Spec
CONSTANTS
  Requests = {r1}
  Streams = {s1, s2}
  Keeper = s1
  CacheEnabled = TRUE
  MaxHops = 1
  MaxChallenges = 2
CHECK_DEADLOCK FALSE
INVARIANTS TypeOK AccountsForRequests TracksThePausedHop CredentialsAreOfferedOnce StreamsMissNothing
PROPERTIES NothingIsHeldUp DroppedStreamsLeave
