SPECIFICATION FairSpec
CONSTANTS
  Gotos = {1, 2}
  Waits = {3}
  Nobody = 0
  PageActs = TRUE
  Timeouts = TRUE
  Losses = TRUE
  MaxDocs = 2
CHECK_DEADLOCK FALSE
INVARIANTS TypeOK LoneAnsweredAfterLoad OneNavigationAtATime
PROPERTIES EveryWaitConcludes EveryGotoConcludes
