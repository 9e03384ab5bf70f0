SPECIFICATION Spec
CONSTANTS
  Gotos = {1}
  Waits = {3}
  Nobody = 0
  PageActs = TRUE
  Timeouts = FALSE
  Losses = FALSE
  MaxDocs = 2
CHECK_DEADLOCK FALSE
INVARIANTS WaitSeesNewPage
