SPECIFICATION Spec
CONSTANTS
  Gotos = {1, 2}
  Waits = {}
  Nobody = 0
  PageActs = FALSE
  Timeouts = FALSE
  Losses = FALSE
  MaxDocs = 2
CHECK_DEADLOCK FALSE
INVARIANTS AnsweredAfterLoad
