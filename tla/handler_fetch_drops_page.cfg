SPECIFICATION Spec
CONSTANTS
  Requests = {r1, r2}
  r1 = r1
  r2 = r2
  NoRequest = NoRequest
  Targets = {t1}
  t1 = t1
  Kinds = {"FetchTargets", "CreatePage"}
  MaxCalls = 2
  Losses = FALSE
SYMMETRY Symmetry
CHECK_DEADLOCK FALSE
PROPERTIES CanceledOnlyWithHandler
