SPECIFICATION Spec
CONSTANTS
  Requests = {r1}
  r1 = r1
  Timeout = 2
  IgnoreInvalid = TRUE
  Noise = {}
  MaxInbox = 2
  MaxBurst = 2
PROPERTIES EveryCommandConcludes
