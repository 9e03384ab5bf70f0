SPECIFICATION Spec
CONSTANTS
  Requests = {r1}
  r1 = r1
  Timeout = 2
  IgnoreInvalid = TRUE
  Noise = {"event", "ping", "invalid", "unexpected", "close"}
  MaxInbox = 2
  MaxBurst = 2
INVARIANTS TypeOK NoLostWakeup
PROPERTIES NotTimedOutEarly MailIsRead EventsConcludeCommands
