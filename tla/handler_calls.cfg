SPECIFICATION Spec
CONSTANTS
  Requests = {r1, r2}
  r1 = r1
  r2 = r2
  NoRequest = NoRequest
  Targets = {t1}
  t1 = t1
  Kinds = {"Command", "FetchTargets", "CloseBrowser", "CreatePage", "GetPages",
           "PageCommand", "Goto"}
  MaxCalls = 2
  Losses = TRUE
SYMMETRY Symmetry
CHECK_DEADLOCK FALSE
INVARIANTS TypeOK OwnAnswer NoPanic
PROPERTIES CanceledOnlyByLoss ImplementsRpc
