SPECIFICATION Spec
CONSTANTS
  m1 = m1
  m2 = m2
  c1 = c1
  c2 = c2
  MainIds = {m1, m2}
  FirstMain = m1
  ChildIds = {c1, c2}
  NoFrame = NoFrame
  MaxActs = 5
  MaxContexts = 3
SYMMETRY Symmetry
INVARIANTS TypeOK MainFrameTracked LinksAgree MirrorsBrowser ContextsAreLive CompletionIsExact
CHECK_DEADLOCK FALSE
