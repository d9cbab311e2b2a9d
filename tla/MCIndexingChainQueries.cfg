CONSTANTS
  s1 = s1
  s2 = s2
  d1 = d1
  States = {s1, s2}
  Daemons = {d1}
  Main = Main
  None = None
  Kinds = {"term", "query"}
  Modes = {"commit", "flush"}
  DeleteTrigger = FALSE
  DocMayFail = TRUE
  MayFail = {d1}
  MaxOps = 2
  MaxGen = 3
SPECIFICATION FairSpec
INVARIANTS
  NoLostDelete
PROPERTIES
  FullFlushEnds
CHECK_DEADLOCK FALSE
