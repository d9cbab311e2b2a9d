CONSTANTS
  s1 = s1
  s2 = s2
  d1 = d1
  States = {s1, s2}
  Daemons = {d1}
  Main = Main
  None = None
  Kinds = {"term"}
  Modes = {"commit"}
  DeleteTrigger = FALSE
  DocMayFail = FALSE
  MayFail = {}
  MaxOps = 3
  MaxGen = 2
SPECIFICATION Spec
SYMMETRY Symmetry
INVARIANTS
  NoLostDelete
  CommitReflects
  FullFlushDrained
  UncommittedSeen
CHECK_DEADLOCK FALSE
