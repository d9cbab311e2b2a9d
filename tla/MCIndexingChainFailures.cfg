CONSTANTS
  s1 = s1
  s2 = s2
  d1 = d1
  States = {s1, s2}
  Daemons = {d1}
  Main = Main
  None = None
  Kinds = {"term"}
  Modes = {"commit"}
  DeleteTrigger = TRUE
  DocMayFail = FALSE
  MayFail = {Main}
  MaxOps = 2
  MaxGen = 2
SPECIFICATION Spec
SYMMETRY Symmetry
INVARIANTS
  NoDocVanishes
CHECK_DEADLOCK FALSE
