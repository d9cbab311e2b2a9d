CONSTANTS
  Failing = {"write", "sync", "rename"}
  MaxCrashes = 0
  MaxJournal = 0
  MaxSegments = 2
  MaxCommits = 2
  MaxLive = 0
  MaxDv = 1
  WriteRadix = 36
  ReadRadix = 10
  MaxReaders = 1
SPECIFICATION Spec
INVARIANTS
  RefCountsExact
  RefsExist
  
CHECK_DEADLOCK FALSE
