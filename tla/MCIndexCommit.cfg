CONSTANTS
  Failing = {"sync"}
  MaxCrashes = 1
  MaxJournal = 1
  MaxSegments = 2
  MaxCommits = 2
  MaxLive = 2
  MaxDv = 0
  WriteRadix = 3
  ReadRadix = 2
  MaxReaders = 0
SPECIFICATION Spec
INVARIANTS
  CommitsReadable
  DurableCommit
PROPERTIES
  WritesFresh
CHECK_DEADLOCK FALSE
