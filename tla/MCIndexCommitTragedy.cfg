CONSTANTS
  Failing = {"sync"}
  MaxCrashes = 0
  MaxJournal = 0
  MaxSegments = 1
  MaxCommits = 2
  MaxLive = 0
  MaxDv = 0
  WriteRadix = 36
  ReadRadix = 10
  MaxReaders = 0
SPECIFICATION FairSpec
PROPERTIES
  TragedyCloses
CHECK_DEADLOCK FALSE
