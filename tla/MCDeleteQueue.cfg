SPECIFICATION Spec
CONSTANTS
  t1 = t1
  t2 = t2
  term = term
  query = query
  Threads <- two_threads
  Targets <- one_term
  Queries = {}
  NoThread = NoThread
  MaxSeqNo = 3
  MaxBatch = 2
SYMMETRY Symmetry
INVARIANTS
  TypeOK
  GlobalBufferExact
  PrivateDeletesExact
  AnyChangesSound
  UpdateSeqNoOrder
PROPERTIES
  ImplementsDeleteOrder
