SPECIFICATION Spec
CONSTANTS
    NumHits = 2
    PerReader = 1
    MaxDocsPerSlice = 3
    MaxSegmentsPerSlice = 2
    Workers = {w1, w2}
    NoMoreDocs = 99
    Slop = 1
    ScoredQueries <- ManyQueries
INVARIANTS IteratorsExact  SearchExact
PROPERTY SearchEnds
CHECK_DEADLOCK FALSE
