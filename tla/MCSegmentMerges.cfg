SPECIFICATION Spec
CONSTANTS
    None = None
    Flushed = {"a"}
    MergeSizes = {2}
    Updates <- SomeUpdates
    Segments0 <- TwoSegments
    Bound <- EachBound
    MaxOps = 5
    Faults = {"merge"}
INVARIANTS IndexExact ReaderIsSnapshot LiveDocsOwned MergingExact
PROPERTY AbortEnds
CHECK_DEADLOCK FALSE
