SPECIFICATION Spec
CONSTANTS
    Callers = {c1}
    Size <- MergeBytes
    BigMerge = 1
    MaxThreadCount = 1
    MaxMergeCount = 2
    Aborts = 1
    Refreshers = {"r1", "r2"}
    Users = {"u1"}
    MaxVersion = 3
    MaxCloses = 1
    Queries = {0, 3, 4}
    Cores = {"x", "y"}
    Searchers = {"s1", "s2"}
    MaxSize = 1
    History = 3
    Capacity = 4
    MinFrequency = 2
    Sentinel = 7
    MaxUses = 4
    MaxMergeAtOnce = 2
    MaxMergeAtOnceExplicit = 3
    SegsPerTier = 2
    MaxMergedBytes = 14
    FloorBytes = 1
    BytesPerDoc = 1
    FlushSizes = {1, 2, 4}
    Forced = {1, 2}
    MaxFlushes = 4
    MaxDeletes = 1
    MaxForces = 1
INVARIANTS MergesBounded RefreshSeen CacheExact MergesExact
PROPERTY MergingGoesOn
CHECK_DEADLOCK FALSE
