SPECIFICATION Spec
CONSTANTS
    Packets <- SameTerm
    PrivatePackets <- TwoPrivate
    SegmentDocs <- TwoSegments
INVARIANT AppliedExact
CHECK_DEADLOCK FALSE
