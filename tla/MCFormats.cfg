SPECIFICATION Spec
CONSTANTS
    Packets <- DistinctTerms
    PrivatePackets <- TwoPrivate
    SegmentDocs <- TwoSegments
INVARIANTS NumbersExact OrdersExact PointsExact DocumentsExact InversionExact AppliedExact
CHECK_DEADLOCK FALSE
