SPECIFICATION MCSpec
CONSTANTS
    Nobody = Nobody
    NoApTitle = "none"
    Messages <- MCMessages
    OwnRequest <- MCOwnRequest
    Positions <- MCPositions
    MaxMessageLength = 8
    MaxDisjointSegments = 3
INVARIANT SegmenterTypeOK
INVARIANT TableIsSeparate
INVARIANT NoGapIsDelivered
INVARIANT NoMixedSegments
INVARIANT IncompleteTimesOut
PROPERTY NothingReceivedIsLost
PROPERTY ImplementsSet
