SPECIFICATION Spec
CONSTANTS
    ApTitleLength = 20
    MaxMessageLength = 643
    MaxDisjointSegments = 10
    Outgoing <- MCOutgoing
    FragmentSizes = {84, 158}
    MaxSegmentedLength = 158
    Retries = 1
    MaxFaults = 1
    MaxSends = 2
INVARIANTS
    TypeOK
    SegmentsFit
    SegmentsAreRecognized
    CompleteIsReceived
PROPERTIES
    SendEnds
CHECK_DEADLOCK FALSE
