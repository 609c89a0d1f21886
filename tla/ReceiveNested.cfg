SPECIFICATION FairSpec
CONSTANTS
    n1 = n1
    n2 = n2
    Nodes = {n1, n2}
    NoNode = NoNode
    Nobody = Nobody
    NoApTitle = "none"
    Messages <- MCNested
    OwnRequest <- MCOwnRequest
    Positions <- MCBrief
    MaxMessageLength = 2
    MaxDisjointSegments = 2
    RequireSecurity = TRUE
    PeersWait = FALSE
    MaxNesting = 2
INVARIANT NETROnlyWhileHandling
PROPERTIES ImplementsSegmenter TransportIsReleased
