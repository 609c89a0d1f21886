SPECIFICATION Spec
CONSTANTS
    n1 = n1
    n2 = n2
    Nodes = {n1, n2}
    NoNode = NoNode
    Nobody = Nobody
    NoApTitle = "none"
    Messages <- MCMessages
    OwnRequest <- MCOwnRequest
    Positions <- MCPositions
    MaxMessageLength = 4
    MaxDisjointSegments = 2
    RequireSecurity = FALSE
    PeersWait = TRUE
    MaxNesting = 1
INVARIANT TypeOK
INVARIANT AvailableIsHeld
INVARIANT AnswerToRequester
PROPERTY AcceptedIsTaken
