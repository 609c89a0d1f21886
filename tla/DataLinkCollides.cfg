SPECIFICATION FairSpec
CONSTANTS
    device = device
    module = module
    Ends = {device, module}
    CommModule = module
    Messages <- MCAll
    MaxRetries = 1
    MaxPackets = 2
    Collisions = TRUE
    Failures = FALSE
    MaxSends = 2
    MaxFaults = 1
PROPERTY SendReturns
