SPECIFICATION FairSpec
CONSTANTS
    device = device
    module = module
    Ends = {device, module}
    CommModule = module
    Messages <- MCRetried
    MaxRetries = 3
    MaxPackets = 2
    Collisions = TRUE
    Failures = FALSE
    MaxSends = 2
    MaxFaults = 0
PROPERTY AckedIsReceived
