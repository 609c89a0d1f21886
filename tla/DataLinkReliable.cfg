SPECIFICATION FairSpec
CONSTANTS
    device = device
    module = module
    Ends = {device, module}
    CommModule = module
    Messages <- MCRetried
    MaxRetries = 2
    MaxPackets = 2
    Collisions = FALSE
    Failures = FALSE
    MaxSends = 3
    MaxFaults = 2
PROPERTIES ImplementsMessageLink SendSucceeds
