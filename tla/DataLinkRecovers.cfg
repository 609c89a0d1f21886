SPECIFICATION Spec
CONSTANTS
    device = device
    module = module
    Ends = {device, module}
    CommModule = module
    Messages <- MCLonger
    MaxRetries = 1
    MaxPackets = 3
    Collisions = FALSE
    Failures = TRUE
    MaxSends = 2
    MaxFaults = 1
INVARIANTS TypeOK MessageIsWhole
