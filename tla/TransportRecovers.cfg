SPECIFICATION FairSpec
CONSTANTS
    device = device
    module = module
    Device = device
    CommModule = module
    Bauds = {"slow", "fast"}
    DefaultBaud = "slow"
    BestBaud = "fast"
    DeviceRequests <- MCRequests
    Restarts <- MCRestarts
    MaxFaults = 2
    MaxRequests = 1
CHECK_DEADLOCK FALSE
INVARIANTS TypeOK LinkIsUp
PROPERTIES LinkComesUp SendEnds
