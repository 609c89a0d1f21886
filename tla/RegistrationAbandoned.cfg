SPECIFICATION FairSpec
CONSTANTS
    Periods = {"some"}
    MaxFaults = 1
    MaxCalls = 0
PROPERTY Registers
CHECK_DEADLOCK FALSE
