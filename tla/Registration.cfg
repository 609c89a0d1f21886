SPECIFICATION FairSpec
CONSTANTS
    Periods = {"none", "some"}
    MaxFaults = 3
    MaxCalls = 2
INVARIANTS TypeOK WaitsForItsRequest
PROPERTIES RegistersUnlessAbandoned DeRegistrationEnds ProcedureEnds
CHECK_DEADLOCK FALSE
