SPECIFICATION Spec
CONSTANTS
    ApTitleLength = 20
    HistorySize = 2
    HistoryLifetime = 0
    RequestMessages <- MCRequestMessages
    Keys = {0, 1}
    RegisteredApTitle <- MCRegisteredApTitle
    ConfiguredApTitle <- MCConfiguredApTitle
    FirstApInvocationId = 65534
    IdLimit = 65536
    MaxTime = 2
    MaxReceptions = 4
    MaxRequests = 3
INVARIANTS
    NoRepeat
    OnlyDuplicatesAreDropped
    AnswersAreRead
    DataIsProtected
    AnswersFit
    OneAnswer
CHECK_DEADLOCK FALSE
