SPECIFICATION FairSpec
CONSTANTS
    EventBufferSize = 2
    ReconnectAttempts = 2
    MaxContent = 1
    MaxAgentEvents = 3
CHECK_DEADLOCK FALSE
INVARIANTS NoSilentLoss OrderlyEnd
PROPERTIES HeadNotRepeated OperationsEnd
