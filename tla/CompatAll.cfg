SPECIFICATION ClientSpec
CONSTANTS
    Frames <- FramesMC
    Long <- LongMC
    Answers <- AnswersMC
    PushConfigs <- PushConfigsMC
    MaxParts = 2
    MaxArtifacts = 1
    MaxLines = 5
    MaxAhead = 1
    MaxEventLines = 2
    MaxEvents = 2
    IdleTicks = 1
INVARIANTS NothingMadeUp Released  NoErrorSwallowed
PROPERTIES StreamsEnd
CHECK_DEADLOCK FALSE
