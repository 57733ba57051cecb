SPECIFICATION RequestsSpec
CONSTANTS
    a1 = a1
    a2 = a2
    NoAP = NoAP
    AP <- OneAP
    NumAuthSteps = 2
    Moves <- OneApMoves
    QueueCapacity = 2
    Timely = FALSE
    ChannelList <- OneChannel
    ApChannel <- AllOnThree
    DefaultSsidAP <- OneAP
    ActiveScan = TRUE
    Restartable <- OneAP
INVARIANTS
    ResponseAccepted
