SPECIFICATION RequestsSpec
CONSTANTS
    a1 = a1
    a2 = a2
    NoAP = NoAP
    AP <- BothAPs
    NumAuthSteps = 4
    Moves <- RoadMoves
    QueueCapacity = 2
    Timely = TRUE
    ChannelList <- OneChannel
    ApChannel <- AllOnThree
    DefaultSsidAP <- BothAPs
    ActiveScan = TRUE
    Restartable <- OtherAP
INVARIANTS
    Agreement
    NoAuthError
    AssociatedAsRequested
