SPECIFICATION RequestsSpec
CONSTANTS
    a1 = a1
    a2 = a2
    NoAP = NoAP
    AP <- BothAPs
    NumAuthSteps = 4
    Moves <- RoadMoves
    QueueCapacity = 1
    Timely = FALSE
    ChannelList <- OneChannel
    ApChannel <- AllOnThree
    DefaultSsidAP <- BothAPs
    ActiveScan = TRUE
    Restartable <- NoAPs
INVARIANTS
    TypeOK
    OneDriver
    CommandAccepted
    ConfirmIsCurrent
    SignalAgreesWithMib
PROPERTIES
    EndsByBeaconLoss
