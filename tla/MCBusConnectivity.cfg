SPECIFICATION BusFairSpec
CONSTANTS
    a1 = a1
    a2 = a2
    a3 = a3
    NoAP = NoAP
    AP <- AllAPs
    Moves <- RoadPastForeign
    DefaultSsidAP <- CompanyAPs
    NumAuthSteps = 4
    QueueCapacity = 2
    Timely = TRUE
    ChannelList <- TwoChannels
    ApChannel <- OnePerChannel
    ActiveScan = FALSE
    Restartable <- NoAPs
INVARIANTS
    BeliefFollowsMib
PROPERTIES
    WifiOnlyWhenAssociated
    WifiUsedWhenAssociated
    RouteFollowsCoverage
    AssociationFollowsCoverage
