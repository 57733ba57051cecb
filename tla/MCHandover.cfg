SPECIFICATION FairSpec
CONSTANTS
    c1 = c1
    c2 = c2
    c3 = c3
    NoCell = NoCell
    Idle = Idle
    Cell <- TwoCells
    DownMax = 2
    UpMax = 2
    HandoverMax = 3
CHECK_DEADLOCK FALSE
INVARIANTS
    TypeOK
    ForwardingMatchesHandover
    HoldingMatchesHandover
    OnlyDisplacedStayBehind
    InOrder
    UplinkInOrder
    UplinkHasNextHop
PROPERTIES
    ImplementsDelivery
    HandoverEnds
