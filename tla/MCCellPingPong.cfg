SPECIFICATION FairSpec
CONSTANTS
    c1 = c1
    c2 = c2
    c3 = c3
    NoCell = NoCell
    Idle = Idle
    Cell <- TwoCells
    Level <- WeakLevels
    MinRssi <- Minus14
    FirstRssi <- Minus80
    Before <- FixedOrder
    OutOfRange = FALSE
PROPERTIES
    Settles
