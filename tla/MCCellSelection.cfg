SPECIFICATION FairSpec
CONSTANTS
    c1 = c1
    c2 = c2
    c3 = c3
    NoCell = NoCell
    Idle = Idle
    Cell <- ThreeCells
    Level <- MixedLevels
    MinRssi <- Minus14
    FirstRssi <- Minus80
    Before <- AnyOrder
    OutOfRange = TRUE
INVARIANTS
    TypeOK
    HandoverHasTarget
    TargetIsJustified
    KnownToServingCell
PROPERTIES
    ImplementsServingCell
    SettlesWhenPositive
