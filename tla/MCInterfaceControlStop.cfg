SPECIFICATION FairSpec
CONSTANTS
    LifecycleOps <- StopOnly
INVARIANTS
    TimerFollowsApplication
PROPERTIES
    ImplementsSelection
    KeepsSelecting
