SPECIFICATION Spec
CONSTANTS
    LifecycleOps <- StopOrCrash
INVARIANTS
    NoTimerWhenDown
