SPECIFICATION Spec
CONSTANTS
    LifecycleOps <- StopOrCrash
INVARIANTS
    TypeOK
    RoutesUsable
    NetmaskRoutesFollow
PROPERTIES
    CarrierOnlyByStart
