SPECIFICATION FairSpec
CONSTANTS
    e1 = e1
    e2 = e2
    Enb <- TwoEnbs
    MasterId = e1
    HarqProcesses = 8
    MaxHarqRtx = 1
    FbTimers <- DefaultAndFitting
    MaxPdu = 2
    HandoverMax = 1
INVARIANTS
    HarqConsistent
    RetransmissionInTurn
PROPERTIES
    RetransmissionsEnd
