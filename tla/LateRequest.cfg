SPECIFICATION FairSpec
CONSTANTS
    DataLen = 2
    Site = {1}
    Modulus = 5
    Mask <- MCMask
    NReqs = 1
    AddKeyBatchSize = 1
    SketchBatchSize = 1
    SketchBatchSizeLast = 1
    ThresholdNum = 1
    ThresholdDen = 2
    MaxSessions = 2
    MaxCrashes = 0
    LateDelivery = TRUE
INVARIANT SumsBounded
CHECK_DEADLOCK FALSE
