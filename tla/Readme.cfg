SPECIFICATION FairSpec
CONSTANTS
    DataLen = 2
    Site = {1, 2}
    Modulus = 5
    Mask <- MCMask
    NReqs = 3
    AddKeyBatchSize = 3
    SketchBatchSize = 3
    SketchBatchSizeLast = 3
    ThresholdNum = 1
    ThresholdDen = 2
    MaxSessions = 1
    MaxCrashes = 0
    LateDelivery = FALSE
INVARIANT MoreThanThreshold
