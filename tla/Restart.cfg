SPECIFICATION FairSpec
CONSTANTS
    DataLen = 2
    Site = {1, 2}
    Modulus = 3
    Mask <- MCMask
    NReqs = 2
    AddKeyBatchSize = 1
    SketchBatchSize = 3
    SketchBatchSizeLast = 1
    ThresholdNum = 1
    ThresholdDen = 10
    MaxSessions = 2
    MaxCrashes = 1
    LateDelivery = FALSE
INVARIANTS
    KeysAligned
    NoPoison
    ResultExact
    NothingInvented
PROPERTIES
    Server0Searches
    Concludes
