SPECIFICATION Spec
CONSTANTS
    DataLen = 3
    Site = {1, 2}
    Modulus = 5
    Mask <- MCMask
    NReqs = 3
    AddKeyBatchSize = 2
    SketchBatchSize = 2
    SketchBatchSizeLast = 1
    ThresholdNum = 1
    ThresholdDen = 1
    MaxSessions = 1
    MaxCrashes = 0
    LateDelivery = FALSE
INVARIANTS
    TypeOK
    KeysAligned
    EveryKeyChecked
    HonestKeysPass
    SumsBounded
    FrontiersAgree
    ResultExact
PROPERTIES
    Server1Searches
