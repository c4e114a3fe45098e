SPECIFICATION Spec
CONSTANTS
    DataLen = 3
    NClients = 4
    Threshold = 2
INVARIANTS
    TypeOK
    NoHeavyLost
    FrontierBounded
PROPERTY ImplementsHeavyHitters
