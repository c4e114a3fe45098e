SPECIFICATION Spec
CONSTANTS
    DataLen = 3
    Site = {1, 2, 3}
    Modulus = 7
    Mask <- MCMask
    NClients = 4
    Threshold = 2
INVARIANTS
    NobodyDropped
    LocalSearchExact
