SPECIFICATION Spec
CONSTANTS
    DataLen = 3
    Site = {1, 2, 3}
    Modulus = 7
    Mask <- MCMask
    NClients = 2
    Threshold = 2
INVARIANT TriplesSuffice
