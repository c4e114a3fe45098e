SPECIFICATION Spec
CONSTANTS
    N_BITS = 6
    OFFSET_BIT = 2
    Modulus = 5
    FEDraws = {0, 1, 58}
    NClients = 2
    Tapes <- MCTapes
INVARIANTS
    TypeOK
    ValueExact
    NeverWraps
    DrawsUnbiased
    RawInRange
    CountCanonical
    ZeroRecognized
