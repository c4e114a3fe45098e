SPECIFICATION Spec
CONSTANTS
    Elem = {0, 1, 2}
    Zero = 0
    One = 1
    Add <- MCAdd
    Neg <- MCNeg
    Mul <- MCMul
    InnerLevels = 2
    Width = 2
    Coins = {0, 1}
    Coin <- MCCoin
    MacErrors = {0, 2}
    OtherSketches = 1
    Streams <- MCStreams
INVARIANTS
    TypeOK
    OpensToCheck
    WellFormedPasses
    MalformedCaught
    TriplesFresh
