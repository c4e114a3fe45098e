SPECIFICATION Spec
CONSTANTS
    DomainBits = 3
    Seed = {0, 1, 2, 3}
    Xor <- MCXor
    ExpandSeed <- MCExpandSeed
    ExpandBit <- MCExpandBit
    ConvertSeed <- MCConvertSeed
    ConvertWord <- MCConvertWord
    Elem = {0, 1, 2}
    Zero = 0
    Add <- MCAdd
    Neg <- MCNeg
INVARIANTS
    TypeOK
    SharesAddUp
    StatesDiffer
    EvalSharesAddUp
