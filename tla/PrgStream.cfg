SPECIFICATION FairSpec
CONSTANTS
    BLOCK = 2
    TwoHi = 16
    Seeds <- MCSeeds
    Shapes <- MCShapes
    Rejected <- MCRejected
INVARIANTS
    ChildrenFixed
    ConversionFixed
PROPERTIES
    CallsReturn
