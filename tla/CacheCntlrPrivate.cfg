CONSTANTS
    NumCores = 2
    SharedCores = 1
    Block = {b1, b2}
    NoBlock = NoBlock
    L1Ways = 1
    LlcWays = 1
    DramConfig = {FALSE}
SPECIFICATION Spec
SYMMETRY BlockSymmetry
INVARIANTS TypeOK NoWriteLost ReadsCurrent SingleOwner
