CONSTANTS
    NumCores = 2
    SharedCores = 2
    Block = {b1, b2, b3}
    NoBlock = NoBlock
    L1Ways = 1
    LlcWays = 2
    DramConfig = {FALSE, TRUE}
SPECIFICATION Spec
SYMMETRY BlockSymmetry
INVARIANTS Inclusion DirtyDataTaken SingleDirty HandoffOwned DirectNeverFails
