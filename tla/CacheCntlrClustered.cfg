CONSTANTS
    NumCores = 4
    SharedCores = 2
    Block = {b1}
    NoBlock = NoBlock
    L1Ways = 1
    LlcWays = 1
    DramConfig = {FALSE}
SPECIFICATION Spec
INVARIANTS DataStillThere NoWriteLost RepliesMatch
