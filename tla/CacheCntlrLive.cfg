CONSTANTS
    NumCores = 2
    SharedCores = 2
    Block = {b1, b2}
    NoBlock = NoBlock
    L1Ways = 1
    LlcWays = 1
    DramConfig = {FALSE}
SPECIFICATION FairSpec
PROPERTIES EveryAccessCompletes
