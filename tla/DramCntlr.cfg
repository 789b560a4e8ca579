CONSTANTS
    MaxAddr = 4
    BlockSize = 2
    PageSize = 4
    MaxTime = 2
SPECIFICATION Spec
INVARIANTS TypeOK LifetimeExact PagesCounted
