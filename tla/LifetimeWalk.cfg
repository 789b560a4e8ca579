CONSTANTS
    MaxAddr = 8
    BlockSize = 3
SPECIFICATION WalkSpec
INVARIANTS BlockSettled
CHECK_DEADLOCK FALSE
