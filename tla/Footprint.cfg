CONSTANTS
    MaxAddr = 1
    BlockSize = 2
    Cores = {0, 1}
    MaxAccesses = 3
SPECIFICATION Spec
INVARIANTS OwnWritesSaved NeverOvercounted AdditionsKept WindowCovers
           MarkerLogComplete
