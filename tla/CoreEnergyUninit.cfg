SPECIFICATION ESpec
CONSTANTS
    Configs <- MCConfigs
    ApproxInit = {0, 1}
INVARIANT
    ApproxConfined
