SPECIFICATION ESpec
CONSTANTS
    Configs <- MCConfigs
    ApproxInit = {0, 7}
INVARIANTS
    ExitExactlyWithoutPorts OwnGeometry ApproxConfined SupplyRight HeightsSet
    AreaOnce PointersMatch FreshStats CountedOnce BreakdownAddsUp
