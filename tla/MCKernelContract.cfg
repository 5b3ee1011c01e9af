SPECIFICATION Spec
CONSTANTS
    WarpSize = 2
    WarpsPerBlock = 2
    SharedLimit = 16
    GridLimitY = 2
    NoValue = NoValue
    Shapes <- MCAccepted
INVARIANT
    SameContractAsNaive
