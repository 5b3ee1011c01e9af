SPECIFICATION Spec
CONSTANTS
    WarpSize = 4
    WarpsPerBlock = 1
    SharedLimit = 40
    GridLimitY = 2
    NoValue = NoValue
    Shapes <- MCWholeWords
PROPERTY
    ImplementsGemm
