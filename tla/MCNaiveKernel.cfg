SPECIFICATION Spec
CONSTANTS
    BlockX = 2
    BlockY = 2
    GridLimitY = 2
    NoValue = NoValue
    Shapes <- MCShapes
PROPERTY
    ImplementsGemm
