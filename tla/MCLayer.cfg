SPECIFICATION MCSpec
CONSTANTS
    WarpSize = 2
    WarpsPerBlock = 2
    SharedLimit = 16
    GridLimitY = 2
    NoValue = NoValue
    Shapes <- MCAccepted
    Width = 5
    Block = 4
    Matrices <- MCMatrices
    K = 8
    group_size = 4
    MaxWeight = 120
    Weights <- MCWeights
    Rows <- MCRows
    Precision = 3
    Units <- MCUnits
INVARIANTS
    LayerTypesOK
    StagedBeforeRead
    StoredIsVectorPart
    CompleteUnlessRefused
    WholeIfItFits
    ReadersAgree
    DequantIsNear
    OrderKept
    TinyGroupsOnly
