SPECIFICATION Spec
CONSTANTS
    TargetVocab = 3
    DraftVocab = 2
    TargetTable = 4
    DraftTable = 3
    MaxContext = 6
    Budgets = {0, 4}
    Windows = {0, 1, 2, 5}
    NoEos <- MCNoEos
    TargetModels <- MCTargetModels
    DraftModels <- MCDraftModels
    TargetPick <- MCTargetPick
    DraftPick <- MCDraftPick
    Calls <- MCCalls
INVARIANTS
    IndInv
    OutputIsGreedy
    CachesTrackOutput
    AcceptanceIsAgreement
    ReturnContract
    StatsAddUp
    WithinBudget
PROPERTIES
    ImplementsGreedyDecode
    Terminates
