SPECIFICATION MCSpec
CONSTANTS
    TargetVocab = 3
    DraftVocab = 2
    TargetTable = 3
    DraftTable = 2
    MaxContext = 6
    Budgets = {1, 4}
    Windows = {0, 2, 4}
    BenchWindows = {1, 3}
    NoEos <- MCNoEos
    TargetModels <- MCTargetModels
    DraftModels <- MCDraftModels
    TargetPick <- MCTargetPick
    DraftPick <- MCDraftPick
    EosIds <- MCEosIds
    TargetPickNotEos <- MCTargetPickNotEos
    PromptLists <- MCPromptLists
    Calls <- MCCalls
    BENCH_PROMPT_IDS <- MCIds
    Scripts <- MCScripts
INVARIANTS
    ScriptTypesOK
    VerdictIsEosFree
    RowsAreOwn
    EqualWork
    ResultsAreWhole
