SPECIFICATION Spec
CONSTANTS
    N_TRANSFORMER_BLOCKS = 32
    LinearNames = 4
    Prompts <- MCPrompts
INVARIANTS
    MeasuredAsLabelled
    BetweenIsOriginal
    HeldTwice
    EveryPromptCompared
