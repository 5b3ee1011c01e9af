SPECIFICATION Spec
CONSTANTS
    Versions <- MCVersions
    Default <- MCDefault
    None = None
    Torn = Torn
    Plugins <- MCPlugins
INVARIANTS
    PlanIsValidated
    SinglePassMeansMatch
    LadderMeansMatch
