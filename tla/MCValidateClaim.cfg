SPECIFICATION Spec
CONSTANTS
    Versions <- MCVersions
    Default <- MCDefault
    None = None
    Torn = Torn
    Plugins <- MCPlugins
INVARIANT
    PassMeansSame
