SPECIFICATION Spec
CONSTANTS
    o1 = o1
    o2 = o2
    o3 = o3
    d1 = d1
    d2 = d2
    Objects <- MCObjects
    Data <- MCData
    Gone = Gone
    NoPlan = NoPlan
    Garbage = Garbage
    c1 = c1
    c2 = c2
    Creations <- MCCreations
    Nothing = Nothing
INVARIANTS
    StorageIsHeld
    KernelReadsLive
PROPERTY
    ImplementsPluginWeights
