SPECIFICATION Spec
CONSTANTS
    num_workers = 2
    requests_per_worker = 3
    solo_requests = 2
    MaxRefused = 1
INVARIANTS
    TypeOK
    ContextExclusive
    ResultsInOrder
    TimedWorkIsExact
PROPERTY
    Terminates
