CONSTANTS
    t1 = t1
    t2 = t2
    w1 = w1
    w2 = w2
    Threads <- TwoThreads
    Endpoints <- TwoEndpoints
    Bootstrap <- OneConfigured
    MaxSubmissions = 2
    RetryCount = 1
    ProbesEnabled = FALSE
    Faults <- AllButCrash
SPECIFICATION FairSpec
INVARIANTS
    NoRowForgotten
PROPERTIES
    RowsBecomeFinal
    ShutdownJoins
