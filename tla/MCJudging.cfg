SPECIFICATION Spec
CONSTANTS
    MaxProblems = 1
    MaxRequests = 3
    MaxRows = 1
    Limits <- MCLimits
    Data <- MCData
    Archives <- MCArchives
    SortOrders = {0}
    Programs = {"half", "slow", "broken"}
    Faults = {"sql", "kill"}
    Workers = {w1, w2}
    Jobs <- MCJobs
    MaxAttempts = 2
    Shared = FALSE
    Compiles <- MCCompiles
    RunOf <- MCRunOf
INVARIANTS TypeOK AsTold VerdictDeserved AcceptedPassesAll
CHECK_DEADLOCK FALSE
SYMMETRY MCSymmetry
