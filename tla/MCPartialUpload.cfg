SPECIFICATION Spec
CONSTANTS
    MaxProblems = 1
    MaxRequests = 3
    MaxRows = 1
    Limits <- MCLimits
    Data <- MCData
    Archives <- MCArchives
    SortOrders = {0}
    Programs = {"half"}
    Faults = {"sql"}
    Workers = {w1}
    Jobs <- MCJobs
    MaxAttempts = 2
    Shared = FALSE
    Compiles <- MCCompiles
    RunOf <- MCRunOf
INVARIANT AllCasesCount
CHECK_DEADLOCK FALSE
