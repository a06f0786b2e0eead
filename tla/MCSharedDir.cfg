SPECIFICATION Spec
CONSTANTS
    MaxProblems = 1
    MaxRequests = 3
    MaxRows = 1
    Limits <- MCLimits
    Data <- MCData
    Archives <- MCArchives
    SortOrders = {0}
    Programs = {"half"}
    Faults = {}
    Workers = {w1, w2}
    Jobs <- MCJobs
    MaxAttempts = 2
    Shared = TRUE
    Compiles <- MCCompiles
    RunOf <- MCRunOf
INVARIANT CorrectIsAccepted
CHECK_DEADLOCK FALSE
