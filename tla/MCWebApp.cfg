CONSTANTS
    Submissions <- MCSubmissions
    MaxEvents = 3
    MaxInFlight = 2
CHECK_DEADLOCK FALSE
SPECIFICATION FairSpec
INVARIANTS
    PagesInv
    ShownIsAddressed
PROPERTY
    PollingStops
