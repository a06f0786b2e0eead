CONSTANTS
    c1 = c1
    c2 = c2
    Timers <- TwoConns
    Capacity = 3
    Timeout = 2
    MaxRequests <- SecondSilent
    MayHangUp <- OneConn
    MaxDue = 2
SPECIFICATION FairSpec
INVARIANTS
    TypeOK
    ActivesAlive
    OutputInv
PROPERTIES
    NoLateRelease
    WheelPromise
    NoConnectionLeak
