CONSTANTS
    t1 = t1
    t2 = t2
    w1 = w1
    w2 = w2
    Threads <- TwoThreads
    Endpoints <- TwoEndpoints
    Bootstrap <- OneConfigured
    MaxSubmissions = 2
    RetryCount = 2
    ProbesEnabled = TRUE
    Faults <- SlowAndCrash
SPECIFICATION Spec
SYMMETRY ThreadSymmetry
INVARIANTS
    TypeOK
    OnePlace
    VerdictsEarned
    ProbeMarksProbed
    RegistryInv
    ScanFindsBest
PROPERTIES
    FinalRowsStay
    BalancerSpec
    IdsStable
