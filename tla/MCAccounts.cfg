SPECIFICATION Spec
CONSTANTS
    Names = {"alice", "bob"}
    Passwords = {"p", "q"}
    Tools = {t1, t2}
    MaxRequests = 2
    Faults = {"sql"}
INVARIANTS TypeOK AccountsAsTold TokensTruthful
PROPERTY NobodyWaits
CHECK_DEADLOCK FALSE
