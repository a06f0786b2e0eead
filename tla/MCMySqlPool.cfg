CONSTANTS
    c1 = c1
    c2 = c2
    c3 = c3
    c4 = c4
    k1 = k1
    k2 = k2
    k3 = k3
    Clients <- FourClients
    Conns <- ThreeConns
    MaxConnections = 2
    SizeMax = 9
SPECIFICATION FairSpec
INVARIANTS
    PoolInv
    OneOwner
    NoLostWakeup
PROPERTY
    ShutdownDrains
