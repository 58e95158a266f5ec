SPECIFICATION Spec
CONSTANTS
    c1 = c1
    c2 = c2
    a1 = a1
    p1 = p1
    p2 = p2
    o1 = o1
    o2 = o2
    None = None
    Conns <- MCConns2
    Accounts <- MCAccounts
    Players <- MCPlayers
    AccountOf <- MCAccountOf
    Objects <- MCObjects
    IoThreads = 2
    MaxRequests = 2
SYMMETRY MCSymmetry
INVARIANTS
    RegistryIsExact
    PlayedIsNotTimed
\* Clients may stop sending.
CHECK_DEADLOCK FALSE
