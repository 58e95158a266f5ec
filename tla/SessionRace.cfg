SPECIFICATION Spec
CONSTANTS
    c1 = c1
    c2 = c2
    a1 = a1
    p1 = p1
    p2 = p2
    o1 = o1
    o2 = o2
    None = None
    Conns <- MCConns2
    Accounts <- MCAccounts
    Players <- MCOnePlayer
    AccountOf <- MCOnePlayerOf
    Objects <- MCOneObject
    IoThreads = 2
    MaxRequests = 0
SYMMETRY MCSymmetry
PROPERTIES
    NewLoginUnaffected
\* Clients may stop sending.
CHECK_DEADLOCK FALSE
