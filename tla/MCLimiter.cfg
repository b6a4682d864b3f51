SPECIFICATION LimiterSpec
CONSTANTS
    Nil = Nil
    k1 = k1
    k2 = k2
    k3 = k3
    Clients <- MCClients
    Limit <- MCLimit
    Window <- MCWindow
    MaxKeys = 1
SYMMETRY Symmetry
INVARIANTS
    TableBounded
    OverLimitOnlyIfCleared
    RefusedAtLimit
