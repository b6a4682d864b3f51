SPECIFICATION Spec
CONSTANTS
    None = None
    Callers = {c1, c2}
    Browsers = {b1, b2}
    MaxPairs = 3
    Life = 3
    Skew = 2
    Latency = 1
    Use = 1
INVARIANTS
    DeadOnlyIfLost
    UsedInTime
SYMMETRY Symmetry
