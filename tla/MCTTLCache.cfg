SPECIFICATION Spec
CONSTANTS
    None = None
    Keys = {k1, k2, k3, k4}
    Values = {v1, v2}
    TTLs = {1, 2}
    MaxEntries = 3
SYMMETRY Symmetry
INVARIANTS
    MapAndList
PROPERTIES
    EvictsOldest
    ImplementsCache
