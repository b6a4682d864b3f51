CONSTANTS
    Accounts = {ann, ben}
    Tokens = {t1, t2, t3}
    Flows = {f1, f2}
    Requests = {r1, r2}
    None = None
    Keep = Keep
SPECIFICATION Spec
SYMMETRY Symmetry
INVARIANTS
    LoggedOutStays
    OrphanOnlyIfCrossed
    StateOnce
PROPERTIES
    TokenForLife
