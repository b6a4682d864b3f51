SPECIFICATION FairSpec
CONSTANTS
    None = None
    Users = {u1, u2}
    Accounts = {a1, a2}
    Buttons = {b4, b5}
    Jobs = {j1, j2}
    Lookups = {f1}
    Archive <- FullArchive
INVARIANTS
    StaleOnlyIfRaced
    OneSource
PROPERTIES
    ClassesKept
    Converges
