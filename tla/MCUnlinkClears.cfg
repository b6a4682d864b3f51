SPECIFICATION Spec
CONSTANTS
    None = None
    Users = {u1}
    Accounts = {a1}
    Buttons = {b4}
    Jobs = {j1, j2, j3}
    Lookups = {f1}
    Archive <- FullArchive
INVARIANTS
    UnlinkClears
