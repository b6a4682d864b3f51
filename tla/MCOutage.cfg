SPECIFICATION Spec
CONSTANTS
    None = None
    Users = {u1}
    Accounts = {a1}
    Buttons = {b4, b5}
    Jobs = {j1, j2}
    Lookups = {f1}
    Archive <- FullArchive
PROPERTIES
    OutageKeepsClasses
