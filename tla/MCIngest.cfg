SPECIFICATION FairSpec
CONSTANTS
    None = None
    Helpers = {h1, h2}
    Attempts = 2
    MinBackoff = 1
    MaxBackoff = 3
INVARIANTS
    TypeOK
PROPERTIES
    OwnFailureOnly
    SubscribedOrRestarted
    KeepsTrying
    StopsWhenCancelled
