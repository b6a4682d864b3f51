SPECIFICATION FairSpec
CONSTANTS
    None = None
    Interval = 2
    Timeout = 3
    DialTimeout = 2
    Rate = 2
CHECK_DEADLOCK FALSE
INVARIANTS
    SilenceDetected
    NotGivenUpEarly
PROPERTIES
    DialEnds
    ReaderEnds
