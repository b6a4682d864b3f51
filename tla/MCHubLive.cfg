SPECIFICATION FairSpec
CONSTANTS
    None = None
    ChannelIDs = {c1}
    Workers = {w1}
    Subs = {s1, s2}
    MaxPerChannel = 2
    MaxTotal = 2
    SubscriberBuffer = 2
    MaxBatch = 2
    MaxArrivals = 3
INVARIANTS
    InOrder
PROPERTIES
    IdleChannelEnds
    FanOutCompletes
    CloseEndsStreams
    ImplementsFairChatFeed
    Delivered
