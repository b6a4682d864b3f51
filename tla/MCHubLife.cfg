SPECIFICATION Spec
CONSTANTS
    None = None
    ChannelIDs = {c1, c2}
    Workers = {w1, w2, w3}
    Subs = {s1, s2, s3}
    MaxPerChannel = 2
    MaxTotal = 2
    SubscriberBuffer = 1
    MaxBatch = 1
    MaxArrivals = 1
SYMMETRY Symmetry
INVARIANTS
    ServedByLiveWorker
    NoLeakedWorker
    OneWorkerPerChannel
    CapsHold
    NoSendOnClosed
PROPERTIES
    ImplementsChatFeed
