\* Two clients and every way of adding; no queries.
CONSTANTS
    s1 = s1
    s2 = s2
    None = None
    Subscribers <- TwoSubscribers
    Contents <- StreamContents
    Requests <- NoRequests
    MaxSize = 2
    QueueCap = 2
    MaxItems = 5
    OffLoop = FALSE
SYMMETRY Interchangeable
SPECIFICATION Spec
INVARIANTS
    TypeOK
    StreamFaithful
    StoreIsNewest
PROPERTY
    ImplementsStream
CHECK_DEADLOCK FALSE
