\* One client, queries, and threads that call add_sync; the loop is fair.
CONSTANTS
    s1 = s1
    s2 = s2
    None = None
    Subscribers <- OneSubscriber
    Contents <- QueryContents
    Requests <- QueryRequests
    MaxSize = 2
    QueueCap = 2
    MaxItems = 3
    OffLoop = TRUE
SPECIFICATION FairSpec
INVARIANTS
    QueryAnswer
PROPERTY
    EventuallyDelivered
CHECK_DEADLOCK FALSE
