\* Two streams on a client with one connection; replies of up to three lines.
CONSTANTS
    t1 = t1
    t2 = t2
    Streams = {t1, t2}
    PoolSize = 1
    MaxLines = 3
SPECIFICATION Spec
INVARIANTS
    TypeOK
    ConnectionsAreGivenBack
    TextIsInOrder
    EndMeansComplete
CHECK_DEADLOCK FALSE
