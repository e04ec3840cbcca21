CONSTANTS
    c1 = c1  c2 = c2  w1 = w1  w2 = w2
    None = None  Ended = Ended
    Conn <- OneConnection
    Worker <- TwoWorkers
    QueueSize = 2
    MaxMessages = 2
SPECIFICATION FairSpec
INVARIANT TypeOK
INVARIANT MessageAccounting
INVARIANT DrainedBeforeStop
INVARIANT NormalCloseIsFinal
PROPERTY ImplementsAuditLog
PROPERTY ConnectionEnds
PROPERTY PumpsEnd
