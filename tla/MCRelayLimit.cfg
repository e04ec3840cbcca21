CONSTANTS
    c1 = c1  c2 = c2  w1 = w1  w2 = w2
    None = None  Ended = Ended
    Conn <- TwoConnections
    Worker <- OneWorker
    QueueSize = 1
    MaxMessages = 1
SYMMETRY Symmetry
SPECIFICATION Spec
INVARIANT ConnectionLimit
