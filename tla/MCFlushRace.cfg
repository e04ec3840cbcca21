CONSTANTS
    r1 = r1  r2 = r2  r3 = r3  q1 = q1
    p1 = p1  p2 = p2  t1 = t1  t2 = t2
    None = None  NoExpiry = NoExpiry
    Req <- TwoRequests
    Ws = {}
    Proc = {q1}
    ProcOf <- OneProcess
    Payload = {p1}
    Target = {t1}
    Kind <- AllStored
    Host <- NoHosts
    ExpiresAt <- NeverExpires
    Nested = {}
    Lifetimes = {4, 7}
    Faults = {}
    RequestDeadline = 4
    ReadTimeout = 2
    WriteTimeout = 1
    MintDeadline = 2
    PublishTimeout = 1
    WriteLag = 2
    Margin = 5
    CacheDuration = 2
    MaxTime = 8
    MaxFlushes = 1
SYMMETRY Symmetry
SPECIFICATION Spec
INVARIANT FlushForcesReauthentication
