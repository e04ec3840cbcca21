CONSTANTS
    r1 = r1  r2 = r2  r3 = r3  q1 = q1
    p1 = p1  p2 = p2  t1 = t1  t2 = t2
    None = None  NoExpiry = NoExpiry
    Req <- ThreeRequests
    Ws = {}
    Proc = {q1}
    ProcOf <- OneProcess
    Payload = {p1}
    Target = {t1}
    Kind <- AllMinted
    Host <- NoHosts
    ExpiresAt <- NeverExpires
    Nested = {}
    Lifetimes = {5}
    Faults = {"setex_error"}
    RequestDeadline = 2
    ReadTimeout = 1
    WriteTimeout = 1
    MintDeadline = 1
    PublishTimeout = 1
    WriteLag = 1
    Margin = 3
    CacheDuration = 2
    MaxTime = 4
    MaxFlushes = 0
SYMMETRY Symmetry
SPECIFICATION Spec
INVARIANT NoLostWakeup
INVARIANT MintExclusive
