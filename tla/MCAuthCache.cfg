CONSTANTS
    r1 = r1  r2 = r2  r3 = r3  q1 = q1
    p1 = p1  p2 = p2  t1 = t1  t2 = t2
    None = None  NoExpiry = NoExpiry
    Req <- TwoRequests
    Ws = {}
    Proc = {q1}
    ProcOf <- OneProcess
    Payload = {p1, p2}
    Target = {t1, t2}
    Kind <- StoredAndMinted
    Host <- FirstHost
    ExpiresAt <- FirstExpires
    Nested = {p1}
    Lifetimes = {4, 6}
    Faults <- CacheFaults
    RequestDeadline = 3
    ReadTimeout = 2
    WriteTimeout = 1
    MintDeadline = 2
    PublishTimeout = 1
    WriteLag = 2
    Margin = 5
    CacheDuration = 2
    MaxTime = 6
    MaxFlushes = 1
SYMMETRY Symmetry
SPECIFICATION Spec
INVARIANT ServedTokenLive
INVARIANT HostRestriction
INVARIANT NestedExpiryRespected
INVARIANT QuietFlushEffective
