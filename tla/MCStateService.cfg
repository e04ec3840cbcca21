SPECIFICATION FairSpec
CONSTANTS
    u1 = u1  u2 = u2
    p1 = p1  p2 = p2
    c1 = c1  c2 = c2  c3 = c3
    RedisUser = {u1, u2}
    Publisher = {p1, p2}
    Late = {p2}
    Client = {c1, c2, c3}
    MaxRetries = 2
    Lifespan = Lifespan
    None = None
INVARIANTS
    TypeOK
    OneRedisClient
    OneKinesisClient
PROPERTIES
    CallsReturn
    ShutdownCompletes
