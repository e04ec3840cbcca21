SPECIFICATION Spec
CONSTANTS
    s1 = s1
    x_api_key = x_api_key
    authorization = authorization
    x_gateway_key = x_gateway_key
    p1 = p1
    p2 = p2
    Bearer = Bearer
    Key = Key
    None = None
    MaxRecordSize = 1103
    Stream <- OneStream
    Header <- Headers
    Token <- Tokens
    Authorization = authorization
    ApiKeyHeader = x_api_key
    ApiKeyPrefix <- NoPrefix
    KnownAuth <- Known
    Configured <- Streams
    Requests <- ClientRequests
    Answers <- GatewayAnswers
    BodySizes <- RequestSizes
    Pieces <- ResponseSizes
    MaxResponse <- LongestBody
INVARIANTS
    TypeOK
    NoGuessing
    CredentialSwapped
    AuditHeadersClean
    NothingForwardedUnaudited
    AuditOnlyAuthorised
    AuditedBody
    RecordsFit
    CorsForAllowedOrigins
CHECK_DEADLOCK FALSE
