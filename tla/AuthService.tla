----------------------------- MODULE AuthService -----------------------------
(***************************************************************************)
(* Authorisation of concurrent requests by the Portunus backend: the       *)
(* /authorise endpoint (app.py), the WebSocket handshake's authentication  *)
(* (relay/auth.py), AuthService.authenticate with its per-process mint     *)
(* locks, token minting, and the Redis cache that all replicas share.      *)
(*                                                                         *)
(* Every "await" of the code is a state of the request (pc), so requests   *)
(* interleave exactly where the event loop can switch.  Redis executes a   *)
(* command at a moment of its own: a GET is answered some time after it    *)
(* was executed, and a SETEX abandoned by a timeout may still be executed  *)
(* later, at most WriteLag seconds after it was sent.                      *)
(*                                                                         *)
(* Time is a clock in seconds.  asyncio's timers fire on time: the clock   *)
(* does not pass a deadline that has not been acted upon.                  *)
(***************************************************************************)
EXTENDS CachePolicy

CONSTANTS
    Req,              \* the requests, each handled once
    Ws,               \* those of them that are WebSocket handshakes
    Proc,             \* backend processes sharing one Redis
    ProcOf,           \* [Req -> Proc]: the process a request reaches
    Payload, Target,  \* authorisation payloads; target hosts the proxies send
    Kind,             \* [Payload -> {"stored", "minted"}]: the secret's type
    Host,             \* [Payload -> Target \cup {None}]: its host restriction
    ExpiresAt,        \* [Payload -> Nat \cup {NoExpiry}]: credential expiry
    Nested,           \* payloads that state that expiry inside "credentials"
    Lifetimes,        \* expires_in values a provider may answer
    Faults,           \* the failures the environment may inject
    RequestDeadline, ReadTimeout, WriteTimeout, MintDeadline, PublishTimeout,
    WriteLag,         \* longest delay between sending a SETEX and its execution
    MaxTime,          \* bound: the clock stops here, later arrivals are cut off
    MaxFlushes,       \* bound: calls of /cache/flush
    None

Key == Payload \X Target

ASSUME AuthAssumption ==
    /\ Ws \subseteq Req
    /\ ProcOf \in [Req -> Proc]
    /\ Kind \in [Payload -> {"stored", "minted"}]
    /\ Host \in [Payload -> Target \cup {None}]
    /\ ExpiresAt \in [Payload -> Nat \cup {NoExpiry}]
    /\ Nested \subseteq Payload
    /\ None \notin Req
    /\ None \notin Target

ASSUME TimingAssumption ==
    /\ RequestDeadline \in Nat
    /\ ReadTimeout \in Nat
    /\ WriteTimeout \in Nat
    /\ MintDeadline \in Nat
    /\ PublishTimeout \in Nat
    /\ WriteLag \in Nat
    /\ MaxTime \in Nat
    /\ MaxFlushes \in Nat
    /\ Lifetimes \subseteq Nat \ {0}

(* The 60 s margin covers a late write, the cache read and the metadata    *)
(* publication (5 s and 3 s): it leaves 52 s for the write's delay.        *)
ASSUME MarginAssumption == Margin >= WriteLag + ReadTimeout + PublishTimeout

VARIABLES
    now,           \* the clock
    pc,            \* where each request is suspended
    key,           \* payload and target host of each request
    start,         \* when the request arrived
    due,           \* when the innermost asyncio.timeout() around it fires
    cred,          \* the AuthResult it has obtained so far
    served,        \* whether that result came from the cache
    requested_at,  \* when the token exchange was sent
    reply,         \* what the request was answered with
    cause,         \* the failure behind that answer
    cache,         \* Redis
    setex,         \* the SETEX each request has in flight
    mint_locks,    \* AuthService._mint_locks, one dictionary per process
    lockref,       \* the lock object a coroutine refers to
    owner,         \* the holder of each lock object
    ahead,         \* the coroutines queued before this one on its lock
    epoch,         \* number of flushes so far
    seen,          \* the number of flushes when the request arrived
    quiet          \* the last flush found no request in flight

locks  == <<mint_locks, lockref, owner, ahead>>
flushes == <<epoch, seen, quiet>>
vars == <<now, pc, key, start, due, cred, served, requested_at, reply, cause,
          cache, setex, locks, flushes>>

-----------------------------------------------------------------------------
(* AuthResult.  expires_at is the code's own reckoning and valid_until the *)
(* provider's; epoch dates the AWS round trip behind the result.           *)
Credential == [kind: {"none", "stored", "minted"}, expires_at: Nat,
               valid_until: Nat, epoch: Nat]

NoCred == [kind |-> "none", expires_at |-> 0, valid_until |-> 0, epoch |-> 0]

StoredKey == [NoCred EXCEPT !.kind = "stored", !.epoch = epoch]

(* The token a provider issues now.  OAuthTokenResponse counts its         *)
(* lifetime from the moment the request was sent, the provider from now;   *)
(* GoogleAccessTokenResponse takes the provider's own expiry.              *)
minted_token(counted_from, expires_in) ==
    [kind |-> "minted", expires_at |-> counted_from + expires_in,
     valid_until |-> now + expires_in, epoch |-> epoch]

(* A Redis entry, gone once the clock reaches exp; a command in flight,    *)
(* whose ttl is positive (Redis refuses any other).                        *)
Entry == [cred: Credential, exp: Nat]
NoEntry == [cred |-> NoCred, exp |-> 0]
NoWrite == [cred |-> NoCred, ttl |-> 0, sent |-> 0]
Write == {w \in [cred: Credential, ttl: Nat, sent: Nat] :
             w.ttl = 0 => w = NoWrite}

Live(e) == now < e.exp

(* Definitions named "mutated" are the next definition with a plausible    *)
(* bug, kept to show that the properties would notice it.                  *)
mutated_generate_cache_key(k) == <<k[1], CHOOSE t \in Target : TRUE>>

(* SHA-256 over payload and target host: distinct pairs, distinct keys.    *)
generate_cache_key(k) == k

(* AuthPayload.from_contents reads an expiration only where it is nested   *)
(* in "credentials"; encode_payload puts it beside them.                   *)
expiration(p) == IF p \in Nested THEN ExpiresAt[p] ELSE NoExpiry

(* SecretValidationService.validate_secret: no restriction, or exactly the *)
(* proxy's target (an unknown target, None, never equals a host).          *)
HostAllowed(k) == Host[k[1]] \in {None, k[2]}

Reading  == {"read", "reread"}
ReadBack == {"read_back", "reread_back"}
Minting  == {"assume", "prove", "exchange", "exchange_back"}
Timed    == Reading \cup ReadBack \cup Minting \cup {"write", "publish"}
Active   == Timed \cup {"identity", "fetch", "waiting"}
PC       == Active \cup {"idle", "done"}

(* Inside "async with self._mint_lock(...)".                               *)
Critical(r) == \/ pc[r] \in {"reread", "reread_back"} \cup Minting
               \/ pc[r] = "write" /\ Kind[key[r][1]] = "minted"

-----------------------------------------------------------------------------
(* The except clauses of authorise (HTTP status) and of authenticate_ws    *)
(* (WebSocket close code); "accepted" is a handshake that goes on.         *)
http_status == [PayloadError |-> 401, CredentialsError |-> 401,
                AuthenticationError |-> 403, FetchSecretError |-> 403,
                UpstreamServiceError |-> 503, TimeoutError |-> 503,
                ConfigurationError |-> 500]

ws_close_code == [PayloadError |-> 4001, CredentialsError |-> 4001,
                  AuthenticationError |-> 4003, FetchSecretError |-> 4003,
                  UpstreamServiceError |-> 1013, TimeoutError |-> 1013,
                  ConfigurationError |-> 4001]

Answers == {0, 200, 401, 403, 500, 503, 1000, 1013, 4001, 4003}

(* Failures of each remote call and the exception the code turns them      *)
(* into; a ClientError is any error answer of AWS, throttling included.    *)
IdentityFailures == [sts_refused |-> "CredentialsError",
                     sts_unreachable |-> "CredentialsError"]
parse_failure == "AuthenticationError"   \* a secret of no known form
FetchFailures == [secret_refused |-> "FetchSecretError",
                  secrets_unreachable |-> "FetchSecretError",
                  secret_invalid |-> parse_failure]
RoleFailures == [role_not_allowed |-> "AuthenticationError",
                 caller_not_a_role |-> "CredentialsError",
                 no_sts_endpoint |-> "ConfigurationError"]
AssumeFailures == [assume_expired |-> "CredentialsError",
                   assume_refused |-> "AuthenticationError",
                   assume_throttled |-> "AuthenticationError",
                   assume_unreachable |-> "UpstreamServiceError"]
ProveFailures == [prove_refused |-> "AuthenticationError",
                  prove_throttled |-> "AuthenticationError",
                  prove_unreachable |-> "UpstreamServiceError"]
ExchangeFailures == [exchange_refused |-> "AuthenticationError",
                     exchange_malformed |-> "AuthenticationError",
                     exchange_throttled |-> "UpstreamServiceError",
                     exchange_unreachable |-> "UpstreamServiceError"]

-----------------------------------------------------------------------------
(* asyncio.Lock and the weak dictionary of locks.                          *)
Slot(r) == <<ProcOf[r], generate_cache_key(key[r])>>

Waiters(l) == {q \in Req : pc[q] = "waiting" /\ lockref[q] = l}

mutated_mint_lock(r) == r

(* _mint_lock: the lock of this payload and target, made when absent (a    *)
(* lock object is named after the request that made it).                   *)
mint_lock(r) == IF mint_locks[Slot(r)] = None THEN r ELSE mint_locks[Slot(r)]

(* The dictionary is not weak.                                             *)
mutated_DropLock_strong(r) ==
    /\ lockref' = [lockref EXCEPT ![r] = None]
    /\ owner' = [l \in Req |-> IF owner[l] = r THEN None ELSE owner[l]]
    /\ ahead' = [q \in Req |-> IF q = r THEN {} ELSE ahead[q] \ {r}]
    /\ UNCHANGED mint_locks

(* A cancelled coroutine keeps its place in the queue.                     *)
mutated_DropLock_queued(r) ==
    /\ lockref' = [lockref EXCEPT ![r] = None]
    /\ owner' = [l \in Req |-> IF owner[l] = r THEN None ELSE owner[l]]
    /\ mint_locks' = [s \in Proc \X Key |->
          IF \A q \in Req \ {r} : lockref[q] # mint_locks[s]
          THEN None ELSE mint_locks[s]]
    /\ UNCHANGED ahead

(* The lock is not released.                                               *)
mutated_DropLock_held(r) ==
    /\ lockref' = [lockref EXCEPT ![r] = None]
    /\ UNCHANGED <<owner, ahead, mint_locks>>

(* Leaving the lock, or the queue for it: the dictionary drops the lock    *)
(* with the last coroutine that refers to it.                              *)
DropLock(r) ==
    /\ lockref' = [lockref EXCEPT ![r] = None]
    /\ owner' = [l \in Req |-> IF owner[l] = r THEN None ELSE owner[l]]
    /\ ahead' = [q \in Req |-> IF q = r THEN {} ELSE ahead[q] \ {r}]
    /\ mint_locks' = [s \in Proc \X Key |->
          IF /\ mint_locks[s] = lockref[r]
             /\ \A q \in Req \ {r} : lockref[q] # lockref[r]
          THEN None ELSE mint_locks[s]]

(* An exception reaches the endpoint: locks are released on the way out    *)
(* and the caller gets its status or close code.                           *)
Raise(r, exc, why) ==
    /\ DropLock(r)
    /\ pc' = [pc EXCEPT ![r] = "done"]
    /\ reply' = [reply EXCEPT ![r] = IF r \in Ws THEN ws_close_code[exc]
                                                 ELSE http_status[exc]]
    /\ cause' = [cause EXCEPT ![r] = why]
    /\ cred' = [cred EXCEPT ![r] = NoCred]
    /\ UNCHANGED <<now, key, start, due, served, requested_at, cache, setex,
                   flushes>>

Fails(r, failures) ==
    \E f \in DOMAIN failures \cap Faults : Raise(r, failures[f], f)

(* authenticate returns: a handshake is accepted, an HTTP request goes on  *)
(* to publish its metadata under a timeout of its own.                     *)
Authenticated(r) ==
    IF r \in Ws
    THEN /\ pc' = [pc EXCEPT ![r] = "done"]
         /\ reply' = [reply EXCEPT ![r] = 1000]
         /\ UNCHANGED due
    ELSE /\ pc' = [pc EXCEPT ![r] = "publish"]
         /\ due' = [due EXCEPT ![r] = now + PublishTimeout]
         /\ UNCHANGED reply

mutated_StartWrite(r, c) ==
    LET ttl == IF c.kind = "minted"
               THEN effective_cache_ttl(c.expires_at, now)
               ELSE stored_key_ttl(expiration(key[r][1]), now)
    IN /\ pc' = [pc EXCEPT ![r] = "write"]
       /\ due' = [due EXCEPT ![r] = now + WriteTimeout]
       /\ cred' = [cred EXCEPT ![r] = c]
       /\ setex' = [setex EXCEPT ![r] =
             IF ttl < 0 THEN NoWrite ELSE [cred |-> c, ttl |-> ttl, sent |-> now]]

(* _write_cache: the ttl is fixed before the connection is acquired, and   *)
(* nothing is sent when it is not positive (cache_auth_response).          *)
StartWrite(r, c) ==
    LET ttl == IF c.kind = "minted"
               THEN effective_cache_ttl(c.expires_at, now)
               ELSE stored_key_ttl(expiration(key[r][1]), now)
    IN /\ pc' = [pc EXCEPT ![r] = "write"]
       /\ due' = [due EXCEPT ![r] = now + WriteTimeout]
       /\ cred' = [cred EXCEPT ![r] = c]
       /\ setex' = [setex EXCEPT ![r] =
             IF ttl <= 0 THEN NoWrite ELSE [cred |-> c, ttl |-> ttl, sent |-> now]]

-----------------------------------------------------------------------------
Init ==
    /\ now = 0
    /\ pc = [r \in Req |-> "idle"]
    /\ key \in [Req -> Key]
    /\ start = [r \in Req |-> 0]
    /\ due = [r \in Req |-> 0]
    /\ cred = [r \in Req |-> NoCred]
    /\ served = [r \in Req |-> FALSE]
    /\ requested_at = [r \in Req |-> 0]
    /\ reply = [r \in Req |-> 0]
    /\ cause = [r \in Req |-> "none"]
    /\ cache = [k \in Key |-> NoEntry]
    /\ setex = [r \in Req |-> NoWrite]
    /\ mint_locks = [s \in Proc \X Key |-> None]
    /\ lockref = [r \in Req |-> None]
    /\ owner = [r \in Req |-> None]
    /\ ahead = [r \in Req |-> {}]
    /\ epoch = 0
    /\ seen = [r \in Req |-> 0]
    /\ quiet = TRUE

(* authorise up to the first await of authenticate, or authenticate_ws up  *)
(* to it: a payload that cannot be decoded is refused before any I/O.  The *)
(* wait for the request's own body, which touches nothing shared, precedes *)
(* this step.                                                              *)
Arrive(r) ==
    /\ pc[r] = "idle"
    /\ now + RequestDeadline <= MaxTime
    /\ start' = [start EXCEPT ![r] = now]
    /\ seen' = [seen EXCEPT ![r] = epoch]
    /\ \/ /\ pc' = [pc EXCEPT ![r] = "read"]
          /\ due' = [due EXCEPT ![r] = now + ReadTimeout]
          /\ UNCHANGED <<reply, cause>>
       \/ /\ "payload_invalid" \in Faults
          /\ pc' = [pc EXCEPT ![r] = "done"]
          /\ reply' = [reply EXCEPT ![r] =
                IF r \in Ws THEN ws_close_code["PayloadError"]
                            ELSE http_status["PayloadError"]]
          /\ cause' = [cause EXCEPT ![r] = "payload_invalid"]
          /\ UNCHANGED due
    /\ UNCHANGED <<now, key, cred, served, requested_at, cache, setex, locks,
                   epoch, quiet>>

(* Redis executes the GET of _read_cache.                                  *)
RedisGet(r) ==
    /\ pc[r] \in Reading
    /\ pc' = [pc EXCEPT ![r] = IF pc[r] = "read" THEN "read_back"
                                                 ELSE "reread_back"]
    /\ LET e == cache[generate_cache_key(key[r])]
       IN cred' = [cred EXCEPT ![r] = IF Live(e) THEN e.cred ELSE NoCred]
    /\ UNCHANGED <<now, key, start, due, served, requested_at, reply, cause,
                   cache, setex, locks, flushes>>

(* What a request does after a miss, or an error treated as one: the first *)
(* time it turns to AWS, under the mint lock it mints (checking the        *)
(* federation role and the caller before any call).                        *)
Miss(r) ==
    \/ /\ pc[r] \in {"read", "read_back"}
       /\ pc' = [pc EXCEPT ![r] = "identity"]
       /\ UNCHANGED <<now, key, start, due, cred, served, requested_at, reply,
                      cause, cache, setex, locks, flushes>>
    \/ /\ pc[r] \in {"reread", "reread_back"}
       /\ pc' = [pc EXCEPT ![r] = "assume"]
       /\ due' = [due EXCEPT ![r] = now + MintDeadline]
       /\ UNCHANGED <<now, key, start, cred, served, requested_at, reply,
                      cause, cache, setex, locks, flushes>>
    \/ /\ pc[r] \in {"reread", "reread_back"}
       /\ Fails(r, RoleFailures)

(* The answer to the GET arrives.                                          *)
ReadReturns(r) ==
    /\ pc[r] \in ReadBack
    /\ \/ /\ cred[r].kind = "none"
          /\ Miss(r)
       \/ /\ cred[r].kind # "none"
          /\ served' = [served EXCEPT ![r] = TRUE]
          /\ DropLock(r)
          /\ Authenticated(r)
          /\ UNCHANGED <<now, key, start, cred, requested_at, cause, cache,
                         setex, flushes>>

(* Redis is unavailable or answers an error: treated as a miss.            *)
ReadFails(r) ==
    /\ pc[r] \in Reading
    /\ "redis_error" \in Faults
    /\ Miss(r)

(* The read's timeout, or the client library's own: never a miss.          *)
ReadTimesOut(r) ==
    /\ pc[r] \in Reading \cup ReadBack
    /\ now >= due[r] \/ "redis_timeout" \in Faults
    /\ Raise(r, "TimeoutError", "cache_timeout")

(* AWS's own view of a payload's credentials.                              *)
CredentialsExpired(p) ==
    IF ExpiresAt[p] = NoExpiry THEN FALSE ELSE now >= ExpiresAt[p]

(* get_aws_identity: AWS accepts credentials that have not expired.        *)
IdentityReturns(r) ==
    /\ pc[r] = "identity"
    /\ \/ /\ ~CredentialsExpired(key[r][1])
          /\ pc' = [pc EXCEPT ![r] = "fetch"]
          /\ UNCHANGED <<now, key, start, due, cred, served, requested_at,
                         reply, cause, cache, setex, locks, flushes>>
       \/ /\ CredentialsExpired(key[r][1])
          /\ Raise(r, "CredentialsError", "sts_expired")
       \/ Fails(r, IdentityFailures)

(* fetch_secret and validate_secret, then the stored key's cache write or  *)
(* the queue for the mint lock (asyncio.Lock is taken at once only when it *)
(* is free and nobody waits for it).                                       *)
FetchReturns(r) ==
    /\ pc[r] = "fetch"
    /\ \/ /\ HostAllowed(key[r])
          /\ Kind[key[r][1]] = "stored"
          /\ StartWrite(r, StoredKey)
          /\ UNCHANGED <<now, key, start, served, requested_at, reply, cause,
                         cache, locks, flushes>>
       \/ /\ HostAllowed(key[r])
          /\ Kind[key[r][1]] = "minted"
          /\ LET l == mint_lock(r)
             IN /\ mint_locks' = [mint_locks EXCEPT ![Slot(r)] = l]
                /\ lockref' = [lockref EXCEPT ![r] = l]
                /\ \/ /\ owner[l] = None /\ Waiters(l) = {}
                      /\ owner' = [owner EXCEPT ![l] = r]
                      /\ pc' = [pc EXCEPT ![r] = "reread"]
                      /\ due' = [due EXCEPT ![r] = now + ReadTimeout]
                      /\ UNCHANGED ahead
                   \/ /\ owner[l] # None \/ Waiters(l) # {}
                      /\ ahead' = [ahead EXCEPT ![r] = Waiters(l)]
                      /\ pc' = [pc EXCEPT ![r] = "waiting"]
                      /\ UNCHANGED <<owner, due>>
          /\ UNCHANGED <<now, key, start, cred, served, requested_at, reply,
                         cause, cache, setex, flushes>>
       \/ /\ ~HostAllowed(key[r])
          /\ Raise(r, "AuthenticationError", "host_mismatch")
       \/ Fails(r, FetchFailures)

(* The first coroutine in the queue takes a released lock.                 *)
LockGranted(r) ==
    /\ pc[r] = "waiting"
    /\ owner[lockref[r]] = None
    /\ ahead[r] = {}
    /\ owner' = [owner EXCEPT ![lockref[r]] = r]
    /\ ahead' = [q \in Req |-> ahead[q] \ {r}]
    /\ pc' = [pc EXCEPT ![r] = "reread"]
    /\ due' = [due EXCEPT ![r] = now + ReadTimeout]
    /\ UNCHANGED <<now, key, start, cred, served, requested_at, reply, cause,
                   cache, setex, mint_locks, lockref, flushes>>

(* TokenMintService.mint, one await at a time, inside MINT_DEADLINE.       *)
AssumeReturns(r) ==
    /\ pc[r] = "assume"
    /\ \/ /\ pc' = [pc EXCEPT ![r] = "prove"]
          /\ UNCHANGED <<now, key, start, due, cred, served, requested_at,
                         reply, cause, cache, setex, locks, flushes>>
       \/ Fails(r, AssumeFailures)

ProveReturns(r) ==
    /\ pc[r] = "prove"
    /\ \/ /\ pc' = [pc EXCEPT ![r] = "exchange"]
          /\ requested_at' = [requested_at EXCEPT ![r] = now]
          /\ UNCHANGED <<now, key, start, due, cred, served, reply, cause,
                         cache, setex, locks, flushes>>
       \/ Fails(r, ProveFailures)

(* The provider issues a token; its answer is still on the way.            *)
TokenIssued(r) ==
    /\ pc[r] = "exchange"
    /\ pc' = [pc EXCEPT ![r] = "exchange_back"]
    /\ \E expires_in \in Lifetimes, counted_from \in {requested_at[r], now} :
          cred' = [cred EXCEPT ![r] = minted_token(counted_from, expires_in)]
    /\ UNCHANGED <<now, key, start, due, served, requested_at, reply, cause,
                   cache, setex, locks, flushes>>

(* The key is known, or the exchange fails.  For GCP it is two HTTP calls, *)
(* the second with the answer to the first; they are one step, since       *)
(* nothing shared is read or written between them.                         *)
ExchangeReturns(r) ==
    \/ /\ pc[r] = "exchange_back"
       /\ StartWrite(r, cred[r])
       /\ UNCHANGED <<now, key, start, served, requested_at, reply, cause,
                      cache, locks, flushes>>
    \/ /\ pc[r] \in {"exchange", "exchange_back"}
       /\ Fails(r, ExchangeFailures)

MintTimesOut(r) ==
    /\ pc[r] \in Minting
    /\ now >= due[r]
    /\ Raise(r, "UpstreamServiceError", "mint_timeout")

(* The cache write is acknowledged, was not sent, or failed: _write_cache  *)
(* swallows every error, its own timeout included, and what is in flight   *)
(* stays in flight.                                                        *)
WriteReturns(r) ==
    /\ pc[r] = "write"
    /\ setex[r] = NoWrite \/ "setex_error" \in Faults \/ now >= due[r]
    /\ DropLock(r)
    /\ Authenticated(r)
    /\ UNCHANGED <<now, key, start, cred, served, requested_at, cause, cache,
                   setex, flushes>>

(* publish_metadata ends, in whatever way: the caller gets its key.        *)
PublishReturns(r) ==
    /\ pc[r] = "publish"
    /\ pc' = [pc EXCEPT ![r] = "done"]
    /\ reply' = [reply EXCEPT ![r] = 200]
    /\ UNCHANGED <<now, key, start, due, cred, served, requested_at, cause,
                   cache, setex, locks, flushes>>

mutated_DeadlineExpires(r) ==
    /\ pc[r] \in Timed
    /\ r \notin Ws
    /\ now >= start[r] + RequestDeadline
    /\ Raise(r, "TimeoutError", "deadline")

(* The endpoint's own timeout cancels the request wherever it is.  A       *)
(* WebSocket handshake has no such deadline.                               *)
DeadlineExpires(r) ==
    /\ pc[r] \in Active
    /\ r \notin Ws
    /\ now >= start[r] + RequestDeadline
    /\ Raise(r, "TimeoutError", "deadline")

(* Redis executes a SETEX, or it is lost on the way.                       *)
RedisSetex(r) ==
    /\ setex[r].ttl > 0
    /\ cache' = [cache EXCEPT ![generate_cache_key(key[r])] =
          [cred |-> setex[r].cred, exp |-> now + setex[r].ttl]]
    /\ setex' = [setex EXCEPT ![r] = NoWrite]
    /\ UNCHANGED <<now, pc, key, start, due, cred, served, requested_at, reply,
                   cause, locks, flushes>>

LoseSetex(r) ==
    /\ setex[r].ttl > 0
    /\ "setex_lost" \in Faults
    /\ setex' = [setex EXCEPT ![r] = NoWrite]
    /\ UNCHANGED <<now, pc, key, start, due, cred, served, requested_at, reply,
                   cause, cache, locks, flushes>>

mutated_flush_all ==
    /\ epoch < MaxFlushes
    /\ epoch' = epoch + 1
    /\ quiet' = \A r \in Req : pc[r] \notin Active /\ setex[r] = NoWrite
    /\ UNCHANGED <<now, pc, key, start, due, cred, served, requested_at, reply,
                   cause, cache, setex, locks, seen>>

(* POST /cache/flush that succeeds (a failing one changes nothing).        *)
flush_all ==
    /\ epoch < MaxFlushes
    /\ cache' = [k \in Key |-> NoEntry]
    /\ epoch' = epoch + 1
    /\ quiet' = \A r \in Req : pc[r] \notin Active /\ setex[r] = NoWrite
    /\ UNCHANGED <<now, pc, key, start, due, cred, served, requested_at, reply,
                   cause, setex, locks, seen>>

(* The clock moves once every timer that is due has fired and every SETEX  *)
(* at the end of its delay has been executed or lost; Redis expires keys.  *)
Tick ==
    /\ now < MaxTime
    /\ \A r \in Req :
          /\ pc[r] \in Timed => now < due[r]
          /\ pc[r] \in Active /\ r \notin Ws => now < start[r] + RequestDeadline
          /\ setex[r].ttl > 0 => now < setex[r].sent + WriteLag
    /\ now' = now + 1
    /\ cache' = [k \in Key |-> IF now + 1 < cache[k].exp THEN cache[k]
                                                         ELSE NoEntry]
    /\ UNCHANGED <<pc, key, start, due, cred, served, requested_at, reply,
                   cause, setex, locks, flushes>>

Idle ==
    /\ \A r \in Req : pc[r] \notin Active
    /\ UNCHANGED vars

Step(r) ==
    \/ RedisGet(r) \/ ReadReturns(r) \/ ReadFails(r) \/ ReadTimesOut(r)
    \/ IdentityReturns(r) \/ FetchReturns(r) \/ LockGranted(r)
    \/ AssumeReturns(r) \/ ProveReturns(r) \/ TokenIssued(r)
    \/ ExchangeReturns(r) \/ MintTimesOut(r)
    \/ WriteReturns(r) \/ PublishReturns(r) \/ DeadlineExpires(r)

Next ==
    \/ \E r \in Req : Arrive(r) \/ Step(r) \/ RedisSetex(r) \/ LoseSetex(r)
    \/ flush_all
    \/ Tick
    \/ Idle

Spec == Init /\ [][Next]_vars

-----------------------------------------------------------------------------
(* Fairness.  The clock advances and asyncio's timers fire; Redis gets     *)
(* round to a command or loses it.  Nothing else is assumed of Redis, AWS  *)
(* or the providers for an HTTP request.  A handshake has no deadline: it  *)
(* relies on every call it makes coming back, which botocore's and httpx's *)
(* own timeouts see to.                                                    *)
TimerFires(r) ==
    /\ now >= due[r]
    /\ ReadTimesOut(r) \/ MintTimesOut(r) \/ WriteReturns(r) \/ PublishReturns(r)

Fairness ==
    /\ WF_vars(Tick)
    /\ \A r \in Req : /\ WF_vars(TimerFires(r))
                      /\ WF_vars(DeadlineExpires(r))
                      /\ WF_vars(RedisSetex(r) \/ LoseSetex(r))
    /\ \A r \in Ws : WF_vars(Step(r))

FairSpec == Spec /\ Fairness

-----------------------------------------------------------------------------
(* Types of the state: requests of app.py and relay/auth.py, the contents  *)
(* of Redis, and the lock dictionary of auth_service.py.                   *)
TypeOK ==
    /\ now \in Nat
    /\ pc \in [Req -> PC]
    /\ key \in [Req -> Key]
    /\ start \in [Req -> Nat]
    /\ due \in [Req -> Nat]
    /\ cred \in [Req -> Credential]
    /\ served \in [Req -> BOOLEAN]
    /\ requested_at \in [Req -> Nat]
    /\ reply \in [Req -> Answers]
    /\ cache \in [Key -> Entry]
    /\ setex \in [Req -> Write]
    /\ mint_locks \in [Proc \X Key -> Req \cup {None}]
    /\ lockref \in [Req -> Req \cup {None}]
    /\ owner \in [Req -> Req \cup {None}]
    /\ ahead \in [Req -> SUBSET Req]
    /\ epoch \in Nat
    /\ seen \in [Req -> Nat]
    /\ quiet \in BOOLEAN

(* No request obtains a key whose secret is restricted to another host,    *)
(* from AWS or from an entry another target's request has cached           *)
(* (validate_secret together with generate_cache_key).                     *)
HostRestriction ==
    \A r \in Req : reply[r] \in {200, 1000} => HostAllowed(key[r])

(* Single flight: in one process at most one coroutine at a time re-reads  *)
(* the cache, mints and writes for a payload and target, although the lock *)
(* object comes and goes with its users (_mint_lock).                      *)
MintExclusive ==
    \A r, q \in Req :
        r # q /\ Slot(r) = Slot(q) => ~(Critical(r) /\ Critical(q))

(* The dictionary holds no lock without a user: "A lock is dropped once no *)
(* coroutine holds it" (auth_service.py), on every way out of the block.   *)
MintLocksReleased ==
    \A s \in Proc \X Key : mint_locks[s] # None =>
        \E r \in Req : lockref[r] = mint_locks[s]

(* No lost wake-up: when a mint lock is free and coroutines wait for it,   *)
(* one of them can take it, also after a holder or the head of the queue   *)
(* was cancelled by its deadline.                                          *)
NoLostWakeup ==
    \A l \in Req : owner[l] = None /\ Waiters(l) # {} =>
        \E r \in Waiters(l) : ahead[r] = {}

(* The request is about to answer with a minted token that Redis returned. *)
HoldsCachedToken(r) ==
    /\ \/ pc[r] \in ReadBack
       \/ pc[r] = "publish" /\ served[r]
    /\ cred[r].kind = "minted"

(* A minted token taken from Redis is valid at the provider until the      *)
(* caller is answered, however late its entry was written and its answer   *)
(* arrived (TOKEN_EXPIRY_SAFETY_MARGIN_SECONDS, minted_token's expiry).    *)
ServedTokenLive ==
    \A r \in Req : HoldsCachedToken(r) => now < cred[r].valid_until

(* Redis holds a stored key fetched with credentials that expire.          *)
HoldsStoredKey(k) ==
    cache[k].cred.kind = "stored" /\ ExpiresAt[k[1]] # NoExpiry

(* A stored key leaves Redis when the credentials that fetched it expire,  *)
(* if the payload nests that expiry in "credentials" (_write_cache): at    *)
(* most the delay of the write later.                                      *)
NestedExpiryRespected ==
    \A k \in Key : (HoldsStoredKey(k) /\ k[1] \in Nested) =>
        cache[k].exp <= ExpiresAt[k[1]] + WriteLag

(* After a flush made while no request was in flight, everything in Redis  *)
(* rests on an AWS round trip made after it (flush_all).                   *)
QuietFlushEffective ==
    quiet => \A k \in Key : Live(cache[k]) => cache[k].cred.epoch = epoch

(* Every HTTP request is answered, whatever Redis, AWS and the providers   *)
(* do or fail to do: the deadlines of authorise see to it.                 *)
HttpAnswered ==
    \A r \in Req \ Ws : pc[r] \in Active ~> pc[r] = "done"

(* Every handshake is accepted or closed once the calls it makes come      *)
(* back, behind whatever queue for the mint lock it finds.                 *)
WsAnswered ==
    \A r \in Ws : pc[r] \in Active ~> pc[r] = "done"

-----------------------------------------------------------------------------
(* Statements of the repository's documents that the code does not keep.   *)

(* "forcing all subsequent requests to re-authenticate via AWS" (app.py,   *)
(* flush_cache): a request that arrives after a flush is not served a      *)
(* result obtained before it.                                              *)
FlushForcesReauthentication ==
    \A r \in Req : served[r] => cred[r].epoch >= seen[r]

(* "[the] Redis TTL, which is deliberately capped at credential            *)
(* expiration" (CHANGELOG), for stored keys whatever the payload's form.   *)
StoredKeyCappedAtExpiration ==
    \A k \in Key : HoldsStoredKey(k) =>
        cache[k].exp <= ExpiresAt[k[1]] + WriteLag

(* "If STS or the token endpoint cannot be reached or answers 5xx/429 ...  *)
(* /authorise returns 503 rather than 403" (README).                       *)
MintOverloadIs503 ==
    \A r \in Req \ Ws : cause[r] \in
        {"assume_throttled", "assume_unreachable", "prove_throttled",
         "prove_unreachable", "exchange_throttled", "exchange_unreachable"}
        => reply[r] = 503

=============================================================================
