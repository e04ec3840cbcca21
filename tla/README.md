# Portunus: TLA+ models, checks and proofs

Portunus is an API-key proxy. An Envoy proxy (`proxy/`) hands each client request to
the backend (`portunus/`), which exchanges the temporary AWS credentials in its
authorisation header for a real key, from Secrets Manager or minted at a provider,
and caches the result in Redis. WebSocket upgrades are relayed by the backend itself.
Everything is logged to Kinesis.

Paths below are relative to `portunus/portunus/` unless they start with `proxy/`.

## 1. Inventory

| Component | State | Operations | Hard behaviour | What makes it correct |
|---|---|---|---|---|
| Authorisation: `app.py` `authorise`, `relay/auth.py`, `services/auth_service.py` | requests in flight, `_mint_locks` (weak dictionary, per process) | `authorise`, `authenticate_ws`, `authenticate`, `_read_cache`, `_write_cache`, `_mint_lock` | nested timeouts cancel a coroutine at any await; single flight through a lock that appears and disappears with its users | every request is answered; one mint at a time per payload and target; a restricted key stays on its host; failures get the documented status |
| Cache: `services/cache_service.py` | Redis entries with ttl, shared by all replicas | get, setex, flush | a write abandoned by a timeout may still happen; ttl computed before it; flush races with writes | a served token is still valid; entries end with the credentials; a flush is effective |
| Minting: `services/federation_service.py` | none of its own (HTTP clients) | role checks, AssumeRole, GetWebIdentityToken, exchange | four remote calls under one 6 s deadline, each failing in its own way | token expiry never overestimated; lock released on every way out |
| Secrets and validation: `secrets_service.py`, `secret_validation_service.py` | none | fetch, parse, host check | the host check happens on a miss only | see above |
| WebSocket relay: `app.py` `ws_relay`, `relay/handler.py` | `_active_ws_connections`, two pump tasks per connection, counters | connect, authenticate, relay, lifetime limit, close | tasks that outlive their parent; cancellation between forwarding and logging | limit kept, places freed, pumps end, counts final |
| Log queue: `relay/logger.py` | bounded queue, workers | enqueue, worker, start, stop | full queue, poison pills among late items | nothing lost or doubled once counted; drained before stop returns; stop returns |
| Lifespan: `app.py` `lifespan` | progress of the shutdown | cancel, sleep, stop queue, close clients | runs beside tasks it did not cancel | shutdown completes |
| Clients: `services/state_service.py` | Redis client, Kinesis client and its lock | lazy creation, retry, close | client published before its ping; creation and closing suspend inside a lock; publishers that run on during and after the closing | one client at a time, known to whoever closes it; calls and shutdown end |
| Publishing: `services/publish_service.py`, log endpoints | none | put_record per record | best effort | chunks complete and numbered |
| Envoy filter: `proxy/lua.lua`, `proxy/lib` | per-stream metadata | on_request, on_response | audit calls are fire-and-forget; an error after the credential swap | no unauthorised request passes; what passes is audited |
| Proxy entry point: `proxy/entrypoint.sh` | drain state | wait, drain, quit | SIGTERM while work is in flight; an admin port that does not answer; Envoy ending before, during or after the handler | Envoy stops after its work or at the deadline, the script after Envoy, the container before SIGKILL |
| Data: `models.py` records, `util.py`, `arn_service.py`, `config.py` | none | parsing, chunking, encoding | size limits | chunks reassemble |

Interaction: the proxy calls `/authorise` and the log endpoints over HTTP; both front
ends call one `AuthService` object; replicas meet only in Redis; the relay hands
messages to the log queue; the lifespan handler cancels connections and stops the queue.

## 2. Plan

1. **Done** `CachePolicy`, `AuthService`: authorisation, cache, minting, mint locks.
2. **Done** `WsRelay`: connections, pumps, log queue, lifespan.
3. **Done** proofs: `AuthServiceProofs`, `AuthTokenProofs`, `WsRelayProofs`.
4. **Done** `BodyChunking`, `EnvoyFilter`: the HTTP path of the proxy, the log endpoints
   and what they publish; proofs in `EnvoyFilterProofs` and `EnvoyAuditProofs`.
5. **Done** `StateService`: the shared clients and the end of the lifespan handler; proofs
   in `StateServiceProofs`.
6. **Done** `ProxyDrain`: the drain of `entrypoint.sh` over the traffic of Envoy; proofs in
   `ProxyDrainProofs`.
7. **Done** `AuditLog`, the abstract specification of the log queue; `WsRelay` is checked to
   implement it.
8. **Done** the refinement of `AuditLog` as a theorem (`WsLogProofs`), and proofs of every
   safety invariant that the passing runs check.
9. Later: an abstract specification of the cache (an entry is a grant that ends) refined by
   `AuthService`.

## 3. Modules

| Module | Models |
|---|---|
| `CachePolicy` | pure ttl rules: `effective_cache_ttl`, `seconds_until_expiration`, `stored_key_ttl` |
| `AuthService` | requests, Redis, mint locks, minting, flush |
| `AuthServiceProofs`, `AuthTokenProofs` | theorems about `AuthService` |
| `WsRelay` | connections, pumps, log queue, lifespan |
| `AuditLog` | what the log queue promises, abstractly |
| `WsRelayProofs`, `WsLogProofs` | theorems about `WsRelay`; the second about its messages and the log |
| `StateService` | Redis client, Kinesis client and its lock, closing of both |
| `StateServiceProofs` | theorems about `StateService` |
| `BodyChunking` | pure: `chunk_body_data` and the size of base64 |
| `EnvoyFilter` | the Lua filter, audit calls, log endpoints, published records |
| `EnvoyFilterProofs`, `EnvoyAuditProofs` | theorems about `EnvoyFilter` |
| `ProxyDrain` | the entry point of the proxy container from the start of Envoy to its end |
| `ProxyDrainProofs` | theorems about `ProxyDrain` |
| `MCAuthService`, `MCWsRelay`, `MCStateService`, `MCEnvoyFilter`, `MCProxyDrain` | constants of the checked instances |

Definitions named `mutated_...` are plausible bugs, each placed before the definition it
changes; they are in no specification and document that the properties notice them.

### AuthService

`pc[r]` is the await at which request `r` is suspended: `read` and `reread` (the GET is
on its way), `read_back` and `reread_back` (Redis has executed it), `identity`, `fetch`,
`waiting` (for the mint lock), `assume`, `prove`, `exchange`, `exchange_back`, `write`,
`publish`. The code between two awaits is one action, with two exceptions in which nothing
shared is touched in between: `Arrive` includes the reading of the request's body, and the two
HTTP calls of the GCP exchange are one wait. `cred` is the `AuthResult` in hand,
with the code's own `expires_at`, the provider's `valid_until`, and the number of flushes
(`epoch`) when AWS was asked. `due` is the innermost `asyncio.timeout`; HTTP requests have
`start + RequestDeadline` too, handshakes have not.

The mint lock is modelled down to `asyncio.Lock`: `mint_locks` maps process and key to a
lock object, `lockref` says which coroutine refers to which, and an entry disappears with
the last reference, as in a `WeakValueDictionary`. `ahead` is the queue. Lock objects are
named after the request that made them.

Redis executes commands at moments of its own. A SETEX in flight is a value of `setex[r]`,
which survives the request; it is executed, or lost, at most `WriteLag` after it was sent.
Redis and the providers are external: they are modelled by what the code relies on.

Failures are the records `IdentityFailures`, `FetchFailures`, `RoleFailures`,
`AssumeFailures`, `ProveFailures` and `ExchangeFailures`, from the failure to the exception
the code raises; `http_status` and `ws_close_code` are the `except` clauses. `cause`
remembers the failure. Payloads, hosts and tokens are model values. The cache key is the
pair it hashes, SHA-256 being taken as injective.

### WsRelay

`pc[c]` is the await of a connection's task, `pump[p]` that of one of its two pumps.
`sent` counts what a pump has forwarded and `index` what it has counted, `summary` what
`_relay` returned. A put on a queue with room does not suspend, so `Send` forwards and
enqueues in one step, and `blocked` exists only while the queue is full. `PumpEnds` is
`asyncio.wait` returning, with the cancellation of the other pump: a cancelled send may
or may not have gone out. `LifetimeExpires` and `CancelAll` leave the pumps running, as
the code does. `AuthReturns` stands for the whole of `AuthService`'s handshake.
The number of workers is `max_connections`, as in `lifespan`.

### AuditLog

The log without queue, workers and pills: a set of pending items, a set of published ones, a
status, and what `stop()` owes. `WsRelay` implements it (`Log`, `ImplementsAuditLog`) with

| `AuditLog` | `WsRelay` |
|---|---|
| `pending` | items in the queue or in the hands of a worker |
| `published` | `published` |
| `status` | `life`: open until `stop()` is called, closed when it has returned |
| `owed` | `accepted`, what was queued, held or published when `stop()` began |

A put that waits for room is not yet a put, and a worker that takes an item takes no step of
`AuditLog`: what is in question is that neither the hand-over nor the pills drop or repeat an
item. `AuditLog` lets items put after `stop()` stay pending for ever, as the code does.

### StateService

`rpc[u]` is the await of a coroutine that uses Redis: `verify` (the ping of the client it has
just made and published), `ping` (that of `acquire_redis_connection`), `backoff`, `health`,
`command` (what the caller does with the client). `kpc[p]` is that of one that publishes:
`lock`, `create` (in `enter_async_context`), `put`. `held` and `using` are the clients in their
hands, so that a client can be reset, or closed, under a coroutine that uses it. Every one of
these awaits can be cancelled. `get_redis_client` catches `Exception`, which a cancellation is
not: it leaves the unverified client published. `refuted` is the clients whose verification
failed.

`_kinesis_lock` is an `asyncio.Lock`: `holder` and the queue `waiters`; a lock that was
released with others waiting is not free to a newcomer. `stack` is the content of the current
exit stack, `generation` counts its replacements, and `entering` is the one that a creator
looked up before it was suspended: a client entered into a replaced stack would never be closed.

When `lifespan` comes to close the clients, the server has ended its requests and the log queue
its workers (`QueueStopped`). The pumps in `Late` need not have ended (see `WsRelay`), publish
directly, and so meet the closing: they can find the client that is being closed, wait for the
lock behind the handler, or make a new client after it. Client names are reused when nobody
refers to them any more, so that creation is not bounded.

### EnvoyFilter

`pc[s]` says where the filter has yielded for stream `s`: `buffering` (in `body()`),
`authorising` (in the synchronous `httpCall`), `upstream` (the request filter has
returned, the target works), `streaming` (in `bodyChunks()`); or that it is over: `done`,
`relayed` (an upgrade, which `WsRelay` takes over) and `reset`. The code between two
yields is one action. `Reset` may come at each of them, since Envoy destroys the coroutine
with its stream. Errors that the two `pcall`s catch are `BufferingFails`,
`AuthorisedRaises` (after any number of log calls) and part of `ResponseEnds`. The
filter's own replies also pass through `envoy_on_response`, which logs only if
`request_id` was set, so after `AuthorisedRaises` the 500 is logged as the response.

CORS headers have two sources, kept apart in `reply[s].cors`. `send_error_response` and the
preflight give them to `respond()` ("respond"), from the request's Origin (`origin`).
`envoy_on_response` adds them to whatever passes through it ("metadata") if `Arrive` has noted
the origin in the stream's metadata (`cors_origin`). Envoy's own 413 and what the target replies
have only the second; `/ping`, answered before the origin is looked at, has neither.
`CorsForAllowedOrigins` asks for each of the two where the code relies on it, and there is a
mutant that drops each.

A header value is a sequence of tokens, so that the prefix tests and the removal of
prefixes are real ones. `headers` is the map the filter rewrites in place, `logged` what
it put in the request headers log call. Bodies are lengths; 200 stands for every status
of the target, which the filter does not look at.

The audit `httpCall`s do not yield. Each is a process of its own (`call[s][p]`), which
outlives the stream: `lost` when `httpCall` raised or the endpoint was not reached. An
endpoint publishes one record per step and stops at the first error, answering 500; an
error of `put_record` may hide a record that was stored. A part without a configured
Kinesis stream is answered 200. Kinesis and Envoy are external. Envoy's retries and rate
limit are configuration and left out; the filter keeps no state between streams.

### ProxyDrain

`pc` is the command the script runs: `wait`, then in `drain_and_quit` `post_drain`, `read` (one
call of `active_work`), `sleep`, `post_quit`, `quit_back` (Envoy has taken `/quitquitquit`, wget
has not ended), `recheck` (`kill -0` after the interrupted `wait`), `wait_again`, `exited`. The
clock counts seconds since SIGTERM; `due` is when the command must have ended.

Envoy is external: per connection its state and whether it has audit calls in flight, and how
Envoy itself fares. Connections and requests go on during the drain, except that no connection
is new, as the script's comment says of the load balancer. `active_work` is the sum it prints.
Its three counters are taken to be read at one moment. Whether the upstream half of an upgraded
connection is in `upstream_rq_active` depends on Envoy, so `pins` is free. `envoy.yaml` enables
no upgrade over HTTP/2, so an upgraded connection carries nothing else and the subtraction never
goes below zero.

The admin port answers or fails at any time within `AdminDelay`; since the script gives wget no
timeout this is an assumption. `kill -0` also finds a zombie; but the shell may collect Envoy
while it waits for a command of the handler, and then does not find it (`reaped`). A SIGTERM
before the trap is set is not modelled.

## 4. Runs

| Run | Instance | Shows |
|---|---|---|
| `MCAuthCache` | 2 HTTP requests, a minted and a stored secret, both restricted to one of 2 targets, the stored one with credentials that expire, lifetimes below and above the margin, all cache faults, 1 flush | `ServedTokenLive`, `HostRestriction`, `NestedExpiryRespected`, `QuietFlushEffective` |
| `MCAuthQueue` | 3 requests, one lock | `NoLostWakeup`, `MintExclusive` |
| `MCAuthFaults` | 1 HTTP request, 1 handshake, every fault, fairness | `TypeOK`, `MintLocksReleased`, `HttpAnswered`, `WsAnswered` |
| `MCRelay` | 1 connection, 2 workers, queue of 2, 2 messages per pump, fairness | `TypeOK`, `MessageAccounting`, `DrainedBeforeStop`, `NormalCloseIsFinal`, `ImplementsAuditLog`, `ConnectionEnds`, `PumpsEnd` |
| `MCRelayLimit` | 2 connections, 1 place | `ConnectionLimit` |
| `MCStateService` | 2 users of Redis, 2 publishers of which 1 outlives the shutdown, 3 client names, 2 retries, fairness | `TypeOK`, `OneRedisClient`, `OneKinesisClient`, `CallsReturn`, `ShutdownCompletes` |
| `MCEnvoyFilter` | 1 stream, 3 headers, 32 requests, 3 answers, bodies of 0, a chunk, a chunk and a byte, 3 of 6 parts configured, every fault | `TypeOK`, `NoGuessing`, `CredentialSwapped`, `AuditHeadersClean`, `NothingForwardedUnaudited`, `AuditOnlyAuthorised`, `AuditedBody`, `RecordsFit`, `CorsForAllowedOrigins` |
| `MCProxyDrain` | 3 connections, drain time 2, every failure of the admin port, crashes of Envoy | `TypeOK`, `CleanQuit`, `NeverKilled`, `ScriptOutlivesEnvoy` |
| `MCFlushRace` | 2 requests, 1 flush, no faults | violates `FlushForcesReauthentication` |
| `MCStoredTtlExpiry` | payloads as `encode_payload` writes them | violates `StoredKeyCappedAtExpiration` |
| `MCMintOverload` | every fault | violates `MintOverloadIs503` |
| `MCRelayLoss` | 1 connection | violates `AllTrafficLogged` |

Bounds. Two requests are enough for one to write what another reads, and for a holder and
a waiter; three make a queue whose head can be cancelled. The clock runs past two request
deadlines, so that an entry can be written late, read and expire. Timeouts keep the order
of the real ones (the request's 9 s is the longest; 5 s read, 6 s mint, 3 s write and
publication) at a scale of seconds to units, and `Margin` keeps the relation the 60 s have
to them (`MarginAssumption`). Lifetimes lie on both sides of the margin. In the relay two
messages per direction and a queue of two places make it fill up with pumps and pills
waiting; two workers let one end while the other publishes. `MaxTime`, `MaxFlushes` and
`MaxMessages` are the only bounds of these two that the code does not have. The requests of
these runs share one process, where the locks are; replicas meet only in Redis, and the proofs
are for any assignment of requests to processes. In the filter
one stream is enough, streams sharing nothing; its requests combine a missing, a bare, a
`Bearer` and a different payload in both accepted headers, with a gateway's header absent
or present, and its answers keep the proxy's header, move the key to the other accepted
one, or to the gateway's. `MaxRecordSize` is 1103 because the division in
`chunk_body_data` then has a remainder and rounding decides whether a record fits; a
response comes in one piece or in two. `Requests`, `Answers`, `BodySizes`, `Pieces` and
`MaxResponse` are bounds. A stream ends, so that run does not look for deadlocks.
Two users of Redis are a creator and one that finds its client unverified; of the two
publishers one is among those that the shutdown waits for and one is not; three names are
enough for every client that someone refers to. The code retries 8 times, the run 2. In the
drain three connections can be idle, answered with an audit call in flight, and upgraded at
once; `StopTimeout` is the smallest that `DrainAssumption` allows, so that one more second
anywhere would show; no bound but `Conn` is added. Symmetry is used where only
safety is checked and the constants treat requests, or connections, alike.

Fairness. For an HTTP request: the clock advances, timers fire, and Redis eventually
executes or loses a command; nothing is assumed of AWS, the providers or the lock.
For a handshake, which has no deadline: each call it awaits eventually returns, which the
read timeouts of botocore and httpx give. For the relay: the loop runs what is runnable,
publications and closes return, sends return or fail, a pump whose peer is closed
notices; peers need neither send nor disconnect, and send finitely often
(`MaxMessages`). `ConnectionEnds` rests on the lifetime limit. For the shared clients: a ping is answered or
fails (`socket_timeout`), a sleep ends, the creation, use and closing of a Kinesis client come
back (botocore's timeouts), and a lock is passed on; nobody needs to call, to be cancelled or to
stop the server, and Redis may stay overloaded. All of it is weak fairness. `EnvoyFilter` has
none: what it promises is safety, the audit being best effort. `ProxyDrain` needs none: its
promises have deadlines, and the clock cannot pass what is due.

## 5. Proofs

TLAPS proves the following for every value of the constants that satisfies the `ASSUME`s.

| Theorem | Property | Argument |
|---|---|---|
| `TypeCorrect` | `TypeOK` of `AuthService` | inductive by itself |
| `SingleFlight` | `MintExclusive` | from `LockInv` |
| `LocksDropped` | `MintLocksReleased` | conjunct of `LockInv` |
| `WakeupsKept` | `NoLostWakeup` | from `QueueInv` |
| `CachedTokensAreLive` | `ServedTokenLive` | from `TokenInv` and `MarginAssumption` |
| `KeysStayOnTheirHost` | `HostRestriction` | from `HostInv` |
| `NestedExpiryKept` | `NestedExpiryRespected` | from `StoredInv` and `TokenInv` |
| `QuietFlushHolds` | `QuietFlushEffective` | from `FreshInv` |
| `RelayTypes` | `TypeOK` of `WsRelay` | inductive by itself |
| `ConnectionsLimited` | `ConnectionLimit` | `LimitInv`: the active set is finite besides |
| `QueueDrained` | `DrainedBeforeStop` | from `DrainInv` |
| `MessagesAccounted` | `MessageAccounting` | from `AccountInv` |
| `SummariesAreFinal` | `NormalCloseIsFinal` | from `FinalInv` |
| `QueueImplementsLog` | `Log!Spec`, the safety part of `ImplementsAuditLog` | refinement, from `AccountInv` and `DrainInv` |
| `StateTypes` | `TypeOK` of `StateService` | from `StateInv` |
| `SharedRedisClient` | `OneRedisClient` | from `RedisInv` |
| `SharedKinesisClient` | `OneKinesisClient` | from `KinesisInv` |
| `DrainTypes` | `TypeOK` of `ProxyDrain` | inductive by itself |
| `DrainFits` | `NeverKilled` | from `Schedule`, `ExitSchedule` and `DrainAssumption` |
| `QuitIsClean` | `CleanQuit` | from `QuitInv` |
| `ScriptWaits` | `ScriptOutlivesEnvoy` | conjunct of `ExitSchedule` |
| `PayloadIsUnambiguous` | `NoGuessing` | from `FilterInv`, `Extracted` |
| `TargetSeesOnlyTheKey` | `CredentialSwapped` | from `FilterInv` |
| `KeyIsNeverLogged` | `AuditHeadersClean` | from `FilterInv` |
| `AuditPrecedesForwarding` | `NothingForwardedUnaudited` | from `FilterInv` |
| `OnlyAuthorisedIsAudited` | `AuditOnlyAuthorised` | from `AuditInv` |
| `RecordsAlwaysFit` | `RecordsFit` | from `AuditInv`, arithmetic of `BodyChunking` |
| `RecordsAreTheBody` | `AuditedBody` | from `AuditInv`, `ChunksOfBody` |
| `CorsTellsAllowedOrigins` | `CorsForAllowedOrigins` | from `ReplyInv` |
| `FilterTypes` | `TypeOK` of `EnvoyFilter` | from `FilterInv`, `AuditInv` and `ReplyInv` |

`MintExclusive` says nothing of the dictionary, so it cannot be inductive: two coroutines
could hold two locks for one key. `LockInv` adds that a coroutine with a lock uses the one
now in the dictionary, which holds because the entry lives as long as any reference, and
that whoever is inside the block owns its lock.

`NoLostWakeup` asks that some waiter have nobody ahead of it. That is not inductive: it does not
exclude that waiters are ahead of each other in a circle, or behind one that has left.
`QueueInv` says that the waiters for a lock are finitely many, that those ahead of one wait for
the same lock, and that being ahead is transitive and never of oneself. A waiter with the
fewest ahead then has none: anyone ahead of it would have fewer still. Every step leaves the
queues alone, takes one coroutine out of its queue (cancelled or timed out as well as granted)
or adds one at the end.

`ServedTokenLive` speaks of a token already read. `TokenInv` bounds each earlier stage: the
code's expiry never exceeds the provider's; a SETEX in flight ends, if executed at the end
of its delay, at least a read and a publication before the token does; so does each entry;
and a token just read is valid until the read and then the publication have timed out.
The margin is what pays for these three delays.

`NestedExpiryRespected` speaks of entries, whose end is decided by the command and by when Redis
executes it. `StoredInv` says of the command that its ttl, counted from its sending, ends by the
nested expiry; the bound on the delay comes from `TokenInv`. `QuietFlushEffective` does not say
where the next entry comes from. `FreshInv` does: after a quiet flush, each token that comes
back from a provider and each SETEX in flight dates from after it.

`HostInv` says that every entry, write in flight and result in hand was validated for its
own key. `DrainInv` says that each item accepted before `stop()` is published, held by a
worker, or queued ahead of every pill with no worker ended.

`MessageAccounting` counts places of an item that was counted. It is not inductive, since it does
not say that the item a pump is about to put is in none of them. `AccountInv` says so: the items
that are anywhere are exactly those below the pump's index, each in one place and there once,
and a pump has forwarded one more than it has counted only while it is between the two.
`FinalInv` adds to `NormalCloseIsFinal` that a connection with close code 1000 is past `_relay`.
For the refinement each step of `WsRelay` is one of `AuditLog` (a put, a publication, the
beginning or the end of `stop()`) or changes nothing there. `AccountInv` makes a put one of a
new item, and keeps an item pending when a worker takes it; `DrainInv` gives the end of
`stop()` the condition that `AuditLog` demands of it. Late items are covered: they are pending
whether or not a worker is left.

`OneRedisClient` says that the reset after a failed ping never hits another's client, though the
code resets whatever it finds. `RedisInv` gives the reason: a client is made only while the field
is empty, and it is emptied only by its own verifier, so at most one coroutine verifies.
`KinesisInv` does the same for the lock: whoever creates holds it, the field is then empty, and
the exit stack it looked up is still the current one, because replacing the stack needs the lock.
Both hold for any number of callers and retries. The types of `StateService` are not inductive
by themselves: passing the lock on removes the head of the queue, which must exist. `Queued`
says that whoever is suspended on the lock is in the queue, also after others were cancelled
out of the middle of it.

`NeverKilled` bounds a sum of delays. `Schedule` says of each command when it must have ended,
in terms of the deadline once that is set, and `ExitSchedule` the same of a quitting Envoy; the
largest of these sums is the one in `DrainAssumption`: the loop's condition is tested before the
deadline, so one reading begun by then, `/drain_listeners` and `/quitquitquit` come on top of
the drain time. `QuitInv` says that after a reading of 0 nothing plain and no audit call can
arise: a connection is never new by then, and an audit call needs a request on a plain one.

`FilterInv` adds to the properties what a stream's place says of it: nothing is granted,
forwarded or logged before the authorisation, and the headers carry no key until then.
`NoGuessing` rests on a fact about sequences: a value that starts with a prefix is that
prefix followed by what `SubSeq` leaves. `AuditedBody` cannot be inductive, since it does
not say that the body stands still while its records are published. `AuditInv` says so:
a call exists only for a granted stream at or past the point where the part is complete,
and its records are exactly the first of the part's chunks. The rest is the arithmetic of
ceiling division: the chunks of a body follow each other, and the last ends with it, for
every `max_record_size` of at least 1000, the bound `config.py` enforces. `ReplyInv` adds to
`CorsForAllowedOrigins` that the metadata never names an origin that is not allowed, that it
names every allowed one from before the first yield until the request is answered, and that
until then there is no reply. The replies of Envoy and of the target rest on this alone; the
filter's errors would carry the headers without it.

Only model-checked is liveness: `HttpAnswered`, `WsAnswered`, `ConnectionEnds`, `PumpsEnd`,
`CallsReturn`, `ShutdownCompletes` and the part `Log!Closes` of `ImplementsAuditLog`. It needs
fairness and `ENABLED`, which the prover does not handle.

## 6. Where documents and code disagree

- A flush does not force "all subsequent requests" to AWS: a request that was in flight
  during it writes its older result afterwards (`MCFlushRace`). After a flush with nothing
  in flight it does (`QuietFlushEffective`).
- `encode_payload` puts `expiration` beside `credentials`, `from_contents` looks inside:
  for such payloads the ttl is not capped at the credentials' expiry
  (`MCStoredTtlExpiry`). Where it is nested, it is (`NestedExpiryRespected`).
- STS errors while minting, throttling included, are answered 403 and not 503
  (`MCMintOverload`). By reading: an unreachable STS or Secrets Manager before minting is
  answered 401 or 403, while `authorise` documents 503 for it.
- A message forwarded by a pump that is then cancelled is not logged (`MCRelayLoss`).
  By reading: pumps that outlive a cancelled connection can leave items behind the last
  pill, although `lifespan` says that no new items will arrive; `DrainedBeforeStop`
  therefore speaks of what was queued when `stop()` began.
- By reading: a nested expiration longer than `CACHE_DURATION` is used as it is, although
  the README says that stored keys are cached for `CACHE_DURATION`.
- By reading: the JSON around the base64 of a body record is longer than the 100 bytes
  that `chunk_body_data` sets aside for it (the test calls it "some overhead for the JSON
  wrapper (100 bytes)"), so the record of a full chunk exceeds `max_record_size`; at the
  default of 1,000,000 this stays below the limit of Kinesis. `RecordsFit` therefore
  speaks of the 100 bytes and not of the wrapper.
- By reading: a response that is reset midway is not logged, although part of it was
  delivered, while the README says that all traffic is logged. The log endpoints stop at
  the first record that fails; `_publish_message` of the relay goes on, so its chunks can
  have gaps.
- By reading: `DRAIN_TIME_S` "must stay under the ECS stopTimeout" (`proxy/entrypoint.sh`) is not
  enough: three calls of the admin port and Envoy's exit come on top (`DrainAssumption`), and
  wget is given no timeout, so an admin port that accepts and does not answer holds the script
  for wget's own 15 minutes.
- By reading: the loop around `wait` is there for Envoy's "real exit code". When the shell
  collects Envoy while it waits for a command of the handler, `kill -0` fails at once and the
  container ends with 143; `ScriptOutlivesEnvoy` excepts that case.
- By reading: upgraded connections are subtracted "so they don't pin the drain", but if Envoy
  counts their upstream half in `upstream_rq_active`, which is added, they do. The drain then
  lasts `DRAIN_TIME_S`; both cases are in the model (`pins`).
- By reading: the backoffs of `acquire_redis_connection` add up to between 5 and 6 seconds, the
  cache read's timeout is 5, so the last retries never get their turn under it.
- By reading: a pump that publishes after the shutdown has closed the Kinesis client makes
  another that nobody closes. It is still the only one (`OneKinesisClient`).

## 7. Not modelled

Tracing, logging and
the command line (no decision reads them), `envoy.yaml` (configuration of Envoy), the
analytics records and their decompression in `models.py` (data conversion), the parsing of ARNs
and of the environment (its values are the constants), the templates that `entrypoint.sh` fills
in before Envoy starts, test tooling.
Of the proxy: the comparison of origins (whether a request's origin is allowed is chosen freely
in `Init` and then stays), the values of the CORS and trace headers, the bodies of error
replies, and the response headers, which are logged as they come: `AuditHeadersClean` is about
the request headers.
Inside the modelled parts: string formats of ARNs, session names and tags, header
filtering, the contents and chunks of messages, `invalidate_cache_entry` and
`cache_api_key` (no caller in the service).

## 8. Running

    tlc -workers 2 -config MCAuthCache.cfg MCAuthService
    tlc -workers 2 -config MCStateService.cfg MCStateService
    tlc -workers 2 -config MCEnvoyFilter.cfg MCEnvoyFilter
    tlapm AuthServiceProofs.tla
