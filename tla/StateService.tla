---------------------------- MODULE StateService ----------------------------
(***************************************************************************)
(* The clients one backend process shares (services/state_service.py): the *)
(* Redis client, made lazily and published before it has been verified,    *)
(* with the retries of acquire_redis_connection; the Kinesis client, made  *)
(* under a lock; and the end of the lifespan handler (app.py), which       *)
(* closes them.                                                            *)
(*                                                                         *)
(* A coroutine is suspended in the await that its pc names and may be      *)
(* cancelled there (asyncio.timeout of the cache calls and of the metadata *)
(* publication, cancelled connections).  When the clients are closed, the  *)
(* server has ended its requests and the log queue its workers; the pump   *)
(* tasks in Late may run on (see WsRelay).  Coroutines call again and      *)
(* again.  A client object that nobody refers to any more is collected,    *)
(* and its name may be used for a new one.                                 *)
(***************************************************************************)
EXTENDS Integers, Sequences, FiniteSets

CONSTANTS RedisUser,   \* coroutines that use Redis
          Publisher,   \* coroutines that publish to Kinesis
          Late,        \* those of them that the shutdown does not wait for
          Client,      \* names of client objects
          MaxRetries,  \* max_retries of acquire_redis_connection
          Lifespan,    \* the lifespan handler, as a user of the Kinesis lock
          None

ASSUME StateAssumption ==
    /\ Late \subseteq Publisher
    /\ Lifespan \notin Publisher
    /\ None \notin Client \cup Publisher \cup {Lifespan}
    /\ MaxRetries \in Nat

VARIABLES
    redis_client,    \* StateService.redis_client
    rpc,             \* where each user of Redis is suspended
    op,              \* what it calls: "acquire" or "health"
    held,            \* the Redis client it has in hand
    retry_count,
    refuted,         \* clients whose creator's ping has failed
    kinesis_client,  \* StateService.kinesis_client
    kpc,             \* where each publisher is suspended
    using,           \* the Kinesis client it has in hand
    holder,          \* holder of _kinesis_lock
    waiters,         \* queue for _kinesis_lock
    stack,           \* clients in the current _kinesis_exit_stack
    generation,      \* number of exit stacks replaced so far
    entering,        \* the exit stack that a creator has begun to enter
    open,            \* Kinesis clients entered and not exited
    life             \* progress of the lifespan handler

redis   == <<redis_client, rpc, op, held, retry_count, refuted>>
kinesis == <<kinesis_client, kpc, using, holder, waiters, stack, generation,
             entering, open>>
vars    == <<redis, kinesis, life>>

Init ==
    /\ redis_client = None
    /\ rpc = [u \in RedisUser |-> "idle"]
    /\ op = [u \in RedisUser |-> "acquire"]
    /\ held = [u \in RedisUser |-> None]
    /\ retry_count = [u \in RedisUser |-> 0]
    /\ refuted = {}
    /\ kinesis_client = None
    /\ kpc = [p \in Publisher |-> "idle"]
    /\ using = [p \in Publisher |-> None]
    /\ holder = None
    /\ waiters = <<>>
    /\ stack = {}
    /\ generation = 0
    /\ entering = [p \in Publisher |-> 0]
    /\ open = {}
    /\ life = "up"

-----------------------------------------------------------------------------
(* Definitions named "mutated" are a later definition with a plausible     *)
(* bug, kept to show that the properties would notice it.                  *)

(* A call ends, in whatever way: nothing of it is referred to any more.    *)
RedisCallEnds(u) ==
    /\ rpc' = [rpc EXCEPT ![u] = "idle"]
    /\ held' = [held EXCEPT ![u] = None]
    /\ retry_count' = [retry_count EXCEPT ![u] = 0]

(* get_redis_client has returned c to acquire_redis_connection or          *)
(* health_check: without a client the call ends, otherwise it is pinged.   *)
Obtained(u, c) ==
    IF c = None
    THEN RedisCallEnds(u)
    ELSE /\ rpc' = [rpc EXCEPT ![u] = IF op'[u] = "acquire" THEN "ping"
                                                            ELSE "health"]
         /\ held' = [held EXCEPT ![u] = c]
         /\ UNCHANGED retry_count

(* A Redis client object is made.                                          *)
NewRedisClient(u, c) ==
    /\ c \notin {redis_client} \cup {held[v] : v \in RedisUser}
    /\ refuted' = refuted \ {c}
    /\ rpc' = [rpc EXCEPT ![u] = "verify"]
    /\ held' = [held EXCEPT ![u] = c]
    /\ UNCHANGED retry_count

(* The client is published once it has been verified.                      *)
mutated_get_redis_client(u) ==
    \/ /\ redis_client # None
       /\ Obtained(u, redis_client)
       /\ UNCHANGED <<redis_client, refuted>>
    \/ /\ redis_client = None
       /\ \E c \in Client : NewRedisClient(u, c)
       /\ UNCHANGED redis_client

(* get_redis_client up to its await: the client is published before its    *)
(* ping, and whoever finds it there uses it.                               *)
get_redis_client(u) ==
    \/ /\ redis_client # None
       /\ Obtained(u, redis_client)
       /\ UNCHANGED <<redis_client, refuted>>
    \/ /\ redis_client = None
       /\ \E c \in Client : NewRedisClient(u, c) /\ redis_client' = c

(* acquire_redis_connection or health_check is called.                     *)
CallRedis(u) ==
    /\ life = "up"
    /\ rpc[u] = "idle"
    /\ \E o \in {"acquire", "health"} : op' = [op EXCEPT ![u] = o]
    /\ get_redis_client(u)
    /\ UNCHANGED <<kinesis, life>>

(* The creator's ping is answered: it returns what the field holds by now. *)
Verified(u) ==
    /\ rpc[u] = "verify"
    /\ UNCHANGED <<op, redis_client, refuted, kinesis, life>>
    /\ Obtained(u, redis_client)

(* The creator's ping fails: the field is reset, whatever it holds by now. *)
VerifyFails(u) ==
    /\ rpc[u] = "verify"
    /\ redis_client' = None
    /\ refuted' = refuted \cup {held[u]}
    /\ RedisCallEnds(u)
    /\ UNCHANGED <<op, kinesis, life>>

(* The ping of acquire_redis_connection: the client is returned, and the   *)
(* caller's command follows.                                               *)
Pinged(u) ==
    /\ rpc[u] = "ping"
    /\ rpc' = [rpc EXCEPT ![u] = "command"]
    /\ UNCHANGED <<redis_client, op, held, retry_count, refuted, kinesis, life>>

(* One retry too many.                                                     *)
mutated_Overloaded_more(u) ==
    /\ rpc[u] = "ping"
    /\ retry_count[u] <= MaxRetries
    /\ retry_count' = [retry_count EXCEPT ![u] = @ + 1]
    /\ rpc' = [rpc EXCEPT ![u] = "backoff"]
    /\ UNCHANGED <<redis_client, op, held, refuted, kinesis, life>>

(* Retries are not counted.                                                *)
mutated_Overloaded(u) ==
    /\ rpc[u] = "ping"
    /\ rpc' = [rpc EXCEPT ![u] = "backoff"]
    /\ UNCHANGED <<redis_client, op, held, retry_count, refuted, kinesis, life>>

(* "Too many connections": wait and try again, or give up.                 *)
Overloaded(u) ==
    /\ rpc[u] = "ping"
    /\ \/ /\ retry_count[u] < MaxRetries
          /\ retry_count' = [retry_count EXCEPT ![u] = @ + 1]
          /\ rpc' = [rpc EXCEPT ![u] = "backoff"]
          /\ UNCHANGED held
       \/ /\ retry_count[u] = MaxRetries
          /\ RedisCallEnds(u)
    /\ UNCHANGED <<redis_client, op, refuted, kinesis, life>>

BackoffOver(u) ==
    /\ rpc[u] = "backoff"
    /\ rpc' = [rpc EXCEPT ![u] = "ping"]
    /\ UNCHANGED <<redis_client, op, held, retry_count, refuted, kinesis, life>>

(* Any other error of that ping is raised, health_check's ping returns or  *)
(* fails, the caller's command returns or fails; or the coroutine is       *)
(* cancelled: that passes by the "except Exception" of get_redis_client.   *)
RedisCallReturns(u) ==
    /\ rpc[u] \in {"ping", "health", "command"}
    /\ RedisCallEnds(u)
    /\ UNCHANGED <<redis_client, op, refuted, kinesis, life>>

CancelRedisCall(u) ==
    /\ rpc[u] # "idle"
    /\ RedisCallEnds(u)
    /\ UNCHANGED <<redis_client, op, refuted, kinesis, life>>

-----------------------------------------------------------------------------
(* asyncio.Lock: it is taken at once only when it is free and nobody waits *)
(* for it, otherwise by the first in the queue.                            *)
Free == holder = None /\ waiters = <<>>

(* A cancelled coroutine is removed from the queue, if it is in it.        *)
Leave(p) ==
    LET at == {i \in 1 .. Len(waiters) : waiters[i] = p}
    IN  \/ at = {} /\ UNCHANGED waiters
        \/ \E i \in at :
              waiters' = SubSeq(waiters, 1, i - 1)
                            \o SubSeq(waiters, i + 1, Len(waiters))

KinesisCallEnds(p) ==
    /\ kpc' = [kpc EXCEPT ![p] = "idle"]
    /\ using' = [using EXCEPT ![p] = None]

(* put_record with the client in hand.                                     *)
Use(p, c) ==
    /\ kpc' = [kpc EXCEPT ![p] = "put"]
    /\ using' = [using EXCEPT ![p] = c]

(* Inside the lock without a second look at the field.                     *)
mutated_Locked(p) ==
    /\ holder' = p
    /\ kpc' = [kpc EXCEPT ![p] = "create"]
    /\ entering' = [entering EXCEPT ![p] = generation]
    /\ UNCHANGED using

(* Inside the lock: the field is looked at again; enter_async_context      *)
(* suspends with the exit stack of this moment in hand.                    *)
Locked(p) ==
    \/ /\ kinesis_client # None
       /\ Use(p, kinesis_client)
       /\ holder' = None
       /\ UNCHANGED entering
    \/ /\ kinesis_client = None
       /\ holder' = p
       /\ kpc' = [kpc EXCEPT ![p] = "create"]
       /\ entering' = [entering EXCEPT ![p] = generation]
       /\ UNCHANGED using

(* publish_to_kinesis_data_stream calls get_kinesis_client.                *)
get_kinesis_client(p) ==
    /\ kpc[p] = "idle"
    /\ life = "up" \/ p \in Late
    /\ \/ /\ kinesis_client # None
          /\ Use(p, kinesis_client)
          /\ UNCHANGED <<holder, waiters, entering>>
       \/ /\ kinesis_client = None /\ Free
          /\ Locked(p)
          /\ UNCHANGED waiters
       \/ /\ kinesis_client = None /\ ~Free
          /\ kpc' = [kpc EXCEPT ![p] = "lock"]
          /\ waiters' = Append(waiters, p)
          /\ UNCHANGED <<using, holder, entering>>
    /\ UNCHANGED <<kinesis_client, stack, generation, open, redis, life>>

LockGranted(p) ==
    /\ kpc[p] = "lock"
    /\ holder = None
    /\ Head(waiters) = p
    /\ waiters' = Tail(waiters)
    /\ Locked(p)
    /\ UNCHANGED <<kinesis_client, stack, generation, open, redis, life>>

(* The client is entered into the exit stack its creator has in hand, and  *)
(* published.                                                              *)
Created(p) ==
    /\ kpc[p] = "create"
    /\ \E c \in Client :
          /\ c \notin {kinesis_client} \cup open \cup {using[q] : q \in Publisher}
          /\ open' = open \cup {c}
          /\ stack' = IF entering[p] = generation THEN stack \cup {c} ELSE stack
          /\ kinesis_client' = c
          /\ Use(p, c)
    /\ holder' = None
    /\ UNCHANGED <<waiters, generation, entering, redis, life>>

(* The lock is not released on the error.                                  *)
mutated_CreateFails(p) ==
    /\ kpc[p] = "create"
    /\ KinesisCallEnds(p)
    /\ UNCHANGED <<kinesis_client, holder, waiters, stack, generation, entering,
                   open, redis, life>>

(* No client could be made: the lock is released, the error raised.        *)
CreateFails(p) ==
    /\ kpc[p] = "create"
    /\ KinesisCallEnds(p)
    /\ holder' = None
    /\ UNCHANGED <<kinesis_client, waiters, stack, generation, entering, open,
                   redis, life>>

(* put_record returns or fails.                                            *)
PutReturns(p) ==
    /\ kpc[p] = "put"
    /\ KinesisCallEnds(p)
    /\ UNCHANGED <<kinesis_client, holder, waiters, stack, generation, entering,
                   open, redis, life>>

CancelPublisher(p) ==
    /\ kpc[p] # "idle"
    /\ KinesisCallEnds(p)
    /\ Leave(p)
    /\ holder' = IF holder = p THEN None ELSE holder
    /\ UNCHANGED <<kinesis_client, stack, generation, entering, open, redis, life>>

-----------------------------------------------------------------------------
(* close_kinesis_client inside the lock, up to its await.                  *)
CloseKinesis ==
    IF kinesis_client = None
    THEN life' = "kinesis_closed" /\ holder' = None
    ELSE life' = "aclose" /\ holder' = Lifespan

(* lifespan goes on to close_kinesis_client, once the requests and the     *)
(* workers of the log queue have ended.                                    *)
QueueStopped ==
    /\ life = "up"
    /\ \A u \in RedisUser : rpc[u] = "idle"
    /\ \A p \in Publisher \ Late : kpc[p] = "idle"
    /\ \/ /\ Free
          /\ CloseKinesis
          /\ UNCHANGED waiters
       \/ /\ ~Free
          /\ life' = "lock"
          /\ waiters' = Append(waiters, Lifespan)
          /\ UNCHANGED holder
    /\ UNCHANGED <<kinesis_client, kpc, using, stack, generation, entering, open,
                   redis>>

CloseGranted ==
    /\ life = "lock"
    /\ holder = None
    /\ Head(waiters) = Lifespan
    /\ waiters' = Tail(waiters)
    /\ CloseKinesis
    /\ UNCHANGED <<kinesis_client, kpc, using, stack, generation, entering, open,
                   redis>>

(* aclose returns, or raises, which is logged: each client of the stack    *)
(* has been told to close.  The finally clause replaces the stack.         *)
KinesisClosed ==
    /\ life = "aclose"
    /\ open' = open \ stack
    /\ stack' = {}
    /\ generation' = generation + 1
    /\ kinesis_client' = None
    /\ holder' = None
    /\ life' = "kinesis_closed"
    /\ UNCHANGED <<kpc, using, waiters, entering, redis>>

(* close_redis_client and TokenMintService.aclose; errors of the first are *)
(* logged.                                                                 *)
CloseRedis ==
    /\ life = "kinesis_closed"
    /\ life' = IF redis_client = None THEN "redis_closed" ELSE "redis_aclose"
    /\ UNCHANGED <<redis, kinesis>>

RedisClosed ==
    /\ life = "redis_aclose"
    /\ redis_client' = None
    /\ life' = "redis_closed"
    /\ UNCHANGED <<rpc, op, held, retry_count, refuted, kinesis>>

MintServiceClosed ==
    /\ life = "redis_closed"
    /\ life' = "down"
    /\ UNCHANGED <<redis, kinesis>>

Down == life = "down" /\ UNCHANGED vars

-----------------------------------------------------------------------------
RedisStep(u) ==
    \/ CallRedis(u) \/ Verified(u) \/ VerifyFails(u)
    \/ Pinged(u) \/ Overloaded(u) \/ BackoffOver(u)
    \/ RedisCallReturns(u) \/ CancelRedisCall(u)

KinesisStep(p) ==
    \/ get_kinesis_client(p) \/ LockGranted(p) \/ Created(p) \/ CreateFails(p)
    \/ PutReturns(p) \/ CancelPublisher(p)

Close ==
    \/ CloseGranted \/ KinesisClosed \/ CloseRedis \/ RedisClosed
    \/ MintServiceClosed

Next ==
    \/ \E u \in RedisUser : RedisStep(u)
    \/ \E p \in Publisher : KinesisStep(p)
    \/ QueueStopped \/ Close \/ Down

Spec == Init /\ [][Next]_vars

(* Fairness.  A ping is answered, refused or times out (socket_timeout), a *)
(* sleep ends, a Kinesis call comes back (botocore's timeouts), the loop   *)
(* runs what is runnable.  Nobody needs to call, to be cancelled, or to    *)
(* stop the server, and Redis may be overloaded for ever.                  *)
Fairness ==
    /\ \A u \in RedisUser :
          /\ WF_vars(Verified(u) \/ VerifyFails(u))
          /\ WF_vars(Pinged(u) \/ Overloaded(u) \/ BackoffOver(u)
                     \/ RedisCallReturns(u))
    /\ \A p \in Publisher :
          /\ WF_vars(LockGranted(p))
          /\ WF_vars(Created(p) \/ CreateFails(p))
          /\ WF_vars(PutReturns(p))
    /\ WF_vars(Close)

FairSpec == Spec /\ Fairness

-----------------------------------------------------------------------------
(* Types of the fields of StateService and of its callers.                 *)
TypeOK ==
    /\ redis_client \in Client \cup {None}
    /\ rpc \in [RedisUser -> {"idle", "verify", "ping", "backoff", "health",
                              "command"}]
    /\ op \in [RedisUser -> {"acquire", "health"}]
    /\ held \in [RedisUser -> Client \cup {None}]
    /\ retry_count \in [RedisUser -> 0 .. MaxRetries]
    /\ refuted \subseteq Client
    /\ kinesis_client \in Client \cup {None}
    /\ kpc \in [Publisher -> {"idle", "lock", "create", "put"}]
    /\ using \in [Publisher -> Client \cup {None}]
    /\ holder \in Publisher \cup {Lifespan, None}
    /\ waiters \in Seq(Publisher \cup {Lifespan})
    /\ stack \subseteq Client
    /\ generation \in Nat
    /\ entering \in [Publisher -> Nat]
    /\ open \subseteq Client
    /\ life \in {"up", "lock", "aclose", "kinesis_closed", "redis_aclose",
                 "redis_closed", "down"}

(* One Redis client is shared although it is made and verified across an   *)
(* await: whatever client a caller holds is the published one or one whose *)
(* ping failed, and the unconditional reset after a failed ping discards   *)
(* no client but the one that failed (get_redis_client).                   *)
OneRedisClient ==
    \A u \in RedisUser : held[u] # None =>
        /\ held[u] = redis_client \/ held[u] \in refuted
        /\ rpc[u] = "verify" => held[u] = redis_client

(* One Kinesis client is open at a time, it is the published one, and it   *)
(* is in the exit stack that close_kinesis_client will close: whatever     *)
(* creations, failures, cancellations and the closing itself interleave.   *)
OneKinesisClient ==
    /\ open = {kinesis_client} \ {None}
    /\ open = stack

(* Every call of a client ends: retries are limited however long Redis is  *)
(* overloaded, and no publisher waits for ever for the lock of one that    *)
(* failed or was cancelled (acquire_redis_connection, get_kinesis_client). *)
CallsReturn ==
    /\ \A u \in RedisUser : rpc[u] # "idle" ~> rpc[u] = "idle"
    /\ \A p \in Publisher : kpc[p] # "idle" ~> kpc[p] = "idle"

(* The lifespan handler closes everything and ends, also when pumps that   *)
(* outlive it are making a client (close_kinesis_client).                  *)
ShutdownCompletes == life # "up" ~> life = "down"
=============================================================================
