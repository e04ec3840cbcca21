------------------------- MODULE StateServiceProofs -------------------------
(***************************************************************************)
(* Proofs about StateService: one Redis client and one Kinesis client at a *)
(* time, for any number of callers, publishers and retries.                *)
(***************************************************************************)
EXTENDS StateService, TLAPS

USE DEF redis, kinesis

(* The part of the types that the arguments below need.                    *)
RedisTypes ==
    /\ rpc \in [RedisUser -> {"idle", "verify", "ping", "backoff", "health",
                              "command"}]
    /\ held \in [RedisUser -> Client \cup {None}]
    /\ redis_client \in Client \cup {None}

(* A caller has a client in hand while a call is under way; at most one    *)
(* coroutine verifies a client; at the shutdown nobody calls.              *)
RedisInv ==
    /\ RedisTypes
    /\ OneRedisClient
    /\ \A u \in RedisUser : rpc[u] = "idle" <=> held[u] = None
    /\ \A u, v \in RedisUser : rpc[u] = "verify" /\ rpc[v] = "verify" => u = v
    /\ life # "up" => \A u \in RedisUser : rpc[u] = "idle"

LEMMA RedisInit == Init => RedisInv
  BY DEF Init, RedisInv, RedisTypes, OneRedisClient

(* A call that ends leaves the others what they have.                      *)
LEMMA CallEndsKeeps ==
  ASSUME RedisInv, NEW u \in RedisUser, RedisCallEnds(u),
         UNCHANGED <<redis_client, refuted, life>>
  PROVE  RedisInv'
  BY DEF RedisInv, RedisTypes, OneRedisClient, RedisCallEnds

(* A caller that is given what the field holds.                            *)
LEMMA ObtainedKeeps ==
  ASSUME RedisInv, NEW u \in RedisUser, Obtained(u, redis_client),
         UNCHANGED <<redis_client, refuted, life>>,
         life = "up"
  PROVE  RedisInv'
  <1>1. CASE redis_client = None
    BY <1>1, CallEndsKeeps DEF Obtained
  <1>2. CASE redis_client # None
    <2>1. /\ held' = [held EXCEPT ![u] = redis_client]
          /\ \E x \in {"ping", "health"} : rpc' = [rpc EXCEPT ![u] = x]
      BY <1>2 DEF Obtained
    <2>2. QED
      BY <1>2, <2>1 DEF RedisInv, RedisTypes, OneRedisClient
  <1>3. QED
    BY <1>1, <1>2

(* A new client is made only when the field is empty, so that nobody else  *)
(* is verifying one.                                                       *)
LEMMA NewClientKeeps ==
  ASSUME RedisInv, NEW u \in RedisUser, NEW c \in Client,
         redis_client = None, rpc[u] = "idle", life = "up", life' = life,
         NewRedisClient(u, c), redis_client' = c
  PROVE  RedisInv'
  <1>1. c # None /\ \A v \in RedisUser : held[v] # c
    BY StateAssumption DEF NewRedisClient
  <1>2. \A v \in RedisUser : rpc[v] # "verify"
    BY DEF RedisInv, OneRedisClient
  <1>3. QED
    BY <1>1, <1>2 DEF RedisInv, RedisTypes, OneRedisClient, NewRedisClient

LEMMA RedisNext == RedisInv /\ [Next]_vars => RedisInv'
  <1> SUFFICES ASSUME RedisInv, [Next]_vars
               PROVE  RedisInv'
    OBVIOUS
  <1>1. ASSUME NEW u \in RedisUser, RedisStep(u)
        PROVE  RedisInv'
    <2>1. CASE CallRedis(u)
      <3>1. CASE redis_client # None
        BY <2>1, <3>1, ObtainedKeeps DEF CallRedis, get_redis_client
      <3>2. CASE redis_client = None
        BY <2>1, <3>2, NewClientKeeps DEF CallRedis, get_redis_client
      <3>3. QED
        BY <3>1, <3>2
    <2>2. CASE Verified(u)
      <3>1. life = "up"
        BY <2>2 DEF RedisInv, Verified
      <3>2. QED
        BY <2>2, <3>1, ObtainedKeeps DEF Verified
    <2>3. CASE VerifyFails(u)
      <3>1. held[u] = redis_client /\ held[u] # None
        BY <2>3 DEF VerifyFails, RedisInv, OneRedisClient
      <3>2. QED
        BY <2>3, <3>1 DEF VerifyFails, RedisCallEnds, RedisInv, RedisTypes,
                          OneRedisClient
    <2>4. CASE Pinged(u)
      BY <2>4 DEF Pinged, RedisInv, RedisTypes, OneRedisClient
    <2>5. CASE Overloaded(u)
      <3>1. CASE RedisCallEnds(u)
        BY <2>5, <3>1, CallEndsKeeps DEF Overloaded
      <3>2. CASE rpc' = [rpc EXCEPT ![u] = "backoff"] /\ UNCHANGED held
        BY <2>5, <3>2 DEF Overloaded, RedisInv, RedisTypes, OneRedisClient
      <3>3. QED
        BY <2>5, <3>1, <3>2 DEF Overloaded
    <2>6. CASE BackoffOver(u)
      BY <2>6 DEF BackoffOver, RedisInv, RedisTypes, OneRedisClient
    <2>7. CASE RedisCallReturns(u) \/ CancelRedisCall(u)
      BY <2>7, CallEndsKeeps DEF RedisCallReturns, CancelRedisCall
    <2>8. QED
      BY <1>1, <2>1, <2>2, <2>3, <2>4, <2>5, <2>6, <2>7 DEF RedisStep
  <1>2. ASSUME NEW p \in Publisher, KinesisStep(p)
        PROVE  RedisInv'
    BY <1>2 DEF KinesisStep, get_kinesis_client, LockGranted, Created,
                CreateFails, PutReturns, CancelPublisher, RedisInv, RedisTypes,
                OneRedisClient
  <1>3. CASE QueueStopped
    BY <1>3 DEF QueueStopped, RedisInv, RedisTypes, OneRedisClient
  <1>4. CASE CloseGranted \/ KinesisClosed
    BY <1>4 DEF CloseGranted, KinesisClosed, RedisInv, RedisTypes,
                OneRedisClient
  <1>5. CASE CloseRedis \/ RedisClosed \/ MintServiceClosed
    BY <1>5 DEF CloseRedis, RedisClosed, MintServiceClosed, RedisInv,
                RedisTypes, OneRedisClient
  <1>6. CASE UNCHANGED vars
    BY <1>6 DEF vars, RedisInv, RedisTypes, OneRedisClient
  <1>7. QED
    BY <1>1, <1>2, <1>3, <1>4, <1>5, <1>6 DEF Next, Close, Down

(* However creations, failed pings and cancellations interleave, callers   *)
(* share one Redis client, and only a client whose ping failed is dropped. *)
THEOREM SharedRedisClient == Spec => []OneRedisClient
  <1>1. RedisInv => OneRedisClient
    BY DEF RedisInv
  <1>2. QED
    BY <1>1, RedisInit, RedisNext, PTL DEF Spec

-----------------------------------------------------------------------------
(* Whoever is making a Kinesis client holds the lock, found no client, and *)
(* enters it into the current exit stack; the lifespan handler closes the  *)
(* client under the same lock.                                             *)
KinesisInv ==
    /\ kpc \in [Publisher -> {"idle", "lock", "create", "put"}]
    /\ kinesis_client \in Client \cup {None}
    /\ entering \in [Publisher -> Nat]
    /\ generation \in Nat
    /\ OneKinesisClient
    /\ \A p \in Publisher : kpc[p] = "create" =>
          /\ holder = p
          /\ kinesis_client = None
          /\ entering[p] = generation
    /\ life = "aclose" => holder = Lifespan

LEMMA KinesisInit == Init => KinesisInv
  BY DEF Init, KinesisInv, OneKinesisClient

(* The lock was free: the publisher has it now, or has used it.            *)
LEMMA LockedKeeps ==
  ASSUME KinesisInv, NEW p \in Publisher, Locked(p), holder = None,
         UNCHANGED <<kinesis_client, stack, generation, open, life>>
  PROVE  KinesisInv'
  <1>1. Lifespan # None /\ p # None
    BY StateAssumption
  <1>2. life # "aclose" /\ \A q \in Publisher : kpc[q] # "create"
    BY <1>1, StateAssumption DEF KinesisInv
  <1>3. QED
    BY <1>1, <1>2 DEF Locked, Use, KinesisInv, OneKinesisClient

LEMMA KinesisNext == KinesisInv /\ [Next]_vars => KinesisInv'
  <1> SUFFICES ASSUME KinesisInv, [Next]_vars
               PROVE  KinesisInv'
    OBVIOUS
  <1>0. None \notin Publisher /\ Lifespan \notin Publisher /\ Lifespan # None
        /\ None \notin Client
    BY StateAssumption
  <1>1. ASSUME NEW u \in RedisUser, RedisStep(u)
        PROVE  KinesisInv'
    <2>1. UNCHANGED <<kinesis, life>>
      BY <1>1 DEF RedisStep, CallRedis, Verified, VerifyFails, Pinged,
                  Overloaded, BackoffOver, RedisCallReturns, CancelRedisCall
    <2>2. QED
      BY <2>1 DEF KinesisInv, OneKinesisClient
  <1>2. ASSUME NEW p \in Publisher, KinesisStep(p)
        PROVE  KinesisInv'
    <2>1. CASE get_kinesis_client(p)
      <3>1. CASE kinesis_client = None /\ Free
        BY <2>1, <3>1, LockedKeeps DEF get_kinesis_client, Free
      <3>2. CASE ~(kinesis_client = None /\ Free)
        BY <2>1, <3>2 DEF get_kinesis_client, Use, KinesisInv, OneKinesisClient
      <3>3. QED
        BY <3>1, <3>2
    <2>2. CASE LockGranted(p)
      BY <2>2, LockedKeeps DEF LockGranted
    <2>3. CASE Created(p)
      <3>1. PICK c \in Client :
               /\ open' = open \cup {c}
               /\ stack' = IF entering[p] = generation THEN stack \cup {c}
                                                       ELSE stack
               /\ kinesis_client' = c
               /\ Use(p, c)
        BY <2>3 DEF Created
      <3>2. /\ holder = p /\ kinesis_client = None /\ entering[p] = generation
            /\ open = {} /\ stack = {} /\ life # "aclose"
        BY <1>0, <2>3 DEF Created, KinesisInv, OneKinesisClient
      <3>3. \A q \in Publisher : kpc'[q] # "create"
        BY <1>0, <2>3, <3>1, <3>2 DEF Use, KinesisInv
      <3>4. OneKinesisClient'
        BY <1>0, <3>1, <3>2 DEF OneKinesisClient
      <3>5. QED
        BY <2>3, <3>1, <3>2, <3>3, <3>4 DEF Created, Use, KinesisInv
    <2>4. CASE CreateFails(p)
      BY <1>0, <2>4
      DEF CreateFails, KinesisCallEnds, KinesisInv, OneKinesisClient
    <2>5. CASE PutReturns(p)
      BY <2>5 DEF PutReturns, KinesisCallEnds, KinesisInv, OneKinesisClient
    <2>6. CASE CancelPublisher(p)
      BY <1>0, <2>6
      DEF CancelPublisher, KinesisCallEnds, KinesisInv, OneKinesisClient
    <2>7. QED
      BY <1>2, <2>1, <2>2, <2>3, <2>4, <2>5, <2>6 DEF KinesisStep
  <1>3. CASE QueueStopped
    <2>1. CASE Free /\ CloseKinesis
      BY <1>0, <1>3, <2>1
      DEF QueueStopped, Free, CloseKinesis, KinesisInv, OneKinesisClient
    <2>2. CASE life' = "lock" /\ UNCHANGED holder
      BY <1>3, <2>2 DEF QueueStopped, KinesisInv, OneKinesisClient
    <2>3. QED
      BY <1>3, <2>1, <2>2 DEF QueueStopped
  <1>4. CASE CloseGranted
    BY <1>0, <1>4 DEF CloseGranted, CloseKinesis, KinesisInv, OneKinesisClient
  <1>5. CASE KinesisClosed
    BY <1>0, <1>5 DEF KinesisClosed, KinesisInv, OneKinesisClient
  <1>6. CASE CloseRedis \/ RedisClosed \/ MintServiceClosed
    BY <1>6 DEF CloseRedis, RedisClosed, MintServiceClosed, KinesisInv,
                OneKinesisClient
  <1>7. CASE UNCHANGED vars
    BY <1>7 DEF vars, KinesisInv, OneKinesisClient
  <1>8. QED
    BY <1>1, <1>2, <1>3, <1>4, <1>5, <1>6, <1>7 DEF Next, Close, Down

(* One Kinesis client is open at a time, and the exit stack that would be  *)
(* closed next holds it.                                                   *)
THEOREM SharedKinesisClient == Spec => []OneKinesisClient
  <1>1. KinesisInv => OneKinesisClient
    BY DEF KinesisInv
  <1>2. QED
    BY <1>1, KinesisInit, KinesisNext, PTL DEF Spec

-----------------------------------------------------------------------------
(* The queue for _kinesis_lock.  The types need it: only a coroutine that  *)
(* is in the queue is granted the lock, so the queue is not empty when its *)
(* head is removed.                                                        *)
InQueue(x) == \E i \in 1 .. Len(waiters) : waiters[i] = x

Queued ==
    /\ \A p \in Publisher : kpc[p] = "lock" => InQueue(p)
    /\ life = "lock" => InQueue(Lifespan)

QueueType == waiters \in Seq(Publisher \cup {Lifespan})

LEMMA Joins ==
  ASSUME QueueType, NEW x \in Publisher \cup {Lifespan},
         waiters' = Append(waiters, x)
  PROVE  QueueType' /\ InQueue(x)' /\ \A y : InQueue(y) => InQueue(y)'
  <1>1. /\ Len(waiters) \in Nat /\ Len(waiters') = Len(waiters) + 1
        /\ waiters' \in Seq(Publisher \cup {Lifespan})
        /\ waiters'[Len(waiters) + 1] = x
        /\ \A i \in 1 .. Len(waiters) : waiters'[i] = waiters[i]
    BY DEF QueueType
  <1>2. InQueue(x)'
    BY <1>1 DEF InQueue
  <1>3. \A y : InQueue(y) => InQueue(y)'
    BY <1>1 DEF InQueue
  <1>4. QED
    BY <1>1, <1>2, <1>3 DEF QueueType

(* The head takes the lock.                                                *)
LEMMA Granted ==
  ASSUME QueueType, NEW x, InQueue(x), Head(waiters) = x,
         waiters' = Tail(waiters)
  PROVE  QueueType' /\ \A y : InQueue(y) /\ y # x => InQueue(y)'
  <1>1. Len(waiters) \in Nat /\ waiters # <<>> /\ waiters[1] = x
    BY DEF QueueType, InQueue
  <1>2. /\ waiters' \in Seq(Publisher \cup {Lifespan})
        /\ Len(waiters') = Len(waiters) - 1
        /\ \A i \in 1 .. Len(waiters') : waiters'[i] = waiters[i + 1]
    BY <1>1 DEF QueueType
  <1>3. ASSUME NEW y, InQueue(y), y # x PROVE InQueue(y)'
    <2>1. PICK i \in 1 .. Len(waiters) : waiters[i] = y
      BY <1>3 DEF InQueue
    <2>2. i # 1
      BY <1>1, <1>3, <2>1
    <2>3. i - 1 \in 1 .. Len(waiters') /\ waiters'[i - 1] = y
      BY <1>1, <1>2, <2>1, <2>2
    <2>4. QED
      BY <2>3 DEF InQueue
  <1>4. QED
    BY <1>2, <1>3 DEF QueueType

(* A cancelled coroutine leaves the others in the queue.                   *)
LEMMA Leaves ==
  ASSUME QueueType, NEW x, Leave(x)
  PROVE  QueueType' /\ \A y : InQueue(y) /\ y # x => InQueue(y)'
  <1>1. CASE UNCHANGED waiters
    BY <1>1 DEF QueueType, InQueue
  <1>2. CASE \E i \in 1 .. Len(waiters) :
                /\ waiters[i] = x
                /\ waiters' = SubSeq(waiters, 1, i - 1)
                                 \o SubSeq(waiters, i + 1, Len(waiters))
    <2>1. PICK i \in 1 .. Len(waiters) :
                /\ waiters[i] = x
                /\ waiters' = SubSeq(waiters, 1, i - 1)
                                 \o SubSeq(waiters, i + 1, Len(waiters))
      BY <1>2
    <2> DEFINE front == SubSeq(waiters, 1, i - 1)
               back  == SubSeq(waiters, i + 1, Len(waiters))
    <2>2. Len(waiters) \in Nat
      BY DEF QueueType
    <2>3. /\ front \in Seq(Publisher \cup {Lifespan}) /\ Len(front) = i - 1
          /\ \A j \in 1 .. (i - 1) : front[j] = waiters[j]
      BY <2>1, <2>2 DEF QueueType
    <2>4. /\ back \in Seq(Publisher \cup {Lifespan})
          /\ Len(back) = Len(waiters) - i
          /\ \A j \in 1 .. (Len(waiters) - i) : back[j] = waiters[i + j]
      BY <2>1, <2>2 DEF QueueType
    <2> HIDE DEF front, back
    <2>5. waiters' = front \o back
      BY <2>1 DEF front, back
    <2>6. /\ waiters' \in Seq(Publisher \cup {Lifespan})
          /\ Len(waiters') = Len(front) + Len(back)
          /\ \A j \in 1 .. Len(front) : waiters'[j] = front[j]
          /\ \A j \in (Len(front) + 1) .. (Len(front) + Len(back)) :
                waiters'[j] = back[j - Len(front)]
      <3>1. /\ front \in Seq(Publisher \cup {Lifespan})
            /\ back \in Seq(Publisher \cup {Lifespan})
        BY <2>3, <2>4
      <3>2. Len(front) \in Nat /\ Len(back) \in Nat
        BY <3>1
      <3>3. \A j \in 1 .. (Len(front) + Len(back)) :
               (front \o back)[j] = IF j <= Len(front) THEN front[j]
                                    ELSE back[j - Len(front)]
        BY <3>1
      <3>4. /\ front \o back \in Seq(Publisher \cup {Lifespan})
            /\ Len(front \o back) = Len(front) + Len(back)
        BY <3>1
      <3>5. QED
        BY <2>5, <3>2, <3>3, <3>4
    <2>a. /\ Len(waiters') = Len(waiters) - 1
          /\ \A j \in 1 .. (i - 1) : waiters'[j] = waiters[j]
      BY <2>2, <2>3, <2>4, <2>6
    <2>b. ASSUME NEW j \in (i + 1) .. Len(waiters)
          PROVE  waiters'[j - 1] = waiters[j] /\ j - 1 \in 1 .. Len(waiters')
      <3>1. /\ j - 1 \in (Len(front) + 1) .. (Len(front) + Len(back))
            /\ j - 1 - Len(front) = j - i
            /\ j - i \in 1 .. (Len(waiters) - i) /\ i + (j - i) = j
        BY <2>2, <2>3, <2>4
      <3>2. waiters'[j - 1] = back[j - i]
        BY <2>6, <3>1
      <3>3. back[j - i] = waiters[j]
        BY <2>4, <3>1
      <3>4. QED
        BY <2>2, <2>a, <3>2, <3>3
    <2>7. ASSUME NEW y, InQueue(y), y # x PROVE InQueue(y)'
      <3>1. PICK j \in 1 .. Len(waiters) : waiters[j] = y
        BY <2>7 DEF InQueue
      <3>2. j # i
        BY <2>1, <2>7, <3>1
      <3>3. CASE j < i
        BY <2>2, <2>a, <3>1, <3>3 DEF InQueue
      <3>4. CASE j > i
        <4>1. j \in (i + 1) .. Len(waiters)
          BY <2>2, <3>4
        <4>2. waiters'[j - 1] = y /\ j - 1 \in 1 .. Len(waiters')
          BY <2>b, <3>1, <4>1
        <4>3. QED
          BY <4>2 DEF InQueue
      <3>5. QED
        BY <2>2, <3>2, <3>3, <3>4
    <2>8. QED
      BY <2>6, <2>7 DEF QueueType
  <1>3. QED
    BY <1>1, <1>2 DEF Leave

RedisState ==
    /\ redis_client \in Client \cup {None}
    /\ rpc \in [RedisUser -> {"idle", "verify", "ping", "backoff", "health",
                              "command"}]
    /\ op \in [RedisUser -> {"acquire", "health"}]
    /\ held \in [RedisUser -> Client \cup {None}]
    /\ retry_count \in [RedisUser -> 0 .. MaxRetries]
    /\ refuted \subseteq Client
    /\ \A u \in RedisUser : rpc[u] = "verify" => held[u] # None

KinesisState ==
    /\ kinesis_client \in Client \cup {None}
    /\ kpc \in [Publisher -> {"idle", "lock", "create", "put"}]
    /\ using \in [Publisher -> Client \cup {None}]
    /\ holder \in Publisher \cup {Lifespan, None}
    /\ stack \subseteq Client
    /\ generation \in Nat
    /\ entering \in [Publisher -> Nat]
    /\ open \subseteq Client
    /\ life \in {"up", "lock", "aclose", "kinesis_closed", "redis_aclose",
                 "redis_closed", "down"}

StateInv == RedisState /\ KinesisState /\ QueueType /\ Queued

LEMMA RedisStateStep ==
  ASSUME RedisState, NEW u \in RedisUser, RedisStep(u)
  PROVE  RedisState' /\ UNCHANGED <<kinesis, life>>
  <1>0. 0 \in 0 .. MaxRetries /\ None \notin Client
    BY StateAssumption
  <1>1. UNCHANGED <<kinesis, life>>
    BY DEF RedisStep, CallRedis, Verified, VerifyFails, Pinged, Overloaded,
           BackoffOver, RedisCallReturns, CancelRedisCall
  <1>2. ASSUME RedisCallEnds(u), UNCHANGED <<redis_client, refuted>>,
               op' \in [RedisUser -> {"acquire", "health"}]
        PROVE  RedisState'
    BY <1>0, <1>2 DEF RedisCallEnds, RedisState
  <1>3. ASSUME Obtained(u, redis_client), UNCHANGED <<redis_client, refuted>>,
               op' \in [RedisUser -> {"acquire", "health"}]
        PROVE  RedisState'
    <2>1. CASE redis_client = None
      BY <1>2, <1>3, <2>1 DEF Obtained
    <2>2. CASE redis_client # None
      <3>1. /\ held' = [held EXCEPT ![u] = redis_client] /\ UNCHANGED retry_count
            /\ \E x \in {"ping", "health"} : rpc' = [rpc EXCEPT ![u] = x]
        BY <1>3, <2>2 DEF Obtained
      <3>2. QED
        BY <1>3, <2>2, <3>1 DEF RedisState
    <2>3. QED
      BY <2>1, <2>2
  <1>4. CASE CallRedis(u)
    <2>1. op' \in [RedisUser -> {"acquire", "health"}]
      BY <1>4 DEF CallRedis, RedisState
    <2>2. CASE redis_client # None
      BY <1>3, <1>4, <2>1, <2>2 DEF CallRedis, get_redis_client
    <2>3. CASE redis_client = None
      <3>1. PICK c \in Client : NewRedisClient(u, c) /\ redis_client' = c
        BY <1>4, <2>3 DEF CallRedis, get_redis_client
      <3>2. /\ refuted' = refuted \ {c} /\ UNCHANGED retry_count
            /\ rpc' = [rpc EXCEPT ![u] = "verify"]
            /\ held' = [held EXCEPT ![u] = c]
        BY <3>1 DEF NewRedisClient
      <3>3. rpc' \in [RedisUser -> {"idle", "verify", "ping", "backoff",
                                    "health", "command"}]
        BY <3>2 DEF RedisState
      <3>4. /\ held' \in [RedisUser -> Client \cup {None}]
            /\ \A v \in RedisUser : rpc'[v] = "verify" => held'[v] # None
        BY <1>0, <3>2 DEF RedisState
      <3>5. /\ redis_client' \in Client \cup {None}
            /\ refuted' \subseteq Client
        BY <3>1, <3>2 DEF RedisState
      <3>6. retry_count' \in [RedisUser -> 0 .. MaxRetries]
        BY <3>2 DEF RedisState
      <3>7. QED
        BY <1>1, <2>1, <3>3, <3>4, <3>5, <3>6 DEF RedisState
    <2>4. QED
      BY <2>2, <2>3
  <1>5. CASE Verified(u)
    BY <1>3, <1>5 DEF Verified, RedisState
  <1>6. CASE VerifyFails(u)
    <2>1. held[u] \in Client
      BY <1>6 DEF VerifyFails, RedisState
    <2>2. QED
      BY <1>0, <1>6, <2>1 DEF VerifyFails, RedisCallEnds, RedisState
  <1>7. CASE Pinged(u) \/ BackoffOver(u)
    BY <1>7 DEF Pinged, BackoffOver, RedisState
  <1>8. CASE Overloaded(u)
    <2>1. CASE RedisCallEnds(u)
      BY <1>2, <1>8, <2>1 DEF Overloaded, RedisState
    <2>2. CASE ~RedisCallEnds(u)
      <3>1. /\ retry_count[u] < MaxRetries
            /\ retry_count' = [retry_count EXCEPT ![u] = retry_count[u] + 1]
            /\ rpc' = [rpc EXCEPT ![u] = "backoff"]
            /\ UNCHANGED <<held, redis_client, op, refuted>>
        BY <1>8, <2>2 DEF Overloaded
      <3>2. retry_count[u] + 1 \in 0 .. MaxRetries
        BY <3>1, StateAssumption DEF RedisState
      <3>3. retry_count' \in [RedisUser -> 0 .. MaxRetries]
        BY <3>1, <3>2 DEF RedisState
      <3>4. /\ rpc' \in [RedisUser -> {"idle", "verify", "ping", "backoff",
                                       "health", "command"}]
            /\ \A v \in RedisUser : rpc'[v] = "verify" => held'[v] # None
        BY <3>1 DEF RedisState
      <3>5. /\ redis_client' \in Client \cup {None}
            /\ op' \in [RedisUser -> {"acquire", "health"}]
            /\ held' \in [RedisUser -> Client \cup {None}]
            /\ refuted' \subseteq Client
        BY <3>1 DEF RedisState
      <3>6. QED
        BY <1>1, <3>3, <3>4, <3>5 DEF RedisState
    <2>3. QED
      BY <2>1, <2>2
  <1>9. CASE RedisCallReturns(u) \/ CancelRedisCall(u)
    BY <1>2, <1>9 DEF RedisCallReturns, CancelRedisCall, RedisState
  <1>10. QED
    BY <1>1, <1>4, <1>5, <1>6, <1>7, <1>8, <1>9 DEF RedisStep

LEMMA KinesisStateStep ==
  ASSUME StateInv, NEW p \in Publisher, KinesisStep(p)
  PROVE  StateInv'
  <1> USE DEF StateInv
  <1>0. None \notin Client /\ None \notin Publisher /\ Lifespan # p
    BY StateAssumption
  <1>1. UNCHANGED <<redis, life>> /\ RedisState'
    <2>1. UNCHANGED <<redis, life>>
      BY DEF KinesisStep, get_kinesis_client, LockGranted, Created, CreateFails,
             PutReturns, CancelPublisher
    <2>2. QED
      BY <2>1 DEF RedisState
  <1>2. ASSUME \A q \in Publisher : kpc'[q] = "lock" =>
                  (q # p /\ kpc[q] = "lock") \/ InQueue(q)',
               \A y : InQueue(y) /\ y # p => InQueue(y)'
        PROVE  Queued'
    BY <1>0, <1>1, <1>2 DEF Queued
  <1>3. ASSUME Locked(p), UNCHANGED <<kinesis_client, stack, generation, open>>
        PROVE  KinesisState' /\ kpc'[p] # "lock"
               /\ \A q \in Publisher \ {p} : kpc'[q] = kpc[q]
    BY <1>1, <1>3 DEF Locked, Use, KinesisState
  <1>4. CASE get_kinesis_client(p)
    <2>1. CASE kinesis_client # None
      <3>1. KinesisState' /\ kpc'[p] # "lock"
            /\ \A q \in Publisher \ {p} : kpc'[q] = kpc[q]
        BY <1>1, <1>4, <2>1 DEF get_kinesis_client, Use, KinesisState
      <3>2. UNCHANGED waiters
        BY <1>4, <2>1 DEF get_kinesis_client
      <3>3. QueueType' /\ \A y : InQueue(y) => InQueue(y)'
        BY <3>2 DEF QueueType, InQueue
      <3>4. QED
        BY <1>1, <1>2, <3>1, <3>3
    <2>2. CASE kinesis_client = None /\ Free
      <3>1. Locked(p) /\ UNCHANGED <<waiters, kinesis_client, stack, generation, open>>
        BY <1>4, <2>2 DEF get_kinesis_client
      <3>2. QueueType' /\ \A y : InQueue(y) => InQueue(y)'
        BY <3>1 DEF QueueType, InQueue
      <3>3. QED
        BY <1>1, <1>2, <1>3, <3>1, <3>2
    <2>3. CASE kinesis_client = None /\ ~Free
      <3>1. /\ kpc' = [kpc EXCEPT ![p] = "lock"]
            /\ waiters' = Append(waiters, p)
            /\ UNCHANGED <<using, holder, entering, kinesis_client, stack,
                           generation, open>>
        BY <1>4, <2>3 DEF get_kinesis_client
      <3>2. QueueType' /\ InQueue(p)' /\ \A y : InQueue(y) => InQueue(y)'
        BY <3>1, Joins
      <3>3. KinesisState' /\ \A q \in Publisher \ {p} : kpc'[q] = kpc[q]
        BY <1>1, <3>1 DEF KinesisState
      <3>4. QED
        BY <1>1, <1>2, <3>2, <3>3
    <2>4. QED
      BY <2>1, <2>2, <2>3
  <1>5. CASE LockGranted(p)
    <2>1. /\ InQueue(p) /\ Head(waiters) = p /\ waiters' = Tail(waiters)
          /\ Locked(p) /\ UNCHANGED <<kinesis_client, stack, generation, open>>
      BY <1>5 DEF LockGranted, Queued
    <2>2. QueueType' /\ \A y : InQueue(y) /\ y # p => InQueue(y)'
      BY <2>1, Granted
    <2>3. QED
      BY <1>1, <1>2, <1>3, <2>1, <2>2
  <1>6. CASE Created(p) \/ CreateFails(p) \/ PutReturns(p)
    <2>1. KinesisState' /\ kpc'[p] # "lock"
          /\ \A q \in Publisher \ {p} : kpc'[q] = kpc[q]
      BY <1>1, <1>6 DEF Created, CreateFails, PutReturns, KinesisCallEnds, Use,
                        KinesisState
    <2>2. UNCHANGED waiters
      BY <1>6 DEF Created, CreateFails, PutReturns
    <2>3. QueueType' /\ \A y : InQueue(y) => InQueue(y)'
      BY <2>2 DEF QueueType, InQueue
    <2>4. QED
      BY <1>1, <1>2, <2>1, <2>3
  <1>7. CASE CancelPublisher(p)
    <2>1. KinesisState' /\ kpc'[p] # "lock"
          /\ \A q \in Publisher \ {p} : kpc'[q] = kpc[q]
      BY <1>1, <1>7 DEF CancelPublisher, KinesisCallEnds, KinesisState
    <2>2. QueueType' /\ \A y : InQueue(y) /\ y # p => InQueue(y)'
      BY <1>7, Leaves DEF CancelPublisher
    <2>3. QED
      BY <1>1, <1>2, <2>1, <2>2
  <1>8. QED
    BY <1>4, <1>5, <1>6, <1>7 DEF KinesisStep

LEMMA LifespanStateStep ==
  ASSUME StateInv, QueueStopped \/ Close
  PROVE  StateInv'
  <1> USE DEF StateInv
  <1>0. Lifespan \notin Publisher
    BY StateAssumption
  <1>1. CASE QueueStopped
    <2>1. UNCHANGED <<redis, kinesis_client, kpc, using, stack, generation,
                      entering, open>>
      BY <1>1 DEF QueueStopped
    <2>2. RedisState'
      BY <2>1 DEF RedisState
    <2>3. KinesisState'
      BY <1>1, <2>1 DEF QueueStopped, CloseKinesis, KinesisState
    <2>4. CASE CloseKinesis /\ UNCHANGED waiters
      <3>1. life' # "lock"
        BY <2>4 DEF CloseKinesis
      <3>2. QueueType' /\ Queued'
        BY <2>1, <2>4, <3>1 DEF QueueType, Queued, InQueue
      <3>3. QED
        BY <2>2, <2>3, <3>2
    <2>5. CASE waiters' = Append(waiters, Lifespan)
      <3>1. QueueType' /\ InQueue(Lifespan)' /\ \A y : InQueue(y) => InQueue(y)'
        BY <2>5, Joins
      <3>2. Queued'
        BY <2>1, <3>1 DEF Queued
      <3>3. QED
        BY <2>2, <2>3, <3>1, <3>2
    <2>6. QED
      BY <1>1, <2>4, <2>5 DEF QueueStopped
  <1>2. CASE CloseGranted
    <2>1. UNCHANGED <<redis, kinesis_client, kpc, using, stack, generation,
                      entering, open>>
      BY <1>2 DEF CloseGranted
    <2>2. RedisState' /\ KinesisState' /\ life' # "lock"
      BY <1>2, <2>1 DEF CloseGranted, CloseKinesis, RedisState, KinesisState
    <2>3. /\ InQueue(Lifespan) /\ Head(waiters) = Lifespan
          /\ waiters' = Tail(waiters)
      BY <1>2 DEF CloseGranted, Queued
    <2>4. QueueType' /\ \A y : InQueue(y) /\ y # Lifespan => InQueue(y)'
      BY <2>3, Granted
    <2>5. Queued'
      BY <1>0, <2>1, <2>2, <2>4 DEF Queued
    <2>6. QED
      BY <2>2, <2>4, <2>5
  <1>3. CASE KinesisClosed \/ CloseRedis \/ RedisClosed \/ MintServiceClosed
    <2>1. UNCHANGED <<kpc, waiters>> /\ life' # "lock"
      BY <1>3 DEF KinesisClosed, CloseRedis, RedisClosed, MintServiceClosed
    <2>2. QueueType' /\ Queued'
      BY <2>1 DEF QueueType, Queued, InQueue
    <2>3. RedisState'
      BY <1>3 DEF KinesisClosed, CloseRedis, RedisClosed, MintServiceClosed,
                  RedisState
    <2>4. KinesisState'
      BY <1>3 DEF KinesisClosed, CloseRedis, RedisClosed, MintServiceClosed,
                  KinesisState
    <2>5. QED
      BY <2>2, <2>3, <2>4
  <1>4. QED
    BY <1>1, <1>2, <1>3 DEF Close

(* The types of the shared clients' state.  They hold because retries stop *)
(* at MaxRetries and because a coroutine is granted the Kinesis lock only  *)
(* from its place in the queue, which no cancellation of another takes.    *)
THEOREM StateTypes == Spec => []TypeOK
  <1>1. Init => StateInv
    <2>1. <<>> \in Seq(Publisher \cup {Lifespan}) /\ 0 \in 0 .. MaxRetries
      BY StateAssumption
    <2>2. QED
      BY <2>1 DEF Init, StateInv, RedisState, KinesisState, QueueType, Queued
  <1>2. StateInv /\ [Next]_vars => StateInv'
    <2> SUFFICES ASSUME StateInv, [Next]_vars PROVE StateInv'
      OBVIOUS
    <2>1. ASSUME NEW u \in RedisUser, RedisStep(u) PROVE StateInv'
      <3>1. RedisState' /\ UNCHANGED <<kinesis, life>>
        BY <2>1, RedisStateStep DEF StateInv
      <3>2. QED
        BY <3>1 DEF StateInv, KinesisState, QueueType, Queued, InQueue
    <2>2. ASSUME UNCHANGED vars PROVE StateInv'
      BY <2>2 DEF vars, StateInv, RedisState, KinesisState, QueueType, Queued,
                  InQueue
    <2>3. QED
      BY <2>1, <2>2, KinesisStateStep, LifespanStateStep DEF Next, Down
  <1>3. StateInv => TypeOK
    BY DEF StateInv, RedisState, KinesisState, QueueType, TypeOK
  <1>4. QED
    BY <1>1, <1>2, <1>3, PTL DEF Spec
=============================================================================
