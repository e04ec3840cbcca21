-------------------------- MODULE AuthServiceProofs --------------------------
(***************************************************************************)
(* Theorems about AuthService for every set of requests, processes,        *)
(* payloads and targets, every choice of timeouts that MarginAssumption    *)
(* allows, and every set of injected faults.                               *)
(***************************************************************************)
EXTENDS AuthService, FiniteSetTheorems, TLAPS

Exceptions == {"PayloadError", "CredentialsError", "AuthenticationError",
               "FetchSecretError", "UpstreamServiceError", "TimeoutError",
               "ConfigurationError"}

(* Every failure table maps into the exceptions the endpoints catch, and   *)
(* none of those is answered with a success.                               *)
LEMMA FailureTables ==
    /\ \A f \in DOMAIN IdentityFailures : IdentityFailures[f] \in Exceptions
    /\ \A f \in DOMAIN FetchFailures : FetchFailures[f] \in Exceptions
    /\ \A f \in DOMAIN RoleFailures : RoleFailures[f] \in Exceptions
    /\ \A f \in DOMAIN AssumeFailures : AssumeFailures[f] \in Exceptions
    /\ \A f \in DOMAIN ProveFailures : ProveFailures[f] \in Exceptions
    /\ \A f \in DOMAIN ExchangeFailures : ExchangeFailures[f] \in Exceptions
  BY DEF Exceptions, IdentityFailures, FetchFailures, parse_failure, RoleFailures,
         AssumeFailures, ProveFailures, ExchangeFailures

LEMMA FailureAnswers ==
    \A e \in Exceptions : /\ http_status[e] \in Answers \ {200, 1000}
                          /\ ws_close_code[e] \in Answers \ {200, 1000}
  BY DEF Exceptions, http_status, ws_close_code, Answers

LEMMA ControlPoints ==
    {"idle", "read", "read_back", "identity", "fetch", "waiting", "reread",
     "reread_back", "assume", "prove", "exchange", "exchange_back", "write",
     "publish", "done"} \subseteq PC
  BY DEF PC, Active, Timed, Reading, ReadBack, Minting

LEMMA SuccessAnswers == 200 \in Answers /\ 1000 \in Answers
  BY DEF Answers

LEMMA NoCredTypes ==
    NoCred \in Credential /\ NoEntry \in Entry /\ NoWrite \in Write
  BY DEF NoCred, NoEntry, NoWrite, Credential, Entry, Write

LEMMA RaiseType ==
    ASSUME TypeOK, NEW r \in Req, NEW exc \in Exceptions, NEW why,
           Raise(r, exc, why)
    PROVE  TypeOK'
  BY FailureAnswers, NoCredTypes, ControlPoints
  DEF Raise, DropLock, TypeOK, flushes

LEMMA FailsType ==
    ASSUME TypeOK, NEW r \in Req, NEW failures, Fails(r, failures),
           \A f \in DOMAIN failures : failures[f] \in Exceptions
    PROVE  TypeOK'
  <1>1. PICK f \in DOMAIN failures \cap Faults : Raise(r, failures[f], f)
    BY DEF Fails
  <1>2. QED
    BY <1>1, RaiseType

(* The locks after a coroutine has left its lock or the queue for it.      *)
LEMMA DropLockType ==
    ASSUME TypeOK, NEW r \in Req, DropLock(r)
    PROVE  /\ lockref' \in [Req -> Req \cup {None}]
           /\ owner' \in [Req -> Req \cup {None}]
           /\ ahead' \in [Req -> SUBSET Req]
           /\ mint_locks' \in [Proc \X Key -> Req \cup {None}]
  BY DEF DropLock, TypeOK

LEMMA AuthenticatedType ==
    ASSUME TypeOK, NEW r \in Req, Authenticated(r)
    PROVE  /\ pc' \in [Req -> PC]
           /\ due' \in [Req -> Nat]
           /\ reply' \in [Req -> Answers]
  <1>1. CASE r \in Ws
    BY <1>1, ControlPoints, SuccessAnswers DEF Authenticated, TypeOK
  <1>2. CASE r \notin Ws
    BY <1>2, ControlPoints, TimingAssumption DEF Authenticated, TypeOK
  <1>3. QED
    BY <1>1, <1>2

LEMMA TtlType ==
    /\ \A e \in Nat, t \in Nat : effective_cache_ttl(e, t) \in Nat
    /\ \A e \in Nat \cup {NoExpiry}, t \in Nat : stored_key_ttl(e, t) \in Nat
  BY PolicyAssumption
  DEF effective_cache_ttl, stored_key_ttl, seconds_until_expiration,
      AtLeastZero, AtMost

LEMMA StartWriteType ==
    ASSUME TypeOK, NEW r \in Req, NEW c \in Credential, StartWrite(r, c)
    PROVE  /\ pc' \in [Req -> PC]
           /\ due' \in [Req -> Nat]
           /\ cred' \in [Req -> Credential]
           /\ setex' \in [Req -> Write]
  <1>1. key[r][1] \in Payload
    BY DEF TypeOK, Key
  <1>2. expiration(key[r][1]) \in Nat \cup {NoExpiry}
    BY <1>1, AuthAssumption DEF expiration
  <1>3. c.expires_at \in Nat
    BY DEF Credential
  <1> DEFINE ttl == IF c.kind = "minted"
                    THEN effective_cache_ttl(c.expires_at, now)
                    ELSE stored_key_ttl(expiration(key[r][1]), now)
  <1>4. ttl \in Nat
    BY <1>2, <1>3, TtlType DEF TypeOK
  <1> HIDE DEF ttl
  <1>5. (IF ttl <= 0 THEN NoWrite ELSE [cred |-> c, ttl |-> ttl, sent |-> now])
            \in Write
    BY <1>4, NoCredTypes DEF Write, TypeOK
  <1>6. QED
    BY <1>5, ControlPoints, TimingAssumption
    DEF StartWrite, ttl, TypeOK

LEMMA SlotType ==
    ASSUME TypeOK, NEW r \in Req
    PROVE  Slot(r) \in Proc \X Key
  BY AuthAssumption DEF TypeOK, Slot, generate_cache_key

LEMMA MintLockType ==
    ASSUME TypeOK, NEW r \in Req
    PROVE  mint_lock(r) \in Req
  BY SlotType DEF TypeOK, mint_lock

(* Every action preserves the types (TypeOK: the state of app.py,          *)
(* relay/auth.py, auth_service.py and of Redis).                           *)
LEMMA StepType ==
    ASSUME TypeOK, NEW r \in Req, Step(r)
    PROVE  TypeOK'
  <1> USE ControlPoints DEF locks, flushes
  <1>1. CASE RedisGet(r)
    <2>1. cache[generate_cache_key(key[r])].cred \in Credential
      BY DEF TypeOK, Entry, generate_cache_key
    <2>2. QED
      BY <1>1, <2>1, NoCredTypes DEF RedisGet, TypeOK
  <1>2. ASSUME Miss(r) PROVE TypeOK'
    BY <1>2, FailsType, FailureTables, TimingAssumption DEF Miss, TypeOK
  <1>3. CASE ReadReturns(r)
    <2>1. CASE cred[r].kind = "none"
      BY <1>2, <1>3, <2>1 DEF ReadReturns
    <2>2. CASE cred[r].kind # "none"
      BY <1>3, <2>2, DropLockType, AuthenticatedType DEF ReadReturns, TypeOK
    <2>3. QED
      BY <2>1, <2>2
  <1>4. CASE ReadFails(r)
    BY <1>2, <1>4 DEF ReadFails
  <1>5. CASE ReadTimesOut(r)
    BY <1>5, RaiseType DEF ReadTimesOut, Exceptions
  <1>6. CASE IdentityReturns(r)
    <2>1. CASE ~CredentialsExpired(key[r][1]) /\ ~Fails(r, IdentityFailures)
      BY <1>6, <2>1 DEF IdentityReturns, TypeOK
    <2>2. CASE CredentialsExpired(key[r][1]) /\ ~Fails(r, IdentityFailures)
      BY <1>6, <2>2, RaiseType DEF IdentityReturns, Exceptions
    <2>3. CASE Fails(r, IdentityFailures)
      BY <2>3, FailsType, FailureTables
    <2>4. QED
      BY <2>1, <2>2, <2>3
  <1>7. CASE FetchReturns(r)
    <2>1. CASE Fails(r, FetchFailures)
      BY <2>1, FailsType, FailureTables
    <2>2. CASE Raise(r, "AuthenticationError", "host_mismatch")
      BY <2>2, RaiseType DEF Exceptions
    <2>3. CASE StartWrite(r, StoredKey) /\ UNCHANGED <<now, key, start, served,
                 requested_at, reply, cause, cache, locks, flushes>>
      <3>1. StoredKey \in Credential
        BY NoCredTypes DEF StoredKey, TypeOK, NoCred, Credential
      <3>2. QED
        BY <2>3, <3>1, StartWriteType DEF TypeOK
    <2>4. CASE Kind[key[r][1]] = "minted" /\ ~Fails(r, FetchFailures)
                 /\ ~Raise(r, "AuthenticationError", "host_mismatch")
      <3>1. mint_lock(r) \in Req /\ Waiters(mint_lock(r)) \in SUBSET Req
        BY MintLockType DEF Waiters
      <3> DEFINE l == mint_lock(r)
      <3>2. /\ mint_locks' = [mint_locks EXCEPT ![Slot(r)] = l]
            /\ lockref' = [lockref EXCEPT ![r] = l]
            /\ \/ /\ owner' = [owner EXCEPT ![l] = r]
                  /\ pc' = [pc EXCEPT ![r] = "reread"]
                  /\ due' = [due EXCEPT ![r] = now + ReadTimeout]
                  /\ UNCHANGED ahead
               \/ /\ ahead' = [ahead EXCEPT ![r] = Waiters(l)]
                  /\ pc' = [pc EXCEPT ![r] = "waiting"]
                  /\ UNCHANGED <<owner, due>>
            /\ UNCHANGED <<now, key, start, cred, served, requested_at, reply,
                           cause, cache, setex, flushes>>
        BY <1>7, <2>4 DEF FetchReturns
      <3> HIDE DEF l
      <3>3. l \in Req /\ Waiters(l) \in SUBSET Req
        BY <3>1 DEF l
      <3>4. QED
        <4>1. /\ pc' \in [Req -> PC]
              /\ due' \in [Req -> Nat]
              /\ owner' \in [Req -> Req \cup {None}]
              /\ ahead' \in [Req -> SUBSET Req]
          BY <3>2, <3>3, TimingAssumption DEF TypeOK
        <4>2. QED
          BY <3>2, <3>3, <4>1 DEF TypeOK
    <2>5. QED
      BY <1>7, <2>1, <2>2, <2>3, <2>4 DEF FetchReturns
  <1>8. CASE LockGranted(r)
    <2>1. ahead' \in [Req -> SUBSET Req]
      BY <1>8 DEF LockGranted, TypeOK
    <2>2. due' \in [Req -> Nat]
      BY <1>8, TimingAssumption DEF LockGranted, TypeOK
    <2>3. QED
      BY <1>8, <2>1, <2>2 DEF LockGranted, TypeOK
  <1>9. CASE AssumeReturns(r)
    <2>1. CASE Fails(r, AssumeFailures)
      BY <2>1, FailsType, FailureTables
    <2>2. CASE ~Fails(r, AssumeFailures)
      BY <1>9, <2>2 DEF AssumeReturns, TypeOK
    <2>3. QED
      BY <2>1, <2>2
  <1>10. CASE ProveReturns(r)
    <2>1. CASE Fails(r, ProveFailures)
      BY <2>1, FailsType, FailureTables
    <2>2. CASE ~Fails(r, ProveFailures)
      BY <1>10, <2>2 DEF ProveReturns, TypeOK
    <2>3. QED
      BY <2>1, <2>2
  <1>11. CASE TokenIssued(r)
    <2>1. ASSUME NEW expires_in \in Lifetimes,
                 NEW counted_from \in {requested_at[r], now}
          PROVE  minted_token(counted_from, expires_in) \in Credential
      <3>1. expires_in \in Nat /\ counted_from \in Nat
        BY TimingAssumption DEF TypeOK
      <3>2. QED
        BY <3>1 DEF minted_token, Credential, TypeOK
    <2>2. QED
      BY <1>11, <2>1 DEF TokenIssued, TypeOK
  <1>12. CASE ExchangeReturns(r)
    <2>1. CASE Fails(r, ExchangeFailures)
      BY <2>1, FailsType, FailureTables
    <2>2. CASE ~Fails(r, ExchangeFailures)
      <3>1. cred[r] \in Credential
        BY DEF TypeOK
      <3>2. QED
        BY <1>12, <2>2, <3>1, StartWriteType DEF ExchangeReturns, TypeOK
    <2>3. QED
      BY <2>1, <2>2
  <1>13. CASE MintTimesOut(r)
    BY <1>13, RaiseType DEF MintTimesOut, Exceptions
  <1>14. CASE WriteReturns(r)
    BY <1>14, DropLockType, AuthenticatedType DEF WriteReturns, TypeOK
  <1>15. CASE PublishReturns(r)
    BY <1>15, SuccessAnswers DEF PublishReturns, TypeOK
  <1>16. CASE DeadlineExpires(r)
    BY <1>16, RaiseType DEF DeadlineExpires, Exceptions
  <1>17. QED
    BY <1>1, <1>3, <1>4, <1>5, <1>6, <1>7, <1>8, <1>9, <1>10, <1>11, <1>12,
       <1>13, <1>14, <1>15, <1>16 DEF Step

LEMMA NextType == TypeOK /\ [Next]_vars => TypeOK'
  <1> SUFFICES ASSUME TypeOK, [Next]_vars PROVE TypeOK'
    OBVIOUS
  <1> USE DEF locks, flushes
  <1>1. ASSUME NEW r \in Req, Arrive(r) PROVE TypeOK'
    BY <1>1, ControlPoints, FailureAnswers, TimingAssumption
    DEF Arrive, TypeOK, Exceptions
  <1>2. ASSUME NEW r \in Req, Step(r) PROVE TypeOK'
    BY <1>2, StepType
  <1>3. ASSUME NEW r \in Req, RedisSetex(r) PROVE TypeOK'
    <2>1. setex[r].ttl \in Nat /\ setex[r].cred \in Credential
      BY DEF TypeOK, Write
    <2>2. [cred |-> setex[r].cred, exp |-> now + setex[r].ttl] \in Entry
      BY <2>1 DEF Entry, TypeOK
    <2>3. QED
      BY <1>3, <2>2, NoCredTypes DEF RedisSetex, TypeOK
  <1>4. ASSUME NEW r \in Req, LoseSetex(r) PROVE TypeOK'
    BY <1>4, NoCredTypes DEF LoseSetex, TypeOK
  <1>5. CASE flush_all
    BY <1>5, NoCredTypes DEF flush_all, TypeOK
  <1>6. CASE Tick
    BY <1>6, NoCredTypes DEF Tick, TypeOK
  <1>7. CASE UNCHANGED vars
    BY <1>7 DEF vars, TypeOK
  <1>8. QED
    BY <1>1, <1>2, <1>3, <1>4, <1>5, <1>6, <1>7 DEF Next, Idle

(* The types hold in every state, for every instance.                      *)
THEOREM TypeCorrect == Spec => []TypeOK
  <1>1. Init => TypeOK
    BY ControlPoints, NoCredTypes DEF Init, TypeOK, Answers
  <1>2. QED
    BY <1>1, NextType, PTL DEF Spec

-----------------------------------------------------------------------------
(* The inductive invariant behind single flight.  A coroutine inside the   *)
(* block owns the lock it refers to; whoever refers to a lock refers to    *)
(* the one its slot of the dictionary names, so two users of a slot share  *)
(* one lock object; and the dictionary names only locks somebody uses.     *)
LockInv ==
    /\ \A r \in Req : Critical(r) =>
          lockref[r] # None /\ owner[lockref[r]] = r
    /\ \A r \in Req : pc[r] = "waiting" => lockref[r] # None
    /\ \A r \in Req : lockref[r] # None =>
          /\ mint_locks[Slot(r)] = lockref[r]
          /\ pc[r] = "waiting" \/ Critical(r)
          /\ Kind[key[r][1]] = "minted"
    /\ MintLocksReleased

(* Locks are untouched and no coroutine enters or leaves a locked region.  *)
SameRegion == /\ UNCHANGED <<key, locks>>
              /\ \A r \in Req : /\ Critical(r)' <=> Critical(r)
                                /\ pc'[r] = "waiting" <=> pc[r] = "waiting"

LEMMA SameRegionLock ==
    ASSUME TypeOK, LockInv, SameRegion
    PROVE  LockInv'
  BY DEF LockInv, SameRegion, locks, Slot, generate_cache_key, MintLocksReleased

(* A coroutine that leaves its lock, or the queue, keeps the invariant.    *)
LEMMA DropLockInv ==
    ASSUME TypeOK, LockInv, NEW r \in Req, DropLock(r), UNCHANGED key,
           \A q \in Req \ {r} : pc'[q] = pc[q],
           ~Critical(r)', pc'[r] # "waiting"
    PROVE  LockInv'
  <1>1. \A q \in Req \ {r} : /\ Critical(q)' <=> Critical(q)
                             /\ lockref'[q] = lockref[q]
    BY DEF Critical, DropLock, TypeOK
  <1>2. lockref'[r] = None
    BY DEF DropLock, TypeOK
  <1>3. \A q \in Req : Slot(q)' = Slot(q)
    BY DEF Slot, generate_cache_key
  <1>4. \A q \in Req : Critical(q)' =>
            lockref'[q] # None /\ owner'[lockref'[q]] = q
    <2> SUFFICES ASSUME NEW q \in Req \ {r}, Critical(q)
                 PROVE  lockref[q] # None /\ owner'[lockref[q]] = q
      BY <1>1
    <2>1. lockref[q] \in Req /\ owner[lockref[q]] = q
      BY DEF LockInv, TypeOK
    <2>2. QED
      BY <2>1, AuthAssumption DEF DropLock
  <1>5. \A q \in Req : pc'[q] = "waiting" => lockref'[q] # None
    BY <1>1 DEF LockInv
  <1>6. ASSUME NEW q \in Req, lockref'[q] # None
        PROVE  /\ mint_locks'[Slot(q)'] = lockref'[q]
               /\ pc'[q] = "waiting" \/ Critical(q)'
               /\ Kind[key'[q][1]] = "minted"
    <2>1. q # r /\ lockref[q] # None /\ lockref'[q] = lockref[q]
      BY <1>1, <1>2, <1>6
    <2>2. mint_locks[Slot(q)] = lockref[q] /\ Slot(q) \in Proc \X Key
      BY <2>1, SlotType DEF LockInv
    <2>3. mint_locks'[Slot(q)] = lockref[q]
      BY <2>1, <2>2 DEF DropLock
    <2>4. QED
      BY <1>1, <1>3, <2>1, <2>3 DEF LockInv
  <1>7. MintLocksReleased'
    <2> SUFFICES ASSUME NEW s \in Proc \X Key, mint_locks'[s] # None
                 PROVE  \E q \in Req : lockref'[q] = mint_locks'[s]
      BY DEF MintLocksReleased
    <2>1. mint_locks'[s] = mint_locks[s]
      BY DEF DropLock
    <2>2. PICK q \in Req : lockref[q] = mint_locks[s]
      BY <2>1 DEF LockInv, MintLocksReleased
    <2>3. CASE q # r
      BY <1>1, <2>1, <2>2, <2>3
    <2>4. CASE q = r
      BY <1>1, <2>1, <2>2, <2>4 DEF DropLock
    <2>5. QED
      BY <2>3, <2>4
  <1>8. QED
    BY <1>4, <1>5, <1>6, <1>7 DEF LockInv

LEMMA RaiseLock ==
    ASSUME TypeOK, LockInv, NEW r \in Req, NEW exc, NEW why, Raise(r, exc, why)
    PROVE  LockInv'
  <1>1. ~Critical(r)' /\ pc'[r] # "waiting"
    BY DEF Raise, TypeOK, Critical, Minting
  <1>2. \A q \in Req \ {r} : pc'[q] = pc[q]
    BY DEF Raise, TypeOK
  <1>3. QED
    BY <1>1, <1>2, DropLockInv DEF Raise

LEMMA FailsLock ==
    ASSUME TypeOK, LockInv, NEW r \in Req, NEW failures, Fails(r, failures)
    PROVE  LockInv'
  BY RaiseLock DEF Fails

LEMMA StepLock ==
    ASSUME TypeOK, LockInv, NEW r \in Req, Step(r)
    PROVE  LockInv'
  <1> USE DEF locks, flushes
  <1>1. ASSUME NEW to, pc' = [pc EXCEPT ![r] = to], UNCHANGED <<key, locks>>,
               pc[r] \in PC \ {"waiting", "write"}, to # "waiting",
               pc[r] \in {"reread", "reread_back"} \cup Minting <=>
               to \in {"reread", "reread_back"} \cup Minting
                        \/ (to = "write" /\ Kind[key[r][1]] = "minted")
        PROVE  LockInv'
    <2>1. \A q \in Req : q # r => pc'[q] = pc[q]
      BY <1>1 DEF TypeOK
    <2>2. pc'[r] = to
      BY <1>1 DEF TypeOK
    <2>3. SameRegion
      BY <1>1, <2>1, <2>2 DEF SameRegion, Critical
    <2>4. QED
      BY <2>3, SameRegionLock
  <1>2. CASE RedisGet(r)
    <2>1. pc[r] \in PC \ {"waiting", "write"}
      BY <1>2, ControlPoints DEF RedisGet, Reading
    <2>2. QED
      <3>1. CASE pc[r] = "read"
        BY <1>1, <1>2, <2>1, <3>1 DEF RedisGet, Minting
      <3>2. CASE pc[r] = "reread"
        BY <1>1, <1>2, <2>1, <3>2 DEF RedisGet, Minting
      <3>3. QED
        BY <1>2, <3>1, <3>2 DEF RedisGet, Reading
  <1>3. ASSUME Miss(r) PROVE LockInv'
    <2>1. CASE Fails(r, RoleFailures)
      BY <2>1, FailsLock
    <2>2. CASE pc[r] \in {"read", "read_back"}
                 /\ pc' = [pc EXCEPT ![r] = "identity"] /\ UNCHANGED <<key, locks>>
      BY <1>1, <2>2, ControlPoints DEF Minting
    <2>3. CASE pc[r] \in {"reread", "reread_back"}
                 /\ pc' = [pc EXCEPT ![r] = "assume"] /\ UNCHANGED <<key, locks>>
      BY <1>1, <2>3, ControlPoints DEF Minting
    <2>4. QED
      BY <1>3, <2>1, <2>2, <2>3 DEF Miss
  <1>4. ASSUME Authenticated(r), DropLock(r), UNCHANGED key
        PROVE  LockInv'
    <2>1. pc'[r] \in {"done", "publish"} /\ \A q \in Req \ {r} : pc'[q] = pc[q]
      BY <1>4 DEF Authenticated, TypeOK
    <2>2. ~Critical(r)' /\ pc'[r] # "waiting"
      BY <2>1 DEF Critical, Minting
    <2>3. QED
      BY <1>4, <2>1, <2>2, DropLockInv
  <1>5. CASE ReadReturns(r)
    BY <1>3, <1>4, <1>5 DEF ReadReturns
  <1>6. CASE ReadFails(r)
    BY <1>3, <1>6 DEF ReadFails
  <1>7. CASE ReadTimesOut(r)
    BY <1>7, RaiseLock DEF ReadTimesOut
  <1>8. CASE IdentityReturns(r)
    <2>1. CASE Fails(r, IdentityFailures)
      BY <2>1, FailsLock
    <2>2. CASE Raise(r, "CredentialsError", "sts_expired")
      BY <2>2, RaiseLock
    <2>3. CASE pc[r] = "identity" /\ pc' = [pc EXCEPT ![r] = "fetch"]
                 /\ UNCHANGED <<key, locks>>
      BY <1>1, <2>3, ControlPoints DEF Minting
    <2>4. QED
      BY <1>8, <2>1, <2>2, <2>3 DEF IdentityReturns
  <1>9. CASE FetchReturns(r)
    <2>1. CASE Fails(r, FetchFailures)
      BY <2>1, FailsLock
    <2>2. CASE Raise(r, "AuthenticationError", "host_mismatch")
      BY <2>2, RaiseLock
    <2>3. CASE /\ pc[r] = "fetch" /\ Kind[key[r][1]] = "stored"
               /\ pc' = [pc EXCEPT ![r] = "write"] /\ UNCHANGED <<key, locks>>
      BY <1>1, <2>3, ControlPoints DEF Minting
    <2> DEFINE l == mint_lock(r)
    <2>4. CASE /\ pc[r] = "fetch" /\ Kind[key[r][1]] = "minted"
               /\ mint_locks' = [mint_locks EXCEPT ![Slot(r)] = l]
               /\ lockref' = [lockref EXCEPT ![r] = l]
               /\ UNCHANGED key
               /\ \/ /\ owner[l] = None
                     /\ owner' = [owner EXCEPT ![l] = r]
                     /\ pc' = [pc EXCEPT ![r] = "reread"]
                  \/ /\ pc' = [pc EXCEPT ![r] = "waiting"]
                     /\ UNCHANGED owner
      <3>1. l \in Req /\ lockref[r] = None
        BY <2>4, MintLockType DEF LockInv, Critical, Minting
      <3>2. Slot(r) \in Proc \X Key /\ \A q \in Req : Slot(q)' = Slot(q)
        BY <2>4, SlotType DEF Slot, generate_cache_key
      <3>3. \A q \in Req \ {r} : /\ Critical(q)' <=> Critical(q)
                                 /\ lockref'[q] = lockref[q]
                                 /\ pc'[q] = pc[q]
        BY <2>4 DEF Critical, TypeOK
      <3>4. lockref'[r] = l /\ l # None
        BY <2>4, <3>1, AuthAssumption DEF TypeOK
      <3>5. \A q \in Req : Critical(q)' =>
                lockref'[q] # None /\ owner'[lockref'[q]] = q
        <4>1. ASSUME NEW q \in Req \ {r}, Critical(q)
              PROVE  lockref[q] # None /\ owner'[lockref[q]] = q
          <5>1. lockref[q] \in Req /\ owner[lockref[q]] = q /\ q # None
            BY <4>1, AuthAssumption DEF LockInv, TypeOK
          <5>2. owner'[lockref[q]] = owner[lockref[q]]
            <6>1. CASE UNCHANGED owner
              BY <6>1
            <6>2. CASE owner[l] = None /\ owner' = [owner EXCEPT ![l] = r]
              <7>1. lockref[q] # l
                BY <5>1, <6>2
              <7>2. QED
                BY <5>1, <6>2, <7>1 DEF TypeOK
            <6>3. QED
              BY <2>4, <6>1, <6>2
          <5>3. QED
            BY <5>1, <5>2, AuthAssumption
        <4>2. ASSUME Critical(r)' PROVE owner'[l] = r
          BY <2>4, <3>1, <4>2 DEF Critical, Minting, TypeOK
        <4>3. QED
          BY <3>3, <3>4, <4>1, <4>2
      <3>6. \A q \in Req : pc'[q] = "waiting" => lockref'[q] # None
        BY <3>3, <3>4 DEF LockInv
      <3>7. ASSUME NEW q \in Req, lockref'[q] # None
            PROVE  /\ mint_locks'[Slot(q)'] = lockref'[q]
                   /\ pc'[q] = "waiting" \/ Critical(q)'
                   /\ Kind[key'[q][1]] = "minted"
        <4>1. CASE q = r
          BY <2>4, <3>2, <3>4, <4>1 DEF Critical, TypeOK
        <4>2. CASE q # r
          <5>1. /\ mint_locks[Slot(q)] = lockref[q] /\ lockref[q] # None
                /\ pc[q] = "waiting" \/ Critical(q)
                /\ Kind[key[q][1]] = "minted"
            BY <3>3, <3>7, <4>2 DEF LockInv
          <5>2. Slot(q) \in Proc \X Key
            BY SlotType
          <5>3. mint_locks'[Slot(q)] = lockref[q]
            BY <2>4, <3>2, <5>1, <5>2 DEF mint_lock, TypeOK
          <5>4. QED
            BY <2>4, <3>2, <3>3, <4>2, <5>1, <5>3
        <4>3. QED
          BY <4>1, <4>2
      <3>8. MintLocksReleased'
        <4> SUFFICES ASSUME NEW s \in Proc \X Key, mint_locks'[s] # None
                     PROVE  \E q \in Req : lockref'[q] = mint_locks'[s]
          BY DEF MintLocksReleased
        <4>1. CASE s = Slot(r)
          BY <2>4, <3>2, <3>4, <4>1 DEF TypeOK
        <4>2. CASE s # Slot(r)
          <5>1. mint_locks'[s] = mint_locks[s]
            BY <2>4, <4>2 DEF TypeOK
          <5>2. PICK q \in Req : lockref[q] = mint_locks[s]
            BY <5>1 DEF LockInv, MintLocksReleased
          <5>3. QED
            BY <3>1, <3>3, <5>1, <5>2
        <4>3. QED
          BY <4>1, <4>2
      <3>9. QED
        BY <3>5, <3>6, <3>7, <3>8 DEF LockInv
    <2>5. QED
      <3> HIDE DEF l
      <3>1. \/ Fails(r, FetchFailures)
            \/ Raise(r, "AuthenticationError", "host_mismatch")
            \/ /\ pc[r] = "fetch" /\ Kind[key[r][1]] = "stored"
               /\ pc' = [pc EXCEPT ![r] = "write"] /\ UNCHANGED <<key, locks>>
            \/ /\ pc[r] = "fetch" /\ Kind[key[r][1]] = "minted"
               /\ mint_locks' = [mint_locks EXCEPT ![Slot(r)] = l]
               /\ lockref' = [lockref EXCEPT ![r] = l]
               /\ UNCHANGED key
               /\ \/ /\ owner[l] = None
                     /\ owner' = [owner EXCEPT ![l] = r]
                     /\ pc' = [pc EXCEPT ![r] = "reread"]
                  \/ /\ pc' = [pc EXCEPT ![r] = "waiting"]
                     /\ UNCHANGED owner
        BY <1>9 DEF FetchReturns, StartWrite, l
      <3>2. QED
        BY <2>1, <2>2, <2>3, <2>4, <3>1
  <1>10. CASE LockGranted(r)
    <2> DEFINE l == lockref[r]
    <2>1. l \in Req /\ pc[r] = "waiting" /\ owner[l] = None
      BY <1>10 DEF LockGranted, LockInv, TypeOK
    <2>2. \A q \in Req \ {r} : pc'[q] = pc[q] /\ (Critical(q)' <=> Critical(q))
      BY <1>10 DEF LockGranted, Critical, TypeOK
    <2>3. pc'[r] = "reread" /\ Critical(r)'
      BY <1>10 DEF LockGranted, Critical, TypeOK
    <2>4. \A q \in Req : Slot(q)' = Slot(q)
      BY <1>10 DEF LockGranted, Slot, generate_cache_key
    <2>5. \A q \in Req : Critical(q)' =>
              lockref[q] # None /\ owner'[lockref[q]] = q
      <3>1. owner'[l] = r /\ l # None
        BY <1>10, <2>1, AuthAssumption DEF LockGranted, TypeOK
      <3>2. ASSUME NEW q \in Req \ {r}, Critical(q)
            PROVE  lockref[q] # None /\ owner'[lockref[q]] = q
        <4>1. lockref[q] \in Req /\ owner[lockref[q]] = q /\ q # None
          BY <3>2, AuthAssumption DEF LockInv, TypeOK
        <4>2. QED
          <5>1. lockref[q] # l
            BY <2>1, <4>1
          <5>2. owner' = [owner EXCEPT ![l] = r]
            BY <1>10 DEF LockGranted
          <5>3. owner'[lockref[q]] = owner[lockref[q]]
            BY <4>1, <5>1, <5>2 DEF TypeOK
          <5>4. QED
            BY <4>1, <5>3, AuthAssumption
      <3>3. QED
        BY <2>2, <3>1, <3>2
    <2>6. QED
      BY <1>10, <2>2, <2>3, <2>4, <2>5
      DEF LockGranted, LockInv, MintLocksReleased
  <1>11. CASE AssumeReturns(r)
    <2>1. CASE Fails(r, AssumeFailures)
      BY <2>1, FailsLock
    <2>2. CASE ~Fails(r, AssumeFailures)
      BY <1>1, <1>11, <2>2, ControlPoints DEF AssumeReturns, Minting
    <2>3. QED
      BY <2>1, <2>2
  <1>12. CASE ProveReturns(r)
    <2>1. CASE Fails(r, ProveFailures)
      BY <2>1, FailsLock
    <2>2. CASE ~Fails(r, ProveFailures)
      BY <1>1, <1>12, <2>2, ControlPoints DEF ProveReturns, Minting
    <2>3. QED
      BY <2>1, <2>2
  <1>13. CASE TokenIssued(r)
    BY <1>1, <1>13, ControlPoints DEF TokenIssued, Minting
  <1>14. CASE ExchangeReturns(r)
    <2>1. CASE Fails(r, ExchangeFailures)
      BY <2>1, FailsLock
    <2>2. CASE ~Fails(r, ExchangeFailures)
      <3>1. Kind[key[r][1]] = "minted"
        BY <1>14, <2>2 DEF ExchangeReturns, LockInv, Critical, Minting
      <3>2. QED
        BY <1>1, <1>14, <2>2, <3>1, ControlPoints
        DEF ExchangeReturns, StartWrite, Minting
    <2>3. QED
      BY <2>1, <2>2
  <1>15. CASE MintTimesOut(r)
    BY <1>15, RaiseLock DEF MintTimesOut
  <1>16. CASE WriteReturns(r)
    BY <1>4, <1>16 DEF WriteReturns
  <1>17. CASE PublishReturns(r)
    BY <1>1, <1>17, ControlPoints DEF PublishReturns, Minting
  <1>18. CASE DeadlineExpires(r)
    BY <1>18, RaiseLock DEF DeadlineExpires
  <1>19. QED
    BY <1>2, <1>5, <1>6, <1>7, <1>8, <1>9, <1>10, <1>11, <1>12, <1>13, <1>14,
       <1>15, <1>16, <1>17, <1>18 DEF Step

LEMMA NextLock == TypeOK /\ LockInv /\ [Next]_vars => LockInv'
  <1> SUFFICES ASSUME TypeOK, LockInv, [Next]_vars PROVE LockInv'
    OBVIOUS
  <1>1. ASSUME UNCHANGED <<pc, key, locks>> PROVE LockInv'
    <2>1. SameRegion
      BY <1>1 DEF SameRegion, Critical
    <2>2. QED
      BY <2>1, SameRegionLock
  <1>2. ASSUME NEW r \in Req, Arrive(r) PROVE LockInv'
    <2>1. pc[r] = "idle" /\ pc'[r] \in {"read", "done"} /\ UNCHANGED <<key, locks>>
      BY <1>2 DEF Arrive, TypeOK
    <2>2. \A q \in Req : q # r => pc'[q] = pc[q]
      BY <1>2 DEF Arrive, TypeOK
    <2>3. SameRegion
      BY <2>1, <2>2 DEF SameRegion, Critical, Minting
    <2>4. QED
      BY <2>3, SameRegionLock
  <1>3. ASSUME NEW r \in Req, Step(r) PROVE LockInv'
    BY <1>3, StepLock
  <1>4. ASSUME NEW r \in Req, RedisSetex(r) \/ LoseSetex(r) PROVE LockInv'
    BY <1>1, <1>4 DEF RedisSetex, LoseSetex
  <1>5. CASE flush_all \/ Tick \/ UNCHANGED vars
    BY <1>1, <1>5 DEF flush_all, Tick, vars
  <1>6. QED
    BY <1>2, <1>3, <1>4, <1>5 DEF Next, Idle

LEMMA LockInvariant == Spec => []LockInv
  <1>1. Init => LockInv
    BY DEF Init, LockInv, Critical, Minting, MintLocksReleased, Slot,
           generate_cache_key
  <1>2. QED
    BY <1>1, NextLock, TypeCorrect, PTL DEF Spec

(* Single flight for any number of requests, processes and keys: two       *)
(* coroutines of a process are never both between taking and releasing the *)
(* mint lock of one payload and target, although that lock is an object    *)
(* the weak dictionary makes and forgets on demand (_mint_lock).           *)
THEOREM SingleFlight == Spec => []MintExclusive
  <1>1. TypeOK /\ LockInv => MintExclusive
    <2> SUFFICES ASSUME LockInv, NEW r \in Req, NEW q \in Req,
                        Slot(r) = Slot(q), Critical(r), Critical(q)
                 PROVE  r = q
      BY DEF MintExclusive
    <2>1. lockref[r] = lockref[q]
      BY DEF LockInv
    <2>2. QED
      BY <2>1 DEF LockInv
  <1>2. QED
    BY <1>1, LockInvariant, TypeCorrect, PTL

(* The lock dictionary never keeps a lock that no coroutine refers to, so  *)
(* it cannot grow with the payloads seen ("A lock is dropped once no       *)
(* coroutine holds it", auth_service.py).                                  *)
THEOREM LocksDropped == Spec => []MintLocksReleased
  <1>1. LockInv => MintLocksReleased
    BY DEF LockInv
  <1>2. QED
    BY <1>1, LockInvariant, PTL

-----------------------------------------------------------------------------
(* The queue of each lock.  Finitely many coroutines wait for it; those    *)
(* before one of them wait for the same lock, and whoever is before one of *)
(* those is before it too.                                                 *)
QueueInv ==
    /\ \A l \in Req : IsFiniteSet(Waiters(l))
    /\ \A r \in Req : pc[r] = "waiting" =>
          /\ ahead[r] \subseteq Waiters(lockref[r]) \ {r}
          /\ \A q \in ahead[r] : ahead[q] \subseteq ahead[r]

(* A nonempty set of natural numbers has a least element.                  *)
LEMMA LeastNatural ==
    ASSUME NEW T, T \subseteq Nat, T # {}
    PROVE  \E n \in T : \A m \in T : n <= m
  <1> DEFINE R == OpToRel(<, Nat)
  <1>1. IsWellFoundedOn(R, Nat)
    BY NatLessThanWellFounded
  <1>2. \A m, n \in Nat : m < n => <<m, n>> \in R
    BY DEF OpToRel
  <1> HIDE DEF R
  <1>3. PICK n \in T : \A m \in T : <<m, n>> \notin R
    BY <1>1, WFMin
  <1>4. ASSUME NEW m \in T PROVE n <= m
    <2>1. m \in Nat /\ n \in Nat
      OBVIOUS
    <2>2. ~(m < n)
      BY <1>2, <1>3, <2>1
    <2>3. QED
      BY <2>1, <2>2
  <1>5. QED
    BY <1>4

(* In such a queue somebody is first: of the coroutines that wait, one     *)
(* with the fewest before it.                                              *)
LEMMA SomebodyIsFirst ==
    ASSUME TypeOK, QueueInv, NEW l \in Req, Waiters(l) # {}
    PROVE  \E r \in Waiters(l) : ahead[r] = {}
  <1> DEFINE T == {Cardinality(ahead[r]) : r \in Waiters(l)}
  <1>1. ASSUME NEW r \in Waiters(l)
        PROVE  /\ r \in Req /\ pc[r] = "waiting" /\ lockref[r] = l
               /\ ahead[r] \subseteq Waiters(l) \ {r}
               /\ IsFiniteSet(ahead[r])
               /\ Cardinality(ahead[r]) \in Nat
    <2>1. r \in Req /\ pc[r] = "waiting" /\ lockref[r] = l
      BY DEF Waiters
    <2>2. ahead[r] \subseteq Waiters(l) \ {r} /\ IsFiniteSet(Waiters(l))
      BY <2>1 DEF QueueInv
    <2>3. IsFiniteSet(ahead[r])
      BY <2>2, FS_Subset
    <2>4. QED
      BY <2>1, <2>2, <2>3, FS_CardinalityType
  <1>2. T \subseteq Nat /\ T # {}
    BY <1>1
  <1>3. PICK n \in T : \A m \in T : n <= m
    BY <1>2, LeastNatural
  <1>4. PICK r \in Waiters(l) : n = Cardinality(ahead[r])
    BY <1>3
  <1>5. ASSUME NEW q \in ahead[r] PROVE FALSE
    <2>1. q \in Waiters(l) /\ ahead[q] \subseteq ahead[r]
      BY <1>1, <1>4 DEF QueueInv
    <2>2. q \notin ahead[q] /\ ahead[q] # ahead[r]
      BY <1>1, <2>1
    <2>3. /\ Cardinality(ahead[q]) <= Cardinality(ahead[r])
          /\ Cardinality(ahead[q]) # Cardinality(ahead[r])
      BY <1>1, <2>1, <2>2, FS_Subset
    <2>4. Cardinality(ahead[r]) <= Cardinality(ahead[q])
      BY <1>3, <1>4, <2>1
    <2>5. Cardinality(ahead[q]) \in Nat /\ Cardinality(ahead[r]) \in Nat
      BY <1>1, <2>1
    <2>6. QED
      BY <2>3, <2>4, <2>5
  <1>6. QED
    BY <1>5

(* What a step may do to the queues: nothing, let one coroutine leave the  *)
(* queue it may be in, or put one at the end of a queue.                   *)
SameQueues ==
    /\ UNCHANGED ahead
    /\ \A q \in Req : /\ pc'[q] = "waiting" <=> pc[q] = "waiting"
                      /\ pc[q] = "waiting" => lockref'[q] = lockref[q]

LeavesQueue(r) ==
    /\ pc'[r] # "waiting"
    /\ \A q \in Req \ {r} :
          pc'[q] = pc[q] /\ lockref'[q] = lockref[q] /\ ahead'[q] = ahead[q] \ {r}

JoinsQueue(r) ==
    /\ pc[r] # "waiting" /\ lockref'[r] \in Req
    /\ ahead'[r] = Waiters(lockref'[r])
    /\ pc'[r] = "waiting"
    /\ \A q \in Req \ {r} :
          pc'[q] = pc[q] /\ lockref'[q] = lockref[q] /\ ahead'[q] = ahead[q]

LEMMA RaiseLeaves ==
    ASSUME TypeOK, NEW r \in Req, NEW exc, NEW why, Raise(r, exc, why)
    PROVE  LeavesQueue(r)
  BY DEF Raise, DropLock, LeavesQueue, TypeOK

LEMMA FailsLeaves ==
    ASSUME TypeOK, NEW r \in Req, NEW failures, Fails(r, failures)
    PROVE  LeavesQueue(r)
  BY RaiseLeaves DEF Fails

LEMMA StepQueues ==
    ASSUME TypeOK, NEW r \in Req, Step(r)
    PROVE  SameQueues \/ LeavesQueue(r) \/ JoinsQueue(r)
  <1> USE DEF locks
  <1>1. ASSUME NEW to, to # "waiting", pc' = [pc EXCEPT ![r] = to],
               pc[r] # "waiting", UNCHANGED <<lockref, ahead>>
        PROVE  SameQueues
    BY <1>1 DEF SameQueues, TypeOK
  <1>2. ASSUME Authenticated(r), DropLock(r) PROVE LeavesQueue(r)
    BY <1>2 DEF Authenticated, DropLock, LeavesQueue, TypeOK
  <1>3. ASSUME Miss(r) PROVE SameQueues \/ LeavesQueue(r)
    BY <1>1, <1>3, FailsLeaves DEF Miss
  <1>4. CASE RedisGet(r)
    <2>1. PICK to \in {"read_back", "reread_back"} : pc' = [pc EXCEPT ![r] = to]
      BY <1>4 DEF RedisGet
    <2>2. pc[r] # "waiting" /\ UNCHANGED <<lockref, ahead>>
      BY <1>4 DEF RedisGet, Reading
    <2>3. QED
      BY <1>1, <2>1, <2>2
  <1>5. CASE ReadReturns(r) \/ ReadFails(r) \/ WriteReturns(r)
    BY <1>2, <1>3, <1>5 DEF ReadReturns, ReadFails, WriteReturns
  <1>6. CASE ReadTimesOut(r) \/ MintTimesOut(r) \/ DeadlineExpires(r)
    BY <1>6, RaiseLeaves DEF ReadTimesOut, MintTimesOut, DeadlineExpires
  <1>7. CASE IdentityReturns(r)
    BY <1>1, <1>7, RaiseLeaves, FailsLeaves DEF IdentityReturns
  <1>8. CASE FetchReturns(r)
    <2>1. CASE Fails(r, FetchFailures) \/ Raise(r, "AuthenticationError", "host_mismatch")
      BY <2>1, RaiseLeaves, FailsLeaves
    <2>2. CASE StartWrite(r, StoredKey) /\ UNCHANGED <<lockref, ahead>>
      BY <1>1, <1>8, <2>2 DEF FetchReturns, StartWrite
    <2>3. CASE /\ lockref' = [lockref EXCEPT ![r] = mint_lock(r)]
               /\ pc' = [pc EXCEPT ![r] = "reread"] /\ UNCHANGED ahead
      BY <1>8, <2>3 DEF FetchReturns, SameQueues, TypeOK
    <2>4. CASE /\ lockref' = [lockref EXCEPT ![r] = mint_lock(r)]
               /\ pc' = [pc EXCEPT ![r] = "waiting"]
               /\ ahead' = [ahead EXCEPT ![r] = Waiters(mint_lock(r))]
      <3>1. mint_lock(r) \in Req
        BY MintLockType
      <3>2. pc[r] = "fetch"
        BY <1>8 DEF FetchReturns
      <3>3. lockref'[r] = mint_lock(r) /\ ahead'[r] = Waiters(mint_lock(r))
        BY <2>4, <3>1 DEF TypeOK
      <3>4. QED
        BY <2>4, <3>1, <3>2, <3>3 DEF JoinsQueue, TypeOK
    <2>5. QED
      BY <1>8, <2>1, <2>2, <2>3, <2>4 DEF FetchReturns
  <1>9. CASE LockGranted(r)
    BY <1>9 DEF LockGranted, LeavesQueue, TypeOK
  <1>10. CASE AssumeReturns(r) \/ ProveReturns(r)
    BY <1>1, <1>10, FailsLeaves DEF AssumeReturns, ProveReturns
  <1>11. CASE TokenIssued(r) \/ PublishReturns(r)
    BY <1>1, <1>11 DEF TokenIssued, PublishReturns
  <1>12. CASE ExchangeReturns(r)
    BY <1>1, <1>12, FailsLeaves DEF ExchangeReturns, StartWrite
  <1>13. QED
    BY <1>4, <1>5, <1>6, <1>7, <1>8, <1>9, <1>10, <1>11, <1>12 DEF Step

LEMMA SameQueuesInv ==
    ASSUME TypeOK, QueueInv, SameQueues
    PROVE  QueueInv'
  <1>1. \A l \in Req : Waiters(l)' = Waiters(l)
    BY DEF Waiters, SameQueues
  <1>2. \A l \in Req : IsFiniteSet(Waiters(l)')
    BY <1>1 DEF QueueInv
  <1>3. ASSUME NEW r \in Req, pc'[r] = "waiting"
        PROVE  /\ ahead'[r] \subseteq Waiters(lockref[r])' \ {r}
               /\ lockref'[r] = lockref[r]
               /\ \A q \in ahead'[r] : ahead'[q] \subseteq ahead'[r]
    <2>1. pc[r] = "waiting" /\ ahead' = ahead /\ lockref'[r] = lockref[r]
      BY <1>3 DEF SameQueues
    <2>2. \A q \in ahead[r] : q \in Req /\ pc'[q] = "waiting" /\ lockref'[q] = lockref[r]
      BY <2>1 DEF QueueInv, Waiters, SameQueues
    <2>3. QED
      BY <2>1, <2>2 DEF QueueInv, Waiters
  <1>4. QED
    BY <1>2, <1>3 DEF QueueInv, Waiters

LEMMA LeavesQueueInv ==
    ASSUME TypeOK, QueueInv, NEW r \in Req, LeavesQueue(r)
    PROVE  QueueInv'
  <1>1. \A l \in Req : Waiters(l)' = Waiters(l) \ {r}
    BY DEF Waiters, LeavesQueue
  <1>2. \A l \in Req : IsFiniteSet(Waiters(l)')
    BY <1>1, FS_RemoveElement DEF QueueInv
  <1>3. ASSUME NEW q \in Req, pc'[q] = "waiting"
        PROVE  /\ ahead'[q] \subseteq Waiters(lockref[q])' \ {q}
               /\ \A p \in ahead'[q] : ahead'[p] \subseteq ahead'[q]
    <2>1. /\ q # r /\ pc[q] = "waiting" /\ lockref'[q] = lockref[q]
          /\ ahead'[q] = ahead[q] \ {r}
      BY <1>3 DEF LeavesQueue
    <2>2. ahead[q] \subseteq Waiters(lockref[q]) \ {q}
      BY <2>1 DEF QueueInv
    <2>3. ahead'[q] \subseteq Waiters(lockref[q])' \ {q}
      BY <2>1, <2>2 DEF Waiters, LeavesQueue
    <2>4. ASSUME NEW p \in ahead'[q] PROVE ahead'[p] \subseteq ahead'[q]
      <3>1. p \in ahead[q] /\ p # r /\ p \in Req
        BY <2>1, <2>2 DEF Waiters
      <3>2. ahead'[p] = ahead[p] \ {r} /\ ahead[p] \subseteq ahead[q]
        BY <2>1, <3>1 DEF LeavesQueue, QueueInv
      <3>3. QED
        BY <2>1, <3>2
    <2>5. QED
      BY <2>3, <2>4
  <1>4. QED
    BY <1>2, <1>3 DEF QueueInv

LEMMA JoinsQueueInv ==
    ASSUME TypeOK, QueueInv, NEW r \in Req, JoinsQueue(r)
    PROVE  QueueInv'
  <1> DEFINE l == lockref'[r]
  <1>0. /\ l \in Req /\ ahead'[r] = Waiters(l) /\ pc'[r] = "waiting"
        /\ pc[r] # "waiting"
        /\ \A q \in Req \ {r} : /\ pc'[q] = pc[q] /\ lockref'[q] = lockref[q]
                                /\ ahead'[q] = ahead[q]
    BY DEF JoinsQueue
  <1>1. \A k \in Req : Waiters(k)' = IF k = l THEN Waiters(k) \cup {r} ELSE Waiters(k)
    BY <1>0 DEF Waiters
  <1>2. \A k \in Req : IsFiniteSet(Waiters(k)')
    BY <1>1, FS_AddElement DEF QueueInv
  <1> HIDE DEF l
  <1>3. \A q \in Waiters(l) : q \in Req \ {r} /\ pc[q] = "waiting" /\ lockref[q] = l
    BY <1>0 DEF Waiters
  <1>4. ASSUME NEW q \in Req, pc'[q] = "waiting"
        PROVE  /\ ahead'[q] \subseteq Waiters(lockref[q])' \ {q}
               /\ \A p \in ahead'[q] : ahead'[p] \subseteq ahead'[q]
    <2>1. CASE q = r
      <3>1. lockref'[q] = l /\ ahead'[q] = Waiters(l)
        BY <1>0, <2>1 DEF l
      <3>2. Waiters(lockref[q])' = Waiters(l) \cup {r}
        BY <1>0, <1>1, <3>1
      <3>3. \A p \in Waiters(l) : ahead'[p] \subseteq Waiters(l)
        BY <1>0, <1>3 DEF QueueInv
      <3>4. QED
        BY <1>3, <2>1, <3>1, <3>2, <3>3
    <2>2. CASE q # r
      <3>1. /\ pc[q] = "waiting" /\ lockref'[q] = lockref[q] /\ ahead'[q] = ahead[q]
            /\ ahead[q] \subseteq Waiters(lockref[q]) \ {q}
        BY <1>0, <1>4, <2>2 DEF QueueInv
      <3>2. \A p \in ahead[q] : p \in Req \ {r} /\ pc[p] = "waiting"
                                /\ lockref[p] = lockref[q]
        BY <1>0, <3>1 DEF Waiters
      <3>3. ahead'[q] \subseteq Waiters(lockref[q])' \ {q}
        BY <1>0, <3>1, <3>2 DEF Waiters
      <3>4. \A p \in ahead[q] : ahead'[p] \subseteq ahead[q]
        BY <1>0, <3>1, <3>2 DEF QueueInv
      <3>5. QED
        BY <3>1, <3>3, <3>4
    <2>3. QED
      BY <2>1, <2>2
  <1>5. QED
    BY <1>2, <1>4 DEF QueueInv

LEMMA NextQueues == TypeOK /\ QueueInv /\ [Next]_vars => QueueInv'
  <1> SUFFICES ASSUME TypeOK, QueueInv, [Next]_vars PROVE QueueInv'
    OBVIOUS
  <1> USE DEF locks
  <1>1. ASSUME NEW r \in Req, Arrive(r) PROVE SameQueues
    BY <1>1 DEF Arrive, SameQueues, TypeOK
  <1>2. ASSUME NEW r \in Req, Step(r) PROVE QueueInv'
    BY <1>2, StepQueues, SameQueuesInv, LeavesQueueInv, JoinsQueueInv
  <1>3. ASSUME NEW r \in Req, RedisSetex(r) \/ LoseSetex(r) PROVE SameQueues
    BY <1>3 DEF RedisSetex, LoseSetex, SameQueues
  <1>4. CASE flush_all \/ Tick \/ UNCHANGED vars
    <2>1. SameQueues
      BY <1>4 DEF flush_all, Tick, vars, SameQueues
    <2>2. QED
      BY <2>1, SameQueuesInv
  <1>5. QED
    BY <1>1, <1>2, <1>3, <1>4, SameQueuesInv DEF Next, Idle

(* No wake-up of a mint lock is lost: whoever holds it or waits for it is  *)
(* cancelled, while somebody waits there is a first in the queue, and a    *)
(* free lock is his to take.                                               *)
THEOREM WakeupsKept == Spec => []NoLostWakeup
  <1>1. Init => QueueInv
    <2> SUFFICES ASSUME Init PROVE QueueInv
      OBVIOUS
    <2>1. \A l \in Req : Waiters(l) = {}
      BY DEF Init, Waiters
    <2>2. QED
      BY <2>1, FS_EmptySet DEF Init, QueueInv
  <1>2. TypeOK /\ QueueInv => NoLostWakeup
    BY SomebodyIsFirst DEF NoLostWakeup
  <1>3. QED
    BY <1>1, <1>2, NextQueues, TypeCorrect, PTL DEF Spec

=============================================================================
