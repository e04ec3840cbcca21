--------------------------- MODULE AuthTokenProofs ---------------------------
(***************************************************************************)
(* What reaches a caller and what stays in Redis: a minted token taken     *)
(* from Redis has not expired, a key restricted to a host is not handed    *)
(* out for another, a stored key leaves with the credentials that fetched  *)
(* it, and a flush of an idle system leaves nothing behind.                *)
(***************************************************************************)
EXTENDS AuthServiceProofs

(* What a positive ttl of a minted token guarantees.                       *)
LEMMA EffectiveTtl ==
    ASSUME NEW e \in Nat, NEW t \in Nat, effective_cache_ttl(e, t) > 0
    PROVE  effective_cache_ttl(e, t) + t + Margin <= e
  BY PolicyAssumption DEF effective_cache_ttl, AtLeastZero, AtMost

(* A step of one request leaves the others, Redis and the clock alone.     *)
Others(r) ==
    /\ UNCHANGED <<now, key, cache>>
    /\ \A q \in Req \ {r} :
          /\ pc'[q] = pc[q] /\ due'[q] = due[q] /\ cred'[q] = cred[q]
          /\ served'[q] = served[q] /\ requested_at'[q] = requested_at[q]
          /\ setex'[q] = setex[q] /\ reply'[q] = reply[q]

LEMMA RaiseOthers ==
    ASSUME TypeOK, NEW r \in Req, NEW exc, NEW why, Raise(r, exc, why)
    PROVE  Others(r)
  BY DEF Raise, Others, TypeOK

LEMMA FailsOthers ==
    ASSUME TypeOK, NEW r \in Req, NEW failures, Fails(r, failures)
    PROVE  Others(r)
  BY RaiseOthers DEF Fails

LEMMA StepOthers ==
    ASSUME TypeOK, NEW r \in Req, Step(r)
    PROVE  Others(r)
  <1>1. ASSUME Miss(r) PROVE Others(r)
    BY <1>1, FailsOthers DEF Miss, Others, TypeOK
  <1>2. ASSUME Authenticated(r), UNCHANGED <<now, key, cred, requested_at, cache,
               setex>>, \A q \in Req \ {r} : served'[q] = served[q]
        PROVE  Others(r)
    BY <1>2 DEF Authenticated, Others, TypeOK
  <1>3. CASE RedisGet(r) \/ LockGranted(r) \/ TokenIssued(r) \/ PublishReturns(r)
    BY <1>3 DEF RedisGet, LockGranted, TokenIssued, PublishReturns, Others, TypeOK
  <1>4. CASE ReadReturns(r)
    BY <1>1, <1>2, <1>4 DEF ReadReturns, TypeOK
  <1>5. CASE ReadFails(r) \/ WriteReturns(r)
    BY <1>1, <1>2, <1>5 DEF ReadFails, WriteReturns
  <1>6. CASE ReadTimesOut(r) \/ MintTimesOut(r) \/ DeadlineExpires(r)
    BY <1>6, RaiseOthers DEF ReadTimesOut, MintTimesOut, DeadlineExpires
  <1>7. CASE IdentityReturns(r)
    BY <1>7, RaiseOthers, FailsOthers DEF IdentityReturns, Others, TypeOK
  <1>8. CASE FetchReturns(r)
    BY <1>8, RaiseOthers, FailsOthers DEF FetchReturns, StartWrite, Others, TypeOK
  <1>9. CASE AssumeReturns(r) \/ ProveReturns(r)
    BY <1>9, FailsOthers DEF AssumeReturns, ProveReturns, Others, TypeOK
  <1>10. CASE ExchangeReturns(r)
    BY <1>10, FailsOthers DEF ExchangeReturns, StartWrite, Others, TypeOK
  <1>11. QED
    BY <1>3, <1>4, <1>5, <1>6, <1>7, <1>8, <1>9, <1>10 DEF Step

-----------------------------------------------------------------------------
(* The bounds that carry a token's expiry from the exchange through the    *)
(* SETEX in flight, the entry and the GET to the answer.  A request        *)
(* between timers never outlives its timer; a command in flight is at most *)
(* WriteLag old; and each hop adds its own delay to the last moment at     *)
(* which the token may be seen.                                            *)
TokenBounds(r) ==
    /\ requested_at[r] <= now
    /\ pc[r] \in Timed => now <= due[r]
    /\ pc[r] \in Reading => due[r] <= now + ReadTimeout
    /\ served[r] => pc[r] \in {"publish", "done"}
    /\ pc[r] = "exchange_back" =>
          /\ cred[r].kind = "minted"
          /\ cred[r].expires_at <= cred[r].valid_until
    /\ setex[r].ttl > 0 => now <= setex[r].sent + WriteLag
    /\ setex[r].ttl > 0 /\ setex[r].cred.kind = "minted" =>
          setex[r].ttl + setex[r].sent + Margin <= setex[r].cred.valid_until
    /\ pc[r] \in ReadBack /\ cred[r].kind = "minted" =>
          due[r] + Margin < cred[r].valid_until + WriteLag + ReadTimeout
    /\ pc[r] = "publish" /\ served[r] /\ cred[r].kind = "minted" =>
          due[r] < cred[r].valid_until

EntryBound(k) ==
    cache[k].cred.kind = "minted" =>
        cache[k].exp + Margin <= cache[k].cred.valid_until + WriteLag

TokenInv == /\ \A r \in Req : TokenBounds(r)
            /\ \A k \in Key : EntryBound(k)

(* The numbers behind TokenBounds.                                         *)
LEMMA Numbers ==
    ASSUME TypeOK, NEW r \in Req
    PROVE  /\ now \in Nat /\ due[r] \in Nat /\ requested_at[r] \in Nat
           /\ cred[r].valid_until \in Nat /\ cred[r].expires_at \in Nat
           /\ setex[r].ttl \in Nat /\ setex[r].sent \in Nat
           /\ setex[r].cred.valid_until \in Nat
  BY DEF TypeOK, Credential, Write

(* A request that has been answered, or whose locals did not change,       *)
(* satisfies its bounds.                                                   *)
LEMMA RaiseBounds ==
    ASSUME TypeOK, NEW r \in Req, NEW exc, NEW why, Raise(r, exc, why),
           TokenBounds(r)
    PROVE  TokenBounds(r)'
  <1>1. /\ pc'[r] = "done" /\ setex' = setex /\ now' = now
        /\ requested_at' = requested_at
    BY DEF Raise, TypeOK
  <1>2. QED
    BY <1>1 DEF TokenBounds, Timed, Reading, ReadBack, Minting

LEMMA FailsBounds ==
    ASSUME TypeOK, NEW r \in Req, NEW failures, Fails(r, failures),
           TokenBounds(r)
    PROVE  TokenBounds(r)'
  BY RaiseBounds DEF Fails

LEMMA AuthenticatedBounds ==
    ASSUME TypeOK, NEW r \in Req, TokenBounds(r), Authenticated(r),
           UNCHANGED <<now, cred, requested_at, setex>>,
           served'[r] /\ cred[r].kind = "minted" =>
              now + PublishTimeout < cred[r].valid_until
    PROVE  TokenBounds(r)'
  <1>1. CASE r \in Ws
    <2>1. pc'[r] = "done"
      BY <1>1 DEF Authenticated, TypeOK
    <2>2. QED
      BY <2>1 DEF TokenBounds, Timed, Reading, ReadBack, Minting
  <1>2. CASE r \notin Ws
    <2>1. pc'[r] = "publish" /\ due'[r] = now + PublishTimeout
      BY <1>2 DEF Authenticated, TypeOK
    <2>2. QED
      BY <2>1, Numbers, TimingAssumption
      DEF TokenBounds, Timed, Reading, ReadBack, Minting
  <1>3. QED
    BY <1>1, <1>2

LEMMA StartWriteBounds ==
    ASSUME TypeOK, NEW r \in Req, NEW c \in Credential, TokenBounds(r),
           StartWrite(r, c), UNCHANGED <<now, requested_at, served>>,
           c.kind = "minted" => c.expires_at <= c.valid_until,
           pc[r] \notin {"publish", "done"}
    PROVE  TokenBounds(r)'
  <1> DEFINE ttl == IF c.kind = "minted"
                    THEN effective_cache_ttl(c.expires_at, now)
                    ELSE stored_key_ttl(expiration(key[r][1]), now)
  <1>1. /\ pc'[r] = "write" /\ due'[r] = now + WriteTimeout /\ cred'[r] = c
        /\ setex'[r] = IF ttl <= 0 THEN NoWrite
                       ELSE [cred |-> c, ttl |-> ttl, sent |-> now]
    BY DEF StartWrite, TypeOK
  <1>2. now \in Nat /\ c.expires_at \in Nat /\ c.valid_until \in Nat
    BY DEF TypeOK, Credential
  <1>3. c.kind = "minted" /\ ttl > 0 => ttl + now + Margin <= c.expires_at
    BY <1>2, EffectiveTtl
  <1>4. setex'[r].ttl \in Nat
    BY StartWriteType DEF Write
  <1> HIDE DEF ttl
  <1>5. /\ setex'[r].ttl > 0 => now <= setex'[r].sent + WriteLag
        /\ setex'[r].ttl > 0 /\ setex'[r].cred.kind = "minted" =>
              setex'[r].ttl + setex'[r].sent + Margin <= setex'[r].cred.valid_until
    <2>1. CASE ttl <= 0
      BY <1>1, <2>1 DEF NoWrite
    <2>2. CASE ~(ttl <= 0)
      <3>1. setex'[r] = [cred |-> c, ttl |-> ttl, sent |-> now]
        BY <1>1, <2>2
      <3>2. ttl \in Nat
        BY <1>4, <3>1
      <3>3. QED
        BY <1>2, <1>3, <3>1, <3>2, <2>2, TimingAssumption, PolicyAssumption
    <2>3. QED
      BY <2>1, <2>2
  <1>6. QED
    BY <1>1, <1>2, <1>5, TimingAssumption
    DEF TokenBounds, Timed, Reading, ReadBack, Minting

LEMMA StepBounds ==
    ASSUME TypeOK, TokenInv, NEW r \in Req, Step(r)
    PROVE  TokenBounds(r)'
  <1> USE Numbers, TimingAssumption DEF Timed, Reading, ReadBack, Minting
  <1>0. TokenBounds(r)
    BY DEF TokenInv
  <1>1. CASE RedisGet(r)
    <2> DEFINE e == cache[key[r]]
    <2>1. /\ pc[r] \in Reading /\ pc'[r] \in ReadBack /\ due' = due /\ now' = now
          /\ served' = served /\ setex' = setex /\ requested_at' = requested_at
          /\ cred'[r] = IF Live(e) THEN e.cred ELSE NoCred
      BY <1>1 DEF RedisGet, TypeOK, generate_cache_key
    <2>2. e \in Entry /\ EntryBound(key[r])
      BY DEF TypeOK, TokenInv
    <2>3. e.exp \in Nat /\ e.cred.valid_until \in Nat
      BY <2>2 DEF Entry, Credential
    <2>4. cred'[r].kind = "minted" =>
            due'[r] + Margin < cred'[r].valid_until + WriteLag + ReadTimeout
      <3>1. CASE Live(e)
        BY <1>0, <2>1, <2>2, <2>3, <3>1, PolicyAssumption
        DEF TokenBounds, EntryBound, Live
      <3>2. CASE ~Live(e)
        BY <2>1, <3>2 DEF NoCred
      <3>3. QED
        BY <3>1, <3>2
    <2> HIDE DEF e
    <2>5. QED
      BY <1>0, <2>1, <2>4 DEF TokenBounds
  <1>2. ASSUME Miss(r) PROVE TokenBounds(r)'
    <2>1. CASE Fails(r, RoleFailures)
      BY <1>0, <2>1, FailsBounds
    <2>2. CASE /\ pc[r] \in {"read", "read_back"}
               /\ pc' = [pc EXCEPT ![r] = "identity"]
               /\ UNCHANGED <<now, due, cred, served, requested_at, setex>>
      <3>1. pc'[r] = "identity"
        BY <2>2 DEF TypeOK
      <3>2. QED
        BY <1>0, <2>2, <3>1 DEF TokenBounds
    <2>3. CASE /\ pc[r] \in {"reread", "reread_back"}
               /\ pc' = [pc EXCEPT ![r] = "assume"]
               /\ due' = [due EXCEPT ![r] = now + MintDeadline]
               /\ UNCHANGED <<now, cred, served, requested_at, setex>>
      <3>1. pc'[r] = "assume" /\ due'[r] = now + MintDeadline
        BY <2>3 DEF TypeOK
      <3>2. QED
        BY <1>0, <2>3, <3>1 DEF TokenBounds
    <2>4. QED
      BY <1>2, <2>1, <2>2, <2>3 DEF Miss
  <1>3. CASE ReadReturns(r)
    <2>1. CASE Miss(r)
      BY <1>2, <2>1
    <2>2. CASE ~Miss(r)
      <3>1. /\ pc[r] \in ReadBack /\ Authenticated(r)
            /\ UNCHANGED <<now, cred, requested_at, setex>>
        BY <1>3, <2>2 DEF ReadReturns
      <3>2. cred[r].kind = "minted" => now + PublishTimeout < cred[r].valid_until
        BY <1>0, <3>1, MarginAssumption, PolicyAssumption DEF TokenBounds
      <3>3. QED
        BY <1>0, <3>1, <3>2, AuthenticatedBounds
    <2>3. QED
      BY <2>1, <2>2
  <1>4. CASE ReadFails(r)
    BY <1>2, <1>4 DEF ReadFails
  <1>5. CASE ReadTimesOut(r) \/ MintTimesOut(r) \/ DeadlineExpires(r)
    BY <1>0, <1>5, RaiseBounds DEF ReadTimesOut, MintTimesOut, DeadlineExpires
  <1>6. ASSUME NEW to \in {"fetch", "prove", "waiting"},
               to = "prove" => pc[r] \in Minting,
               pc[r] \notin {"publish", "done"},
               pc' = [pc EXCEPT ![r] = to],
               UNCHANGED <<now, due, cred, served, requested_at, setex>>
        PROVE  TokenBounds(r)'
    <2>1. pc'[r] = to
      BY <1>6 DEF TypeOK
    <2>2. QED
      BY <1>0, <1>6, <2>1 DEF TokenBounds
  <1>7. CASE IdentityReturns(r)
    BY <1>0, <1>6, <1>7, RaiseBounds, FailsBounds DEF IdentityReturns
  <1>8. ASSUME pc' = [pc EXCEPT ![r] = "reread"],
               pc[r] \notin {"publish", "done"},
               due' = [due EXCEPT ![r] = now + ReadTimeout],
               UNCHANGED <<now, cred, served, requested_at, setex>>
        PROVE  TokenBounds(r)'
    <2>1. pc'[r] = "reread" /\ due'[r] = now + ReadTimeout
      BY <1>8 DEF TypeOK
    <2>2. QED
      BY <1>0, <1>8, <2>1 DEF TokenBounds
  <1>9. CASE FetchReturns(r)
    <2>1. CASE Fails(r, FetchFailures)
      BY <1>0, <2>1, FailsBounds
    <2>2. CASE Raise(r, "AuthenticationError", "host_mismatch")
      BY <1>0, <2>2, RaiseBounds
    <2>3. CASE StartWrite(r, StoredKey) /\ UNCHANGED <<now, requested_at, served>>
      <3>1. StoredKey \in Credential /\ StoredKey.kind = "stored"
        BY DEF StoredKey, TypeOK, NoCred, Credential
      <3>2. QED
        BY <1>0, <1>9, <2>3, <3>1, StartWriteBounds DEF FetchReturns
    <2>4. CASE /\ pc[r] = "fetch"
               /\ \/ /\ pc' = [pc EXCEPT ![r] = "reread"]
                     /\ due' = [due EXCEPT ![r] = now + ReadTimeout]
                  \/ /\ pc' = [pc EXCEPT ![r] = "waiting"]
                     /\ UNCHANGED due
               /\ UNCHANGED <<now, cred, served, requested_at, setex>>
      BY <1>6, <1>8, <2>4
    <2>5. QED
      BY <1>9, <2>1, <2>2, <2>3, <2>4 DEF FetchReturns
  <1>10. CASE LockGranted(r)
    BY <1>8, <1>10 DEF LockGranted
  <1>11. CASE AssumeReturns(r)
    BY <1>0, <1>6, <1>11, FailsBounds DEF AssumeReturns
  <1>12. CASE ProveReturns(r)
    <2>1. CASE Fails(r, ProveFailures)
      BY <1>0, <2>1, FailsBounds
    <2>2. CASE ~Fails(r, ProveFailures)
      <3>1. /\ pc[r] = "prove" /\ pc'[r] = "exchange" /\ requested_at'[r] = now
            /\ UNCHANGED <<now, due, cred, served, setex>>
        BY <1>12, <2>2 DEF ProveReturns, TypeOK
      <3>2. QED
        BY <1>0, <3>1 DEF TokenBounds
    <2>3. QED
      BY <2>1, <2>2
  <1>13. CASE TokenIssued(r)
    <2>1. PICK expires_in \in Lifetimes, counted_from \in {requested_at[r], now} :
             cred' = [cred EXCEPT ![r] = minted_token(counted_from, expires_in)]
      BY <1>13 DEF TokenIssued
    <2>2. /\ cred'[r].kind = "minted"
          /\ cred'[r].expires_at = counted_from + expires_in
          /\ cred'[r].valid_until = now + expires_in
          /\ expires_in \in Nat
      BY <2>1 DEF minted_token, TypeOK
    <2>3. /\ pc[r] = "exchange" /\ pc'[r] = "exchange_back"
          /\ UNCHANGED <<now, due, served, setex, requested_at>>
      BY <1>13 DEF TokenIssued, TypeOK
    <2>4. cred'[r].expires_at <= cred'[r].valid_until
      BY <1>0, <2>2 DEF TokenBounds
    <2>5. QED
      BY <1>0, <2>2, <2>3, <2>4 DEF TokenBounds
  <1>14. CASE ExchangeReturns(r)
    <2>1. CASE Fails(r, ExchangeFailures)
      BY <1>0, <2>1, FailsBounds
    <2>2. CASE ~Fails(r, ExchangeFailures)
      <3>1. cred[r] \in Credential
        BY DEF TypeOK
      <3>2. cred[r].kind = "minted" => cred[r].expires_at <= cred[r].valid_until
        BY <1>0, <1>14, <2>2 DEF TokenBounds, ExchangeReturns
      <3>3. QED
        BY <1>0, <1>14, <2>2, <3>1, <3>2, StartWriteBounds DEF ExchangeReturns
    <2>3. QED
      BY <2>1, <2>2
  <1>15. CASE WriteReturns(r)
    <2>1. ~served'[r]
      BY <1>0, <1>15 DEF TokenBounds, WriteReturns
    <2>2. QED
      BY <1>0, <1>15, <2>1, AuthenticatedBounds DEF WriteReturns
  <1>16. CASE PublishReturns(r)
    <2>1. pc'[r] = "done" /\ UNCHANGED <<now, due, cred, served, setex, requested_at>>
      BY <1>16 DEF PublishReturns, TypeOK
    <2>2. QED
      BY <1>0, <2>1 DEF TokenBounds
  <1>17. QED
    BY <1>1, <1>3, <1>4, <1>5, <1>7, <1>9, <1>10, <1>11, <1>12, <1>13, <1>14,
       <1>15, <1>16 DEF Step

LEMMA NextBounds == TypeOK /\ TokenInv /\ [Next]_vars => TokenInv'
  <1> SUFFICES ASSUME TypeOK, TokenInv, [Next]_vars PROVE TokenInv'
    OBVIOUS
  <1> USE DEF Timed, Reading, ReadBack, Minting
  <1>1. ASSUME NEW r \in Req, Others(r), TokenBounds(r)' PROVE TokenInv'
    <2>1. \A q \in Req \ {r} : TokenBounds(q)'
      BY <1>1 DEF TokenInv, TokenBounds, Others
    <2>2. \A k \in Key : EntryBound(k)'
      BY <1>1 DEF TokenInv, EntryBound, Others
    <2>3. QED
      BY <1>1, <2>1, <2>2 DEF TokenInv
  <1>2. ASSUME NEW r \in Req, Arrive(r) PROVE TokenInv'
    <2>1. Others(r)
      BY <1>2 DEF Arrive, Others, TypeOK
    <2>2. /\ pc[r] = "idle"
          /\ \/ pc'[r] = "read" /\ due'[r] = now + ReadTimeout
             \/ pc'[r] = "done"
          /\ UNCHANGED <<now, cred, served, setex, requested_at>>
      BY <1>2 DEF Arrive, TypeOK
    <2>3. TokenBounds(r)'
      BY <2>2, Numbers, TimingAssumption DEF TokenInv, TokenBounds
    <2>4. QED
      BY <1>1, <2>1, <2>3
  <1>3. ASSUME NEW r \in Req, Step(r) PROVE TokenInv'
    BY <1>1, <1>3, StepOthers, StepBounds
  <1>4. ASSUME NEW r \in Req, RedisSetex(r) PROVE TokenInv'
    <2>1. /\ setex[r].ttl > 0 /\ TokenBounds(r)
          /\ cache' = [cache EXCEPT ![key[r]] =
                [cred |-> setex[r].cred, exp |-> now + setex[r].ttl]]
          /\ setex' = [setex EXCEPT ![r] = NoWrite]
          /\ UNCHANGED <<now, pc, due, cred, served, requested_at>>
      BY <1>4 DEF RedisSetex, TokenInv, generate_cache_key
    <2>2. \A k \in Key : EntryBound(k)'
      <3> SUFFICES ASSUME NEW k \in Key PROVE EntryBound(k)'
        OBVIOUS
      <3>1. CASE k = key[r]
        <4>1. cache'[k] = [cred |-> setex[r].cred, exp |-> now + setex[r].ttl]
          BY <2>1, <3>1 DEF TypeOK
        <4>2. QED
          BY <2>1, <4>1, Numbers, TimingAssumption, PolicyAssumption
          DEF TokenBounds, EntryBound
      <3>2. CASE k # key[r]
        <4>1. cache'[k] = cache[k]
          BY <2>1, <3>2 DEF TypeOK
        <4>2. QED
          BY <4>1 DEF TokenInv, EntryBound
      <3>3. QED
        BY <3>1, <3>2
    <2>3. ASSUME NEW q \in Req PROVE TokenBounds(q)'
      <3>1. CASE q = r
        <4>1. setex'[q] = NoWrite
          BY <2>1, <3>1 DEF TypeOK
        <4>2. QED
          BY <2>1, <3>1, <4>1 DEF TokenBounds, NoWrite
      <3>2. CASE q # r
        <4>1. setex'[q] = setex[q]
          BY <2>1, <3>2 DEF TypeOK
        <4>2. QED
          BY <2>1, <4>1 DEF TokenInv, TokenBounds
      <3>3. QED
        BY <3>1, <3>2
    <2>4. QED
      BY <2>2, <2>3 DEF TokenInv
  <1>5. ASSUME NEW r \in Req, LoseSetex(r) PROVE TokenInv'
    <2>1. /\ UNCHANGED <<now, pc, due, cred, served, requested_at, cache>>
          /\ setex' = [setex EXCEPT ![r] = NoWrite]
      BY <1>5 DEF LoseSetex
    <2>2. \A q \in Req : setex'[q] \in {setex[q], NoWrite}
      BY <2>1 DEF TypeOK
    <2>3. \A q \in Req : TokenBounds(q)'
      BY <2>1, <2>2 DEF TokenInv, TokenBounds, NoWrite
    <2>4. QED
      BY <2>1, <2>3 DEF TokenInv, EntryBound
  <1>6. CASE flush_all
    <2>1. \A r \in Req : TokenBounds(r)'
      BY <1>6 DEF flush_all, TokenInv, TokenBounds
    <2>2. \A k \in Key : EntryBound(k)'
      BY <1>6 DEF flush_all, EntryBound, NoEntry, NoCred
    <2>3. QED
      BY <2>1, <2>2 DEF TokenInv
  <1>7. CASE Tick
    <2>1. ASSUME NEW r \in Req PROVE TokenBounds(r)'
      <3>1. /\ now' = now + 1
            /\ UNCHANGED <<pc, due, cred, served, requested_at, setex>>
            /\ pc[r] \in Timed => now < due[r]
            /\ setex[r].ttl > 0 => now < setex[r].sent + WriteLag
        BY <1>7 DEF Tick
      <3>2. TokenBounds(r)
        BY DEF TokenInv
      <3>3. QED
        BY <3>1, <3>2, Numbers, TimingAssumption DEF TokenBounds
    <2>2. \A k \in Key : EntryBound(k)'
      <3>1. \A k \in Key : cache'[k] \in {cache[k], NoEntry}
        BY <1>7 DEF Tick
      <3>2. QED
        BY <3>1 DEF TokenInv, EntryBound, NoEntry, NoCred
    <2>3. QED
      BY <2>1, <2>2 DEF TokenInv
  <1>8. CASE UNCHANGED vars
    BY <1>8 DEF vars, TokenInv, TokenBounds, EntryBound
  <1>9. QED
    BY <1>2, <1>3, <1>4, <1>5, <1>6, <1>7, <1>8 DEF Next, Idle

LEMMA TokenInvariant == Spec => []TokenInv
  <1>1. Init => TokenInv
    BY TimingAssumption
    DEF Init, TokenInv, TokenBounds, EntryBound, Timed, Reading, ReadBack,
        Minting, NoEntry, NoWrite, NoCred
  <1>2. QED
    BY <1>1, NextBounds, TypeCorrect, PTL DEF Spec

(* A minted token that Redis returned has not expired at the provider when *)
(* its request is answered, as long as the safety margin covers a late     *)
(* cache write, the cache read's timeout and the publication's             *)
(* (MarginAssumption): 60 s against 8 s and the delay of the write.        *)
THEOREM CachedTokensAreLive == Spec => []ServedTokenLive
  <1>1. TypeOK /\ TokenInv => ServedTokenLive
    <2> SUFFICES ASSUME TypeOK, TokenInv, NEW r \in Req, HoldsCachedToken(r)
                 PROVE  now < cred[r].valid_until
      BY DEF ServedTokenLive
    <2>1. TokenBounds(r)
      BY DEF TokenInv
    <2>2. QED
      BY <2>1, Numbers, TimingAssumption, MarginAssumption, PolicyAssumption
      DEF TokenBounds, HoldsCachedToken, Timed, ReadBack
  <1>2. QED
    BY <1>1, TokenInvariant, TypeCorrect, PTL

-----------------------------------------------------------------------------
(* The host restriction travels with everything that can end in a success: *)
(* entries and writes in flight under a key, requests past the secret's    *)
(* validation, hits on their way back, and successful answers.             *)
HostBounds(r) ==
    \/ HostAllowed(key[r])
    \/ /\ setex[r].ttl = 0
       /\ pc[r] \in {"idle", "read", "read_back", "identity", "fetch", "done"}
       /\ pc[r] = "read_back" => cred[r].kind = "none"
       /\ reply[r] \notin {200, 1000}

HostInv == /\ \A r \in Req : HostBounds(r)
           /\ \A k \in Key : cache[k].cred.kind # "none" => HostAllowed(k)

LEMMA RaiseHost ==
    ASSUME TypeOK, NEW r \in Req, NEW exc \in Exceptions, NEW why,
           Raise(r, exc, why), HostBounds(r)
    PROVE  HostBounds(r)'
  <1>1. reply'[r] \notin {200, 1000} /\ pc'[r] = "done" /\ UNCHANGED <<key, setex>>
    BY FailureAnswers DEF Raise, TypeOK
  <1>2. QED
    BY <1>1 DEF HostBounds, HostAllowed

LEMMA FailsHost ==
    ASSUME TypeOK, NEW r \in Req, NEW failures, Fails(r, failures),
           \A f \in DOMAIN failures : failures[f] \in Exceptions, HostBounds(r)
    PROVE  HostBounds(r)'
  <1>1. PICK f \in DOMAIN failures \cap Faults : Raise(r, failures[f], f)
    BY DEF Fails
  <1>2. QED
    BY <1>1, RaiseHost

LEMMA StepHost ==
    ASSUME TypeOK, HostInv, NEW r \in Req, Step(r)
    PROVE  HostBounds(r)'
  <1>0. HostBounds(r) /\ key' = key
    BY StepOthers DEF HostInv, Others
  <1>1. CASE HostAllowed(key[r])
    BY <1>0, <1>1 DEF HostBounds, HostAllowed
  <1>2. CASE ~HostAllowed(key[r])
    <2>1. /\ setex[r].ttl = 0 /\ reply[r] \notin {200, 1000}
          /\ pc[r] \in {"idle", "read", "read_back", "identity", "fetch", "done"}
          /\ pc[r] = "read_back" => cred[r].kind = "none"
      BY <1>0, <1>2 DEF HostBounds
    <2>2. ASSUME NEW to \in {"identity", "fetch"}, pc' = [pc EXCEPT ![r] = to],
                 UNCHANGED <<setex, reply>>
          PROVE  HostBounds(r)'
      <3>1. pc'[r] = to
        BY <2>2 DEF TypeOK
      <3>2. QED
        BY <2>1, <2>2, <3>1 DEF HostBounds
    <2>3. CASE RedisGet(r)
      <3>1. /\ pc[r] = "read" /\ pc'[r] = "read_back" /\ UNCHANGED <<setex, reply>>
            /\ cred'[r] = IF Live(cache[key[r]]) THEN cache[key[r]].cred ELSE NoCred
        BY <2>1, <2>3 DEF RedisGet, Reading, TypeOK, generate_cache_key
      <3>2. cache[key[r]].cred.kind = "none"
        BY <1>2 DEF HostInv, TypeOK
      <3>3. cred'[r].kind = "none"
        BY <3>1, <3>2 DEF NoCred
      <3>4. QED
        BY <2>1, <3>1, <3>3 DEF HostBounds
    <2>4. ASSUME Miss(r) PROVE HostBounds(r)'
      BY <2>1, <2>2, <2>4 DEF Miss
    <2>5. CASE ReadReturns(r)
      BY <2>1, <2>4, <2>5 DEF ReadReturns, ReadBack
    <2>6. CASE ReadFails(r)
      BY <2>4, <2>6 DEF ReadFails
    <2>7. CASE ReadTimesOut(r) \/ MintTimesOut(r) \/ DeadlineExpires(r)
      BY <1>0, <2>7, RaiseHost
      DEF ReadTimesOut, MintTimesOut, DeadlineExpires, Exceptions
    <2>8. CASE IdentityReturns(r)
      <3>1. CASE Fails(r, IdentityFailures)
        BY <1>0, <3>1, FailsHost, FailureTables
      <3>2. CASE Raise(r, "CredentialsError", "sts_expired")
        BY <1>0, <3>2, RaiseHost DEF Exceptions
      <3>3. QED
        BY <2>2, <2>8, <3>1, <3>2 DEF IdentityReturns
    <2>9. CASE FetchReturns(r)
      <3>1. CASE Fails(r, FetchFailures)
        BY <1>0, <3>1, FailsHost, FailureTables
      <3>2. CASE Raise(r, "AuthenticationError", "host_mismatch")
        BY <1>0, <3>2, RaiseHost DEF Exceptions
      <3>3. QED
        BY <1>2, <2>9, <3>1, <3>2 DEF FetchReturns
    <2>10. QED
      BY <2>1, <2>3, <2>5, <2>6, <2>7, <2>8, <2>9
      DEF Step, LockGranted, AssumeReturns, ProveReturns, TokenIssued,
          ExchangeReturns, WriteReturns, PublishReturns
  <1>3. QED
    BY <1>1, <1>2

LEMMA NextHost == TypeOK /\ HostInv /\ [Next]_vars => HostInv'
  <1> SUFFICES ASSUME TypeOK, HostInv, [Next]_vars PROVE HostInv'
    OBVIOUS
  <1>1. ASSUME NEW r \in Req, Others(r), HostBounds(r)' PROVE HostInv'
    <2>1. \A q \in Req \ {r} : HostBounds(q)'
      BY <1>1 DEF HostInv, HostBounds, HostAllowed, Others
    <2>2. QED
      BY <1>1, <2>1 DEF HostInv, HostAllowed, Others
  <1>2. ASSUME NEW r \in Req, Arrive(r) PROVE HostInv'
    <2>1. Others(r)
      BY <1>2 DEF Arrive, Others, TypeOK
    <2>2. /\ pc'[r] \in {"read", "done"} /\ UNCHANGED <<key, setex>>
          /\ reply'[r] = reply[r] \/ reply'[r] \notin {200, 1000}
      BY <1>2, FailureAnswers DEF Arrive, TypeOK, Exceptions
    <2>3. pc[r] = "idle" /\ HostBounds(r)
      BY <1>2 DEF Arrive, HostInv
    <2>4. HostBounds(r)'
      BY <2>2, <2>3 DEF HostBounds, HostAllowed
    <2>5. QED
      BY <1>1, <2>1, <2>4
  <1>3. ASSUME NEW r \in Req, Step(r) PROVE HostInv'
    BY <1>1, <1>3, StepOthers, StepHost
  <1>4. ASSUME NEW r \in Req, RedisSetex(r) PROVE HostInv'
    <2>1. /\ HostAllowed(key[r])
          /\ cache' = [cache EXCEPT ![key[r]] =
                [cred |-> setex[r].cred, exp |-> now + setex[r].ttl]]
          /\ setex' = [setex EXCEPT ![r] = NoWrite]
          /\ UNCHANGED <<key, pc, cred, reply>>
      BY <1>4 DEF RedisSetex, HostInv, HostBounds, generate_cache_key
    <2>2. \A k \in Key : k # key[r] => cache'[k] = cache[k]
      BY <2>1 DEF TypeOK
    <2>3. \A q \in Req : q # r => setex'[q] = setex[q]
      BY <2>1 DEF TypeOK
    <2>4. \A q \in Req : HostBounds(q)'
      BY <2>1, <2>3 DEF HostInv, HostBounds, HostAllowed
    <2>5. \A k \in Key : cache'[k].cred.kind # "none" => HostAllowed(k)
      BY <2>1, <2>2 DEF HostInv
    <2>6. QED
      BY <2>4, <2>5 DEF HostInv, HostAllowed
  <1>5. ASSUME NEW r \in Req, LoseSetex(r) PROVE HostInv'
    <2>1. /\ UNCHANGED <<key, pc, cred, reply, cache>>
          /\ \A q \in Req : setex'[q] \in {setex[q], NoWrite}
      BY <1>5 DEF LoseSetex, TypeOK
    <2>2. \A q \in Req : HostBounds(q)'
      BY <2>1 DEF HostInv, HostBounds, HostAllowed, NoWrite
    <2>3. QED
      BY <2>1, <2>2 DEF HostInv, HostAllowed
  <1>6. CASE flush_all \/ Tick \/ UNCHANGED vars
    <2>1. /\ UNCHANGED <<key, pc, cred, reply, setex>>
          /\ \A k \in Key : cache'[k] \in {cache[k], NoEntry}
      BY <1>6 DEF flush_all, Tick, vars
    <2>2. \A q \in Req : HostBounds(q)'
      BY <2>1 DEF HostInv, HostBounds, HostAllowed
    <2>3. QED
      BY <2>1, <2>2 DEF HostInv, HostAllowed, NoEntry, NoCred
  <1>7. QED
    BY <1>2, <1>3, <1>4, <1>5, <1>6 DEF Next, Idle

(* No request is ever answered with a key whose secret is restricted to    *)
(* another host than its proxy's target, even when the answer comes from   *)
(* the shared cache and the secret is not looked at again (validate_secret *)
(* and generate_cache_key).                                                *)
THEOREM KeysStayOnTheirHost == Spec => []HostRestriction
  <1>1. Init => HostInv
    BY DEF Init, HostInv, HostBounds, NoEntry, NoWrite, NoCred
  <1>2. HostInv => HostRestriction
    BY DEF HostInv, HostBounds, HostRestriction
  <1>3. QED
    BY <1>1, <1>2, NextHost, TypeCorrect, PTL DEF Spec

-----------------------------------------------------------------------------
(* Where a cached result comes from: a step of a request sends a SETEX     *)
(* only with the stored key it has just fetched or the token whose         *)
(* exchange has just returned, receives a token only from the provider,    *)
(* and otherwise leaves the commands in flight alone.                      *)
Sends(r) ==
    /\ pc[r] # "exchange_back" => StartWrite(r, StoredKey)
    /\ pc[r] = "exchange_back" => StartWrite(r, cred[r])

Provenance(r) ==
    /\ UNCHANGED <<epoch, quiet>>
    /\ \/ UNCHANGED setex /\ pc'[r] # "exchange_back"
       \/ UNCHANGED setex /\ TokenIssued(r)
       \/ Sends(r)

LEMMA RaiseProvenance ==
    ASSUME TypeOK, NEW r \in Req, NEW exc, NEW why, Raise(r, exc, why)
    PROVE  Provenance(r)
  BY DEF Raise, Provenance, TypeOK, flushes

LEMMA FailsProvenance ==
    ASSUME TypeOK, NEW r \in Req, NEW failures, Fails(r, failures)
    PROVE  Provenance(r)
  BY RaiseProvenance DEF Fails

LEMMA StepProvenance ==
    ASSUME TypeOK, NEW r \in Req, Step(r)
    PROVE  Provenance(r)
  <1>1. ASSUME Miss(r) PROVE Provenance(r)
    BY <1>1, FailsProvenance DEF Miss, Provenance, TypeOK, flushes
  <1>2. ASSUME Authenticated(r), UNCHANGED <<setex, flushes>>
        PROVE  Provenance(r)
    BY <1>2 DEF Authenticated, Provenance, TypeOK, flushes
  <1>3. CASE RedisGet(r) \/ LockGranted(r) \/ PublishReturns(r)
    BY <1>3 DEF RedisGet, Reading, LockGranted, PublishReturns, Provenance,
                TypeOK, flushes
  <1>4. CASE TokenIssued(r)
    <2>1. UNCHANGED <<setex, epoch, quiet>>
      BY <1>4 DEF TokenIssued, flushes
    <2>2. QED
      BY <1>4, <2>1 DEF Provenance
  <1>5. CASE ReadReturns(r) \/ ReadFails(r) \/ WriteReturns(r)
    BY <1>1, <1>2, <1>5 DEF ReadReturns, ReadFails, WriteReturns
  <1>6. CASE ReadTimesOut(r) \/ MintTimesOut(r) \/ DeadlineExpires(r)
    BY <1>6, RaiseProvenance DEF ReadTimesOut, MintTimesOut, DeadlineExpires
  <1>7. CASE IdentityReturns(r)
    BY <1>7, RaiseProvenance, FailsProvenance
    DEF IdentityReturns, Provenance, TypeOK, flushes
  <1>8. CASE FetchReturns(r)
    <2>1. CASE Fails(r, FetchFailures) \/ Raise(r, "AuthenticationError", "host_mismatch")
      BY <2>1, RaiseProvenance, FailsProvenance
    <2>2. CASE StartWrite(r, StoredKey) /\ UNCHANGED flushes
      BY <1>8, <2>2 DEF FetchReturns, Provenance, Sends, flushes
    <2>3. CASE /\ pc'[r] \in {"reread", "waiting"}
               /\ UNCHANGED <<setex, flushes>>
      BY <2>3 DEF Provenance, flushes
    <2>4. QED
      BY <1>8, <2>1, <2>2, <2>3 DEF FetchReturns, TypeOK
  <1>9. CASE AssumeReturns(r) \/ ProveReturns(r)
    BY <1>9, FailsProvenance DEF AssumeReturns, ProveReturns, Provenance, TypeOK, flushes
  <1>10. CASE ExchangeReturns(r)
    <2>1. CASE Fails(r, ExchangeFailures)
      BY <2>1, FailsProvenance
    <2>2. CASE ~Fails(r, ExchangeFailures)
      BY <1>10, <2>2 DEF ExchangeReturns, Provenance, Sends, flushes
    <2>3. QED
      BY <2>1, <2>2
  <1>11. QED
    BY <1>3, <1>4, <1>5, <1>6, <1>7, <1>8, <1>9, <1>10 DEF Step

(* What StartWrite puts on the way to Redis.                               *)
LEMMA StartWriteSends ==
    ASSUME TypeOK, NEW r \in Req, NEW c, StartWrite(r, c)
    PROVE  /\ pc'[r] = "write"
           /\ setex'[r].ttl > 0 =>
                /\ setex'[r].cred = c /\ setex'[r].sent = now
                /\ setex'[r].ttl = IF c.kind = "minted"
                                   THEN effective_cache_ttl(c.expires_at, now)
                                   ELSE stored_key_ttl(expiration(key[r][1]), now)
  <1> DEFINE ttl == IF c.kind = "minted"
                    THEN effective_cache_ttl(c.expires_at, now)
                    ELSE stored_key_ttl(expiration(key[r][1]), now)
  <1>1. /\ pc'[r] = "write"
        /\ setex'[r] = IF ttl <= 0 THEN NoWrite
                       ELSE [cred |-> c, ttl |-> ttl, sent |-> now]
    BY DEF StartWrite, TypeOK
  <1> HIDE DEF ttl
  <1>2. /\ pc'[r] = "write"
        /\ setex'[r].ttl > 0 => /\ setex'[r].cred = c /\ setex'[r].sent = now
                                /\ setex'[r].ttl = ttl
    BY <1>1 DEF NoWrite
  <1>3. QED
    BY <1>2 DEF ttl

-----------------------------------------------------------------------------
(* A SETEX of a stored key carries a ttl that ends, counted from its       *)
(* sending, no later than the credentials, if the payload nests their      *)
(* expiry.                                                                 *)
Dated(p) == p \in Nested /\ ExpiresAt[p] # NoExpiry

StoredWrite(r) ==
    setex[r].ttl > 0 /\ setex[r].cred.kind = "stored" /\ Dated(key[r][1]) =>
        setex[r].ttl + setex[r].sent <= ExpiresAt[key[r][1]]

StoredEntry(k) ==
    cache[k].cred.kind = "stored" /\ Dated(k[1]) =>
        cache[k].exp <= ExpiresAt[k[1]] + WriteLag

StoredInv == /\ \A r \in Req : StoredWrite(r)
             /\ \A k \in Key : StoredEntry(k)

(* A positive ttl of a stored key ends exactly at the nested expiry.       *)
LEMMA StoredTtl ==
    ASSUME NEW p \in Payload, Dated(p), NEW t \in Nat,
           stored_key_ttl(expiration(p), t) > 0
    PROVE  stored_key_ttl(expiration(p), t) + t = ExpiresAt[p]
  <1>1. ExpiresAt[p] \in Nat /\ expiration(p) = ExpiresAt[p]
    BY AuthAssumption DEF Dated, expiration
  <1>2. stored_key_ttl(expiration(p), t) = AtLeastZero(ExpiresAt[p] - t)
    BY <1>1 DEF stored_key_ttl, seconds_until_expiration, Dated
  <1>3. QED
    BY <1>1, <1>2 DEF AtLeastZero

LEMMA NextStored ==
    TypeOK /\ TokenInv /\ StoredInv /\ [Next]_vars => StoredInv'
  <1> SUFFICES ASSUME TypeOK, TokenInv, StoredInv, [Next]_vars PROVE StoredInv'
    OBVIOUS
  <1>0. \A r \in Req : key[r] \in Key /\ key[r][1] \in Payload
    BY DEF TypeOK, Key
  <1>1. ASSUME NEW r \in Req, Others(r), StoredWrite(r)' PROVE StoredInv'
    <2>1. \A q \in Req \ {r} : StoredWrite(q)'
      BY <1>1 DEF StoredInv, StoredWrite, Others
    <2>2. \A k \in Key : StoredEntry(k)'
      BY <1>1 DEF StoredInv, StoredEntry, Others
    <2>3. QED
      BY <1>1, <2>1, <2>2 DEF StoredInv
  <1>2. ASSUME NEW r \in Req, Arrive(r) PROVE StoredInv'
    <2>1. Others(r) /\ UNCHANGED <<setex, key>>
      BY <1>2 DEF Arrive, Others, TypeOK
    <2>2. QED
      BY <1>1, <2>1 DEF StoredInv, StoredWrite
  <1>3. ASSUME NEW r \in Req, Step(r) PROVE StoredInv'
    <2>1. Others(r) /\ Provenance(r)
      BY <1>3, StepOthers, StepProvenance
    <2>2. CASE UNCHANGED setex
      BY <1>1, <2>1, <2>2 DEF StoredInv, StoredWrite, Others
    <2>3. CASE Sends(r)
      <3>1. CASE pc[r] = "exchange_back"
        <4>1. StartWrite(r, cred[r]) /\ cred[r].kind = "minted"
          BY <2>3, <3>1 DEF Sends, TokenInv, TokenBounds
        <4>2. setex'[r].ttl > 0 => setex'[r].cred.kind = "minted"
          BY <4>1, StartWriteSends
        <4>3. QED
          BY <1>1, <2>1, <4>2 DEF StoredWrite
      <3>2. CASE pc[r] # "exchange_back"
        <4>1. StartWrite(r, StoredKey) /\ StoredKey.kind = "stored"
          BY <2>3, <3>2 DEF Sends, StoredKey, NoCred
        <4>2. setex'[r].ttl > 0 =>
                /\ setex'[r].sent = now
                /\ setex'[r].ttl = stored_key_ttl(expiration(key[r][1]), now)
          BY <4>1, StartWriteSends
        <4>3. key' = key /\ now \in Nat /\ key[r][1] \in Payload
          BY <1>0, <2>1 DEF Others, TypeOK
        <4>4. StoredWrite(r)'
          <5> SUFFICES ASSUME setex'[r].ttl > 0, Dated(key[r][1])
                       PROVE  setex'[r].ttl + setex'[r].sent <= ExpiresAt[key[r][1]]
            BY <4>3 DEF StoredWrite, Dated
          <5>1. setex'[r].ttl + setex'[r].sent = ExpiresAt[key[r][1]]
            BY <4>2, <4>3, StoredTtl
          <5>2. ExpiresAt[key[r][1]] \in Nat
            BY <4>3, AuthAssumption DEF Dated
          <5>3. QED
            BY <5>1, <5>2
        <4>5. QED
          BY <1>1, <2>1, <4>4
      <3>3. QED
        BY <3>1, <3>2
    <2>4. QED
      BY <2>1, <2>2, <2>3 DEF Provenance
  <1>4. ASSUME NEW r \in Req, RedisSetex(r) PROVE StoredInv'
    <2>1. /\ setex[r].ttl > 0 /\ now <= setex[r].sent + WriteLag /\ StoredWrite(r)
          /\ cache' = [cache EXCEPT ![key[r]] =
                [cred |-> setex[r].cred, exp |-> now + setex[r].ttl]]
          /\ setex' = [setex EXCEPT ![r] = NoWrite]
          /\ UNCHANGED key
      BY <1>4 DEF RedisSetex, TokenInv, TokenBounds, StoredInv, generate_cache_key
    <2>2. ASSUME NEW k \in Key PROVE StoredEntry(k)'
      <3>1. CASE k = key[r]
        <4>1. cache'[k] = [cred |-> setex[r].cred, exp |-> now + setex[r].ttl]
          BY <2>1, <3>1 DEF TypeOK
        <4>2. Dated(k[1]) => ExpiresAt[k[1]] \in Nat
          BY <1>0, <3>1, AuthAssumption DEF Dated
        <4>3. QED
          BY <2>1, <3>1, <4>1, <4>2, Numbers, TimingAssumption
          DEF StoredWrite, StoredEntry, Dated
      <3>2. CASE k # key[r]
        <4>1. cache'[k] = cache[k]
          BY <2>1, <3>2 DEF TypeOK
        <4>2. QED
          BY <4>1 DEF StoredInv, StoredEntry, Dated
      <3>3. QED
        BY <3>1, <3>2
    <2>3. \A q \in Req : setex'[q] \in {setex[q], NoWrite}
      BY <2>1 DEF TypeOK
    <2>4. \A q \in Req : StoredWrite(q)'
      BY <2>1, <2>3 DEF StoredInv, StoredWrite, Dated, NoWrite
    <2>5. QED
      BY <2>2, <2>4 DEF StoredInv
  <1>5. ASSUME NEW r \in Req, LoseSetex(r) PROVE StoredInv'
    <2>1. /\ UNCHANGED <<key, cache>>
          /\ \A q \in Req : setex'[q] \in {setex[q], NoWrite}
      BY <1>5 DEF LoseSetex, TypeOK
    <2>2. QED
      BY <2>1 DEF StoredInv, StoredWrite, StoredEntry, Dated, NoWrite
  <1>6. CASE flush_all \/ Tick \/ UNCHANGED vars
    <2>1. /\ UNCHANGED <<key, setex>>
          /\ \A k \in Key : cache'[k] \in {cache[k], NoEntry}
      BY <1>6 DEF flush_all, Tick, vars
    <2>2. QED
      BY <2>1 DEF StoredInv, StoredWrite, StoredEntry, Dated, NoEntry, NoCred
  <1>7. QED
    BY <1>2, <1>3, <1>4, <1>5, <1>6 DEF Next, Idle

(* A stored key leaves Redis with the credentials that fetched it, at most *)
(* the write's delay later, if the payload nests their expiry: the ttl     *)
(* that _write_cache computes is spent from the moment the SETEX is sent.  *)
THEOREM NestedExpiryKept == Spec => []NestedExpiryRespected
  <1>1. Init => StoredInv
    BY DEF Init, StoredInv, StoredWrite, StoredEntry, NoEntry, NoWrite, NoCred
  <1>2. StoredInv => NestedExpiryRespected
    BY DEF StoredInv, StoredEntry, Dated, NestedExpiryRespected, HoldsStoredKey
  <1>3. QED
    BY <1>1, <1>2, NextStored, TokenInvariant, TypeCorrect, PTL DEF Spec

-----------------------------------------------------------------------------
(* A flush reaches Redis only: tokens and commands on their way survive    *)
(* it.  If there were none, every token that is on its way later, every    *)
(* command and every entry dates from after the flush.                     *)
FreshInv ==
    quiet => /\ \A r \in Req : setex[r].ttl > 0 => setex[r].cred.epoch = epoch
             /\ \A r \in Req : pc[r] = "exchange_back" => cred[r].epoch = epoch
             /\ QuietFlushEffective

LEMMA NextFresh == TypeOK /\ FreshInv /\ [Next]_vars => FreshInv'
  <1> SUFFICES ASSUME TypeOK, FreshInv, [Next]_vars, quiet' PROVE FreshInv'
    BY DEF FreshInv
  <1>1. ASSUME NEW r \in Req, Others(r), UNCHANGED <<epoch, quiet>>,
               setex'[r].ttl > 0 => setex'[r].cred.epoch = epoch,
               pc'[r] = "exchange_back" => cred'[r].epoch = epoch
        PROVE  FreshInv'
    <2>1. \A q \in Req \ {r} : /\ setex'[q].ttl > 0 => setex'[q].cred.epoch = epoch
                               /\ pc'[q] = "exchange_back" => cred'[q].epoch = epoch
      BY <1>1 DEF FreshInv, Others
    <2>2. QuietFlushEffective'
      BY <1>1 DEF FreshInv, QuietFlushEffective, Live, Others
    <2>3. QED
      BY <1>1, <2>1, <2>2 DEF FreshInv
  <1>2. ASSUME NEW r \in Req, Arrive(r) PROVE FreshInv'
    <2>1. Others(r) /\ UNCHANGED <<setex, epoch, quiet>> /\ pc'[r] # "exchange_back"
      BY <1>2 DEF Arrive, Others, TypeOK
    <2>2. QED
      BY <1>1, <2>1 DEF FreshInv
  <1>3. ASSUME NEW r \in Req, Step(r) PROVE FreshInv'
    <2>1. Others(r) /\ Provenance(r) /\ UNCHANGED <<epoch, quiet>>
      BY <1>3, StepOthers, StepProvenance DEF Provenance
    <2>2. CASE UNCHANGED setex /\ pc'[r] # "exchange_back"
      BY <1>1, <2>1, <2>2 DEF FreshInv
    <2>3. CASE UNCHANGED setex /\ TokenIssued(r)
      <3>1. cred'[r].epoch = epoch
        BY <2>3 DEF TokenIssued, minted_token, TypeOK
      <3>2. QED
        BY <1>1, <2>1, <2>3, <3>1 DEF FreshInv
    <2>4. CASE Sends(r)
      <3>1. CASE pc[r] = "exchange_back"
        BY <1>1, <2>1, <2>4, <3>1, StartWriteSends DEF FreshInv, Sends
      <3>2. CASE pc[r] # "exchange_back"
        <4>1. StartWrite(r, StoredKey) /\ StoredKey.epoch = epoch
          BY <2>4, <3>2 DEF Sends, StoredKey, NoCred
        <4>2. QED
          BY <1>1, <2>1, <4>1, StartWriteSends
      <3>3. QED
        BY <3>1, <3>2
    <2>5. QED
      BY <2>1, <2>2, <2>3, <2>4 DEF Provenance
  <1>4. ASSUME NEW r \in Req, RedisSetex(r) PROVE FreshInv'
    <2>1. /\ setex[r].ttl > 0 /\ UNCHANGED <<now, pc, cred, epoch, quiet>>
          /\ cache' = [cache EXCEPT ![key[r]] =
                [cred |-> setex[r].cred, exp |-> now + setex[r].ttl]]
          /\ setex' = [setex EXCEPT ![r] = NoWrite]
      BY <1>4 DEF RedisSetex, generate_cache_key, flushes
    <2>2. \A q \in Req : setex'[q] \in {setex[q], NoWrite}
      BY <2>1 DEF TypeOK
    <2>3. \A k \in Key : \/ cache'[k] = cache[k]
                         \/ cache'[k].cred = setex[r].cred
      BY <2>1 DEF TypeOK
    <2>4. QuietFlushEffective'
      BY <2>1, <2>3 DEF FreshInv, QuietFlushEffective, Live
    <2>5. QED
      BY <2>1, <2>2, <2>4 DEF FreshInv, NoWrite
  <1>5. ASSUME NEW r \in Req, LoseSetex(r) PROVE FreshInv'
    <2>1. /\ UNCHANGED <<now, pc, cred, cache, epoch, quiet>>
          /\ \A q \in Req : setex'[q] \in {setex[q], NoWrite}
      BY <1>5 DEF LoseSetex, TypeOK, flushes
    <2>2. QED
      BY <2>1 DEF FreshInv, QuietFlushEffective, Live, NoWrite
  <1>6. CASE flush_all
    <2>1. /\ \A r \in Req : pc'[r] # "exchange_back" /\ setex'[r] = NoWrite
          /\ \A k \in Key : cache'[k] = NoEntry
      BY <1>6 DEF flush_all, Active, Timed, Minting
    <2>2. now' \in Nat
      BY <1>6 DEF flush_all, TypeOK
    <2>3. QuietFlushEffective'
      BY <2>1, <2>2 DEF QuietFlushEffective, Live, NoEntry
    <2>4. QED
      BY <2>1, <2>3 DEF FreshInv, NoWrite
  <1>7. CASE Tick
    <2>1. /\ UNCHANGED <<pc, cred, setex, epoch, quiet>> /\ now' = now + 1
          /\ \A k \in Key : \/ now + 1 < cache[k].exp /\ cache'[k] = cache[k]
                            \/ cache'[k] = NoEntry
      BY <1>7 DEF Tick, flushes
    <2>2. now \in Nat /\ \A k \in Key : cache[k].exp \in Nat
      BY DEF TypeOK, Entry
    <2>3. QuietFlushEffective'
      BY <2>1, <2>2 DEF FreshInv, QuietFlushEffective, Live, NoEntry
    <2>4. QED
      BY <2>1, <2>3 DEF FreshInv
  <1>8. CASE UNCHANGED vars
    BY <1>8 DEF vars, flushes, FreshInv, QuietFlushEffective, Live
  <1>9. QED
    BY <1>2, <1>3, <1>4, <1>5, <1>6, <1>7, <1>8 DEF Next, Idle

(* After POST /cache/flush has found no request and no command in flight,  *)
(* everything Redis ever holds until the next flush rests on an AWS round  *)
(* trip made after it.  (MCFlushRace shows that the premise is needed.)    *)
THEOREM QuietFlushHolds == Spec => []QuietFlushEffective
  <1>1. Init => FreshInv
    BY DEF Init, FreshInv, QuietFlushEffective, Live, NoEntry, NoWrite
  <1>2. FreshInv => QuietFlushEffective
    BY DEF FreshInv, QuietFlushEffective
  <1>3. QED
    BY <1>1, <1>2, NextFresh, TypeCorrect, PTL DEF Spec

=============================================================================
