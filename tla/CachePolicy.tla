----------------------------- MODULE CachePolicy -----------------------------
(***************************************************************************)
(* How long an authentication result may stay in Redis.  Pure operators    *)
(* translated from services/cache_service.py, services/auth_service.py     *)
(* (_write_cache) and models.py (AwsCredentials).  Times are whole seconds *)
(* on one clock; int() in the code truncates towards zero, which on whole  *)
(* seconds is the identity.                                                *)
(***************************************************************************)
EXTENDS Integers

CONSTANTS Margin,          \* TOKEN_EXPIRY_SAFETY_MARGIN_SECONDS (60)
          CacheDuration,   \* CACHE_DURATION, config.redis.cache_duration
          NoExpiry         \* AwsCredentials.expiration = None

ASSUME PolicyAssumption ==
    /\ Margin \in Nat
    /\ CacheDuration \in Nat \ {0}
    /\ NoExpiry \notin Int

AtLeastZero(n) == IF n < 0 THEN 0 ELSE n

AtMost(n, bound) == IF n < bound THEN n ELSE bound

(* Changed on purpose: the definitions named "mutated" are forms a bug     *)
(* could take, kept to show that the properties would notice it.           *)
mutated_effective_cache_ttl(token_expires_at, now) ==
    AtLeastZero(AtMost(token_expires_at - now - (Margin - 1), CacheDuration))

(* Seconds a minted token may stay cached: never past Margin seconds       *)
(* before it expires, 0 meaning "do not cache".                            *)
effective_cache_ttl(token_expires_at, now) ==
    AtLeastZero(AtMost(token_expires_at - now - Margin, CacheDuration))

(* Seconds until the caller's credentials expire, if that is known.        *)
seconds_until_expiration(expiration, now) ==
    IF expiration = NoExpiry THEN NoExpiry ELSE AtLeastZero(expiration - now)

mutated_stored_key_ttl(expiration, now) == CacheDuration

(* The ttl override of cache_auth_response: None means the configured      *)
(* duration, and an entry whose ttl is 0 is not written at all.            *)
stored_key_ttl(expiration, now) ==
    IF expiration = NoExpiry THEN CacheDuration
                             ELSE seconds_until_expiration(expiration, now)
=============================================================================
