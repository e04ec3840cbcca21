---------------------------- MODULE MCAuthService ----------------------------
(* Constants of the model-checked instances of AuthService.                *)
EXTENDS AuthService, TLC

CONSTANTS r1, r2, r3, q1, p1, p2, t1, t2

TwoRequests == {r1, r2}
ThreeRequests == {r1, r2, r3}

(* All requests reach one process.                                         *)
OneProcess == [r \in Req |-> q1]

AllMinted == [p \in Payload |-> "minted"]
AllStored == [p \in Payload |-> "stored"]
StoredAndMinted == [p \in Payload |-> IF p = p1 THEN "stored" ELSE "minted"]
NoHosts   == [p \in Payload |-> None]
FirstHost == [p \in Payload |-> t1]
NeverExpires == [p \in Payload |-> NoExpiry]
ExpireAt4 == [p \in Payload |-> 4]
FirstExpires == [p \in Payload |-> IF p = p1 THEN 3 ELSE NoExpiry]

Symmetry == Permutations(Req)

CacheFaults == {"redis_error", "redis_timeout", "setex_error", "setex_lost"}
AllFaults == CacheFaults \cup {"payload_invalid"} \cup
    UNION {DOMAIN f : f \in {IdentityFailures, FetchFailures, RoleFailures,
                             AssumeFailures, ProveFailures, ExchangeFailures}}
=============================================================================
