----------------------------- MODULE EnvoyFilter -----------------------------
(***************************************************************************)
(* The HTTP path of the proxy and its audit trail: the Lua filter          *)
(* (proxy/lua.lua, proxy_utils/portunus.lua), the six /log endpoints       *)
(* (app.py) and the publishing of their records (publish_service.py).      *)
(*                                                                         *)
(* The filter runs without interruption between the calls that yield:      *)
(* body(), the synchronous httpCall and bodyChunks().  The asynchronous    *)
(* httpCalls of the audit log do not yield; each of them is from then on a *)
(* process of its own, which outlives the stream.  A header value is a     *)
(* sequence of tokens, a prefix one as well; bodies are their lengths.     *)
(* The backend's side of /authorise is AuthService, an upgraded stream is  *)
(* WsRelay.                                                                *)
(***************************************************************************)
EXTENDS BodyChunking, FiniteSets

CONSTANTS Stream,         \* the requests
          Header,         \* header names, in lower case
          Token,          \* what header values are made of
          Bearer,         \* the token "Bearer "
          Key,            \* the api_key that /authorise answers with
          None,           \* an absent header, an absent field
          Authorization,  \* the header "authorization"
          ApiKeyHeader,   \* API_KEY_HEADER of this proxy
          ApiKeyPrefix,   \* API_KEY_PREFIX
          KnownAuth,      \* KNOWN_AUTH_HEADERS
          Configured,     \* parts whose Kinesis stream is configured
          Requests,       \* bound: the header maps that clients send
          Answers,        \* bound: output_header and output_prefix of answers
          BodySizes,      \* bound: sizes of request bodies
          Pieces,         \* bound: sizes of the pieces of a response
          MaxResponse     \* bound: size of a response

Value == Seq(Token)
HeaderMap == [Header -> Value \cup {None}]

RequestParts  == <<"request_body", "request_headers", "request_trailers">>
ResponseParts == <<"response_body", "response_headers", "response_trailers">>
Part     == {"request_body", "request_headers", "request_trailers",
             "response_body", "response_headers", "response_trailers"}
BodyPart == {"request_body", "response_body"}

(* The key occurs in a header's value.                                     *)
Carries(v) == v # None /\ \E i \in 1 .. Len(v) : v[i] = Key

(* A client has no way to know the key that the proxy puts in.             *)
ASSUME FilterAssumption ==
    /\ {Bearer, Key} \subseteq Token
    /\ None \notin Value
    /\ None \notin Header
    /\ {Authorization, ApiKeyHeader} \cup KnownAuth \subseteq Header
    /\ ApiKeyPrefix \in Value
    /\ Requests \subseteq {m \in HeaderMap : \A h \in Header : ~Carries(m[h])}
    /\ Answers \subseteq [output_header : Header \cup {None},
                          output_prefix : Value \cup {None}]
    /\ BodySizes \subseteq Nat
    /\ Pieces \subseteq Nat
    /\ MaxResponse \in Nat

VARIABLES
    pc,         \* where the stream is
    headers,    \* the request's headers, which the filter rewrites
    body,       \* the request's body
    origin,     \* the request's Origin is one that CORS_ALLOWED_ORIGINS names
    cors_origin,\* dynamic metadata cors_origin is set
    payload,    \* what the pending /authorise call carries
    granted,    \* dynamic metadata request_id is set
    upstream,   \* the header that carries the key
    forwarded,  \* the request has gone to the target
    reply,      \* status of the reply, and what put the CORS headers on it
    delivered,  \* bytes of the reply's body the client has been sent
    logged,     \* the headers in the request headers log call
    call,       \* progress of each audit call
    records     \* records of each part in Kinesis

origins == <<origin, cors_origin>>
stream == <<pc, headers, body, origins, payload, granted, upstream, forwarded,
            reply, delivered, logged>>
audit  == <<call, records>>
vars   == <<stream, audit>>

NoHeaders == [h \in Header |-> None]

Init ==
    /\ pc = [s \in Stream |-> "new"]
    /\ headers = [s \in Stream |-> NoHeaders]
    /\ body = [s \in Stream |-> 0]
    /\ origin \in [Stream -> BOOLEAN]
    /\ cors_origin = [s \in Stream |-> FALSE]
    /\ payload = [s \in Stream |-> None]
    /\ granted = [s \in Stream |-> FALSE]
    /\ upstream = [s \in Stream |-> None]
    /\ forwarded = [s \in Stream |-> FALSE]
    /\ reply = [s \in Stream |-> None]
    /\ delivered = [s \in Stream |-> 0]
    /\ logged = [s \in Stream |-> NoHeaders]
    /\ call = [s \in Stream |-> [p \in Part |-> "none"]]
    /\ records = [s \in Stream |-> [p \in Part |-> <<>>]]

-----------------------------------------------------------------------------
(* Definitions named "mutated" are a later definition with a plausible     *)
(* bug, kept to show that the properties would notice it.                  *)

(* accepted_auth: the provider's own header and Authorization: Bearer; if  *)
(* they are the same header, the provider's prefix governs it.             *)
accepted_auth ==
    [h \in {ApiKeyHeader, Authorization} |->
        IF h = ApiKeyHeader THEN ApiKeyPrefix ELSE <<Bearer>>]

Accepted == {ApiKeyHeader, Authorization}

credential_headers == KnownAuth \cup Accepted

Starts(v, prefix) ==
    Len(v) >= Len(prefix) /\ SubSeq(v, 1, Len(prefix)) = prefix

mutated_extract_auth_payload(hs) ==
    LET present == {h \in Accepted : hs[h] # None}
        first == IF ApiKeyHeader \in present THEN ApiKeyHeader ELSE Authorization
    IN  IF \A h \in present : Starts(hs[h], accepted_auth[h])
        THEN {SubSeq(hs[h], Len(accepted_auth[h]) + 1, Len(hs[h])) :
                 h \in present \cap {first}}
        ELSE {}

(* The payload of the accepted headers that are present, as a set of one   *)
(* element; the empty set is an error: a header without its prefix, two    *)
(* different payloads, or no header.                                       *)
extract_auth_payload(hs) ==
    LET present == {h \in Accepted : hs[h] # None}
        candidates == {SubSeq(hs[h], Len(accepted_auth[h]) + 1, Len(hs[h])) :
                          h \in present}
    IN  IF /\ \A h \in present : Starts(hs[h], accepted_auth[h])
           /\ \A x, y \in candidates : x = y
        THEN candidates ELSE {}

mutated_upstream_header(a) == a.output_header

(* resolve_upstream_auth: the answer's header and prefix, or this proxy's. *)
upstream_header(a) ==
    IF a.output_header = None THEN ApiKeyHeader ELSE a.output_header

upstream_value(a) ==
    (IF a.output_prefix = None THEN ApiKeyPrefix ELSE a.output_prefix) \o <<Key>>

mutated_apply_upstream_auth(hs, a) ==
    [h \in Header |->
        IF h = upstream_header(a) THEN upstream_value(a)
        ELSE IF h = ApiKeyHeader THEN None ELSE hs[h]]

(* Every accepted header is removed, the upstream one replaced.            *)
apply_upstream_auth(hs, a) ==
    [h \in Header |->
        IF h = upstream_header(a) THEN upstream_value(a)
        ELSE IF h \in Accepted THEN None ELSE hs[h]]

mutated_strip_credential_headers(hs, up) ==
    [h \in Header |-> IF h \in credential_headers THEN None ELSE hs[h]]

strip_credential_headers(hs, up) ==
    [h \in Header |->
        IF h \in credential_headers \cup {up} THEN None ELSE hs[h]]

-----------------------------------------------------------------------------
(* _async_log for the first n of three parts: httpCall either starts the   *)
(* call or raises, which is caught, and the call is lost.                  *)
AsyncLog(s, parts, n) ==
    \E raised \in SUBSET {parts[i] : i \in 1 .. n} :
        call' = [call EXCEPT ![s] = [p \in Part |->
                    IF p \in raised THEN "lost"
                    ELSE IF p \in {parts[i] : i \in 1 .. n} THEN "sent"
                    ELSE call[s][p]]]

(* Whether the request's Origin is one that CORS_ALLOWED_ORIGINS names.     *)
get_allowed_origin(s) == origin[s]

(* What has put the CORS headers on a reply: the headers given to          *)
(* respond(), or the response handler, from the metadata.                  *)
CorsBy(given, noted) ==
    {m \in {"respond", "metadata"} : \/ m = "respond" /\ given
                                     \/ m = "metadata" /\ noted}

mutated_envoy_on_response(s, status, given, grant) ==
    /\ reply' = [reply EXCEPT ![s] = [status |-> status,
                                      cors |-> CorsBy(given, cors_origin[s])]]
    /\ pc' = [pc EXCEPT ![s] = "streaming"]

(* envoy_on_response up to bodyChunks(), which every reply passes through, *)
(* the filter's own and Envoy's as well: it adds the CORS headers if the   *)
(* metadata names an origin, and goes on to log if a request_id is set.    *)
envoy_on_response(s, status, given, grant) ==
    /\ reply' = [reply EXCEPT ![s] = [status |-> status,
                                      cors |-> CorsBy(given, cors_origin[s])]]
    /\ pc' = [pc EXCEPT ![s] = IF grant THEN "streaming" ELSE "done"]

mutated_send_error_response(s, status, grant) ==
    envoy_on_response(s, status, FALSE, grant)

(* An error reply of the filter names the allowed origin by itself.        *)
send_error_response(s, status, grant) ==
    envoy_on_response(s, status, get_allowed_origin(s), grant)

(* The early returns of envoy_on_request: /ping, before the origin is      *)
(* looked at, a WebSocket upgrade, and an OPTIONS request from an allowed  *)
(* origin.                                                                 *)
Ping(s) ==
    /\ pc[s] = "new"
    /\ envoy_on_response(s, 200, FALSE, FALSE)
    /\ UNCHANGED <<headers, body, origins, payload, granted, upstream,
                   forwarded, delivered, logged, audit>>

Upgrade(s) ==
    /\ pc[s] = "new"
    /\ pc' = [pc EXCEPT ![s] = "relayed"]
    /\ UNCHANGED <<headers, body, origins, payload, granted, upstream,
                   forwarded, reply, delivered, logged, audit>>

Preflight(s) ==
    /\ pc[s] = "new"
    /\ get_allowed_origin(s)
    /\ envoy_on_response(s, 204, TRUE, FALSE)
    /\ UNCHANGED <<headers, body, origins, payload, granted, upstream,
                   forwarded, delivered, logged, audit>>

mutated_Arrive(s) ==
    /\ pc[s] = "new"
    /\ \E m \in Requests, n \in BodySizes :
          /\ headers' = [headers EXCEPT ![s] = m]
          /\ body' = [body EXCEPT ![s] = n]
    /\ pc' = [pc EXCEPT ![s] = "buffering"]
    /\ UNCHANGED <<origins, payload, granted, upstream, forwarded, reply,
                   delivered, logged, audit>>

(* Any other request: an allowed origin is noted in the metadata for the   *)
(* response handler, then body() yields.                                   *)
Arrive(s) ==
    /\ pc[s] = "new"
    /\ \E m \in Requests, n \in BodySizes :
          /\ headers' = [headers EXCEPT ![s] = m]
          /\ body' = [body EXCEPT ![s] = n]
    /\ cors_origin' = [cors_origin EXCEPT ![s] = get_allowed_origin(s)]
    /\ pc' = [pc EXCEPT ![s] = "buffering"]
    /\ UNCHANGED <<origin, payload, granted, upstream, forwarded, reply,
                   delivered, logged, audit>>

(* The body is too large for Envoy's buffer, which Envoy itself answers,   *)
(* or an error is raised before the authorisation.                         *)
BufferingFails(s) ==
    /\ pc[s] = "buffering"
    /\ \/ envoy_on_response(s, 413, FALSE, FALSE)
       \/ send_error_response(s, 500, FALSE)
    /\ UNCHANGED <<headers, body, origins, payload, granted, upstream,
                   forwarded, delivered, logged, audit>>

(* body() returns: the payload is extracted, and /authorise called.        *)
Buffered(s) ==
    /\ pc[s] = "buffering"
    /\ \/ /\ extract_auth_payload(headers[s]) = {}
          /\ send_error_response(s, 401, FALSE)
          /\ UNCHANGED payload
       \/ \E x \in extract_auth_payload(headers[s]) :
             /\ payload' = [payload EXCEPT ![s] = x]
             /\ pc' = [pc EXCEPT ![s] = "authorising"]
             /\ UNCHANGED reply
    /\ UNCHANGED <<headers, body, origins, granted, upstream, forwarded,
                   delivered, logged, audit>>

(* /authorise is unreachable (502), refuses (its status is passed on), or  *)
(* answers what cannot be parsed (500).                                    *)
Refusals == {403, 500, 502, 503}

AuthoriseFails(s) ==
    /\ pc[s] = "authorising"
    /\ \E status \in Refusals : send_error_response(s, status, FALSE)
    /\ payload' = [payload EXCEPT ![s] = None]
    /\ UNCHANGED <<headers, body, origins, granted, upstream, forwarded,
                   delivered, logged, audit>>

(* What is done with the answer up to and including the first n log calls. *)
Grant(s, a, n) ==
    LET up == upstream_header(a)
        hs == apply_upstream_auth(headers[s], a)
    IN  /\ granted' = [granted EXCEPT ![s] = TRUE]
        /\ headers' = [headers EXCEPT ![s] = hs]
        /\ upstream' = [upstream EXCEPT ![s] = up]
        /\ payload' = [payload EXCEPT ![s] = None]
        /\ AsyncLog(s, RequestParts, n)
        /\ logged' = [logged EXCEPT ![s] =
                         IF n >= 2 THEN strip_credential_headers(hs, up)
                                   ELSE @]

(* The filter returns, so Envoy sends the request on.                      *)
Authorised(s) ==
    /\ pc[s] = "authorising"
    /\ \E a \in Answers : Grant(s, a, 3)
    /\ forwarded' = [forwarded EXCEPT ![s] = TRUE]
    /\ pc' = [pc EXCEPT ![s] = "upstream"]
    /\ UNCHANGED <<body, origins, reply, delivered, records>>

mutated_AuthorisedRaises(s) ==
    /\ pc[s] = "authorising"
    /\ \E a \in Answers, n \in 0 .. 2 : Grant(s, a, n)
    /\ forwarded' = [forwarded EXCEPT ![s] = TRUE]
    /\ pc' = [pc EXCEPT ![s] = "upstream"]
    /\ UNCHANGED <<body, origins, reply, delivered, records>>

(* An error is raised after n of the log calls: the pcall catches it, and  *)
(* the client is answered 500 instead.                                     *)
AuthorisedRaises(s) ==
    /\ pc[s] = "authorising"
    /\ \E a \in Answers, n \in 0 .. 2 : Grant(s, a, n)
    /\ send_error_response(s, 500, TRUE)
    /\ UNCHANGED <<body, origins, forwarded, delivered, records>>

(* The target's reply, or Envoy's own when the target cannot be reached;   *)
(* 200 stands for any status, which the filter does not look at.           *)
UpstreamResponds(s) ==
    /\ pc[s] = "upstream"
    /\ envoy_on_response(s, 200, FALSE, TRUE)
    /\ UNCHANGED <<headers, body, origins, payload, granted, upstream,
                   forwarded, delivered, logged, audit>>

(* A piece of the reply's body passes through to the client.               *)
Piece(s) ==
    /\ pc[s] = "streaming"
    /\ \E n \in Pieces :
          /\ delivered[s] + n <= MaxResponse
          /\ delivered' = [delivered EXCEPT ![s] = @ + n]
    /\ UNCHANGED <<pc, headers, body, origins, payload, granted, upstream,
                   forwarded, reply, logged, audit>>

(* After the last piece the response is logged; an error on the way is     *)
(* caught and ends the logging.                                            *)
ResponseEnds(s) ==
    /\ pc[s] = "streaming"
    /\ \E n \in 0 .. 3 : AsyncLog(s, ResponseParts, n)
    /\ pc' = [pc EXCEPT ![s] = "done"]
    /\ UNCHANGED <<headers, body, origins, payload, granted, upstream,
                   forwarded, reply, delivered, logged, records>>

(* The client goes away or a connection is reset: Envoy destroys the       *)
(* stream and the filter's coroutine, wherever it waits.                   *)
Reset(s) ==
    /\ pc[s] \in {"buffering", "authorising", "upstream", "streaming"}
    /\ pc' = [pc EXCEPT ![s] = "reset"]
    /\ payload' = [payload EXCEPT ![s] = None]
    /\ UNCHANGED <<headers, body, origins, granted, upstream, forwarded, reply,
                   delivered, logged, audit>>

-----------------------------------------------------------------------------
(* The bytes that a body endpoint receives.                                *)
Posted(s, p) == IF p = "request_body" THEN body[s] ELSE delivered[s]

(* The records an endpoint has to publish, numbered as enumerate does;     *)
(* headers and trailers are one record each.                               *)
chunks(s, p) ==
    IF p \in BodyPart THEN body_chunks(Posted(s, p))
                      ELSE <<[from |-> 0, size |-> 0]>>

Record(s, p, k) ==
    [chunk_id   |-> k - 1,
     num_chunks |-> Len(chunks(s, p)),
     from       |-> chunks(s, p)[k].from,
     size       |-> chunks(s, p)[k].size]

(* put_record stores the record or not; an error may hide that it did.     *)
put_record(s, p, stored) ==
    records' = IF stored
               THEN [records EXCEPT ![s][p] =
                        Append(@, Record(s, p, Len(@) + 1))]
               ELSE records

Answer(s, p, status) == call' = [call EXCEPT ![s][p] = status]

mutated_publish(s, p) ==
    /\ call[s][p] \in {"sent", "publishing"}
    /\ IF p \notin Configured
       THEN Answer(s, p, "ok") /\ UNCHANGED records
       ELSE \/ /\ put_record(s, p, TRUE)
               /\ Answer(s, p,
                         IF Len(records[s][p]) + 1 = Len(chunks(s, p))
                         THEN "ok" ELSE "publishing")
            \/ /\ \E stored \in BOOLEAN : put_record(s, p, stored)
               /\ Answer(s, p, "ok")
    /\ UNCHANGED stream

(* The next record of an endpoint's loop.  A part without a stream is      *)
(* skipped and answered 200; the first failure ends the loop with 500.     *)
publish(s, p) ==
    /\ call[s][p] \in {"sent", "publishing"}
    /\ IF p \notin Configured
       THEN Answer(s, p, "ok") /\ UNCHANGED records
       ELSE \/ /\ put_record(s, p, TRUE)
               /\ Answer(s, p,
                         IF Len(records[s][p]) + 1 = Len(chunks(s, p))
                         THEN "ok" ELSE "publishing")
            \/ /\ \E stored \in BOOLEAN : put_record(s, p, stored)
               /\ Answer(s, p, "error")
    /\ UNCHANGED stream

log_request_headers(s)   == publish(s, "request_headers")
log_request_body(s)      == publish(s, "request_body")
log_request_trailers(s)  == publish(s, "request_trailers")
log_response_headers(s)  == publish(s, "response_headers")
log_response_body(s)     == publish(s, "response_body")
log_response_trailers(s) == publish(s, "response_trailers")

(* A log call does not reach its endpoint, or is refused there.            *)
Lost(s) ==
    /\ \E p \in Part : call[s][p] = "sent" /\ Answer(s, p, "lost")
    /\ UNCHANGED <<stream, records>>

Filter(s) ==
    \/ Ping(s) \/ Upgrade(s) \/ Preflight(s) \/ Arrive(s)
    \/ BufferingFails(s) \/ Buffered(s)
    \/ AuthoriseFails(s) \/ Authorised(s) \/ AuthorisedRaises(s)
    \/ UpstreamResponds(s) \/ Piece(s) \/ ResponseEnds(s) \/ Reset(s)

Endpoint(s) ==
    \/ log_request_headers(s) \/ log_request_body(s) \/ log_request_trailers(s)
    \/ log_response_headers(s) \/ log_response_body(s)
    \/ log_response_trailers(s) \/ Lost(s)

Next == \E s \in Stream : Filter(s) \/ Endpoint(s)

Spec == Init /\ [][Next]_vars

-----------------------------------------------------------------------------
(* Types of the filter's state, of the audit calls and of the records.     *)
TypeOK ==
    /\ pc \in [Stream -> {"new", "relayed", "buffering", "authorising",
                          "upstream", "streaming", "done", "reset"}]
    /\ headers \in [Stream -> HeaderMap]
    /\ body \in [Stream -> Nat]
    /\ origin \in [Stream -> BOOLEAN]
    /\ cors_origin \in [Stream -> BOOLEAN]
    /\ payload \in [Stream -> Value \cup {None}]
    /\ granted \in [Stream -> BOOLEAN]
    /\ upstream \in [Stream -> Header \cup {None}]
    /\ \A s \in Stream : granted[s] => upstream[s] \in Header
    /\ forwarded \in [Stream -> BOOLEAN]
    /\ reply \in [Stream -> [status : Nat,
                             cors : SUBSET {"respond", "metadata"}] \cup {None}]
    /\ delivered \in [Stream -> Nat]
    /\ logged \in [Stream -> HeaderMap]
    /\ call \in [Stream -> [Part -> {"none", "lost", "sent", "publishing",
                                     "ok", "error"}]]
    /\ records \in [Stream -> [Part -> Seq([chunk_id : Nat, num_chunks : Nat,
                                            from : Nat, size : Nat])]]

(* The filter never chooses between credentials: the payload it has        *)
(* authorised is the one behind the prefix of every accepted header that   *)
(* the client has sent.                                                    *)
NoGuessing ==
    \A s \in Stream : pc[s] = "authorising" =>
        /\ \E h \in Accepted : headers[s][h] # None
        /\ \A h \in Accepted :
              headers[s][h] \in {None, accepted_auth[h] \o payload[s]}

(* What the target receives carries the key in one header, and nothing of  *)
(* the client's in any of the headers in which a payload may arrive.       *)
CredentialSwapped ==
    \A s \in Stream : forwarded[s] =>
        /\ {h \in Header : Carries(headers[s][h])} = {upstream[s]}
        /\ \A h \in Accepted \ {upstream[s]} : headers[s][h] = None

(* The key is in no request header that is logged, and no request header   *)
(* in which a payload may arrive is logged at all, on the error paths too. *)
AuditHeadersClean ==
    \A s \in Stream, h \in Header :
        /\ ~Carries(logged[s][h])
        /\ h \in credential_headers => logged[s][h] = None

(* Nothing reaches the target before the three parts of the request have   *)
(* been handed to the audit log, whatever raises on the way.               *)
NothingForwardedUnaudited ==
    \A s \in Stream : forwarded[s] =>
        \A i \in 1 .. 3 : call[s][RequestParts[i]] # "none"

(* Only an authorised exchange leaves audit calls or records: the filter's *)
(* own replies (/ping, preflight, refusals) and upgrades leave none.       *)
AuditOnlyAuthorised ==
    \A s \in Stream, p \in Part :
        call[s][p] # "none" \/ records[s][p] # <<>> => granted[s]

(* The records of a part are the first of a numbering without gaps, they   *)
(* follow each other in the body, and once the endpoint has answered 200   *)
(* they are the whole of what went through the proxy.                      *)
AuditedBody ==
    \A s \in Stream, p \in Part :
        LET r == records[s][p]
            End(k) == r[k].from + r[k].size
        IN  /\ \A k \in 1 .. Len(r) :
                  /\ r[k].chunk_id = k - 1
                  /\ r[k].chunk_id < r[k].num_chunks
                  /\ r[k].num_chunks = r[1].num_chunks
                  /\ r[k].from = IF k = 1 THEN 0 ELSE End(k - 1)
            /\ (call[s][p] = "ok" /\ p \in Configured) =>
                  /\ Len(r) > 0
                  /\ Len(r) = r[1].num_chunks
                  /\ p \in BodyPart => End(Len(r)) = Posted(s, p)

(* A record's body in base64 leaves the 100 bytes that chunk_body_data     *)
(* sets aside for the rest of the record.                                  *)
RecordsFit ==
    \A s \in Stream, p \in Part : \A k \in 1 .. Len(records[s][p]) :
        b64len(records[s][p][k].size) + 100 <= MaxRecordSize

(* A reply to /ping, which the filter gives before it looks at the origin. *)
HealthCheck(s) == reply[s].status = 200 /\ ~granted[s]

(* Opt-in CORS: proxied and error responses to an allowed origin tell it   *)
(* so, whoever answers and at whichever yield, from the origin noted       *)
(* before the first of them; the filter's errors do without the response   *)
(* handler's help; and no other origin is ever told so (CORS of lua.lua).  *)
CorsForAllowedOrigins ==
    \A s \in Stream : reply[s] # None =>
        /\ reply[s].cors # {} => origin[s]
        /\ origin[s] /\ ~HealthCheck(s) => reply[s].cors # {}
        /\ origin[s] /\ reply[s].status \in {401} \cup Refusals =>
              "respond" \in reply[s].cors
=============================================================================
