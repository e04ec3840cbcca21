-------------------------- MODULE EnvoyFilterProofs --------------------------
(***************************************************************************)
(* Proofs about EnvoyFilter and BodyChunking, for any streams, headers,    *)
(* prefixes, answers and sizes: the credential is swapped before anything  *)
(* is forwarded, it is not logged, nothing is forwarded unaudited and      *)
(* nothing unauthorised is audited, and records fit.                       *)
(***************************************************************************)
EXTENDS EnvoyFilter, TLAPS

(* A chunk of at most safe_raw_chunk_size bytes fits its record.           *)
LEMMA ChunkFits ==
  ASSUME NEW n \in Int, n <= safe_raw_chunk_size
  PROVE  b64len(n) + 100 <= MaxRecordSize
  <1> DEFINE q == (MaxRecordSize - 100) \div 4
  <1>1. q \in Int /\ 4 * q <= MaxRecordSize - 100
    BY RecordAssumption
  <1>2. n <= 3 * q
    BY <1>1 DEF safe_raw_chunk_size
  <1>3. (n + 2) \div 3 \in Int /\ 3 * ((n + 2) \div 3) <= n + 2
    OBVIOUS
  <1> HIDE DEF q
  <1>4. (n + 2) \div 3 <= q
    BY <1>1, <1>2, <1>3
  <1>5. QED
    BY <1>1, <1>3, <1>4, RecordAssumption DEF b64len

(* The part of the state the proofs follow.                                *)
FilterType ==
    /\ pc \in [Stream -> {"new", "relayed", "buffering", "authorising",
                          "upstream", "streaming", "done", "reset"}]
    /\ headers \in [Stream -> HeaderMap]
    /\ granted \in [Stream -> BOOLEAN]
    /\ upstream \in [Stream -> Header \cup {None}]
    /\ forwarded \in [Stream -> BOOLEAN]
    /\ logged \in [Stream -> HeaderMap]
    /\ call \in [Stream -> [Part -> {"none", "lost", "sent", "publishing",
                                     "ok", "error"}]]

(* Before the answer of /authorise the headers are the client's and        *)
(* nothing has been forwarded or logged; after it the stream is granted.   *)
Phase ==
    \A s \in Stream :
        /\ pc[s] \in {"new", "buffering", "authorising"} =>
              /\ ~forwarded[s]
              /\ \A h \in Header : ~Carries(headers[s][h])
        /\ pc[s] \in {"upstream", "streaming"} => granted[s]

FilterInv == FilterType /\ Phase /\ CredentialSwapped /\ AuditHeadersClean
                        /\ NothingForwardedUnaudited

LEMMA UpstreamHeaderType ==
  ASSUME NEW a \in Answers
  PROVE  /\ upstream_header(a) \in Header
         /\ upstream_value(a) \in Value
         /\ Carries(upstream_value(a))
  <1>1. /\ a.output_header \in Header \cup {None}
        /\ a.output_prefix \in Value \cup {None}
    BY FilterAssumption
  <1>2. upstream_header(a) \in Header
    BY <1>1, FilterAssumption DEF upstream_header
  <1> DEFINE prefix == IF a.output_prefix = None THEN ApiKeyPrefix
                                                 ELSE a.output_prefix
  <1>3. prefix \in Seq(Token)
    BY <1>1, FilterAssumption DEF Value
  <1>4. Key \in Token
    BY FilterAssumption
  <1>5. upstream_value(a) = prefix \o <<Key>>
    BY DEF upstream_value
  <1> HIDE DEF prefix
  <1>6. /\ upstream_value(a) \in Value
        /\ Len(prefix) + 1 \in 1 .. Len(upstream_value(a))
        /\ upstream_value(a)[Len(prefix) + 1] = Key
    BY <1>3, <1>4, <1>5 DEF Value
  <1>7. QED
    BY <1>2, <1>6, FilterAssumption DEF Carries

(* apply_upstream_auth on headers without the key.                         *)
LEMMA Swapped ==
  ASSUME NEW hs \in HeaderMap, \A h \in Header : ~Carries(hs[h]),
         NEW a \in Answers
  PROVE  LET new == apply_upstream_auth(hs, a)
             up  == upstream_header(a)
         IN  /\ new \in HeaderMap
             /\ {h \in Header : Carries(new[h])} = {up}
             /\ \A h \in Accepted \ {up} : new[h] = None
             /\ strip_credential_headers(new, up) \in HeaderMap
             /\ \A h \in Header :
                   /\ ~Carries(strip_credential_headers(new, up)[h])
                   /\ h \in credential_headers =>
                         strip_credential_headers(new, up)[h] = None
  <1> DEFINE new == apply_upstream_auth(hs, a)
             up  == upstream_header(a)
  <1>1. up \in Header /\ upstream_value(a) \in Value /\ Carries(upstream_value(a))
    BY UpstreamHeaderType
  <1>2. ~Carries(None)
    BY DEF Carries
  <1>3. Accepted \subseteq Header
    BY FilterAssumption DEF Accepted
  <1>4. \A h \in Header :
           new[h] = IF h = up THEN upstream_value(a)
                    ELSE IF h \in Accepted THEN None ELSE hs[h]
    BY DEF apply_upstream_auth
  <1>5. new \in HeaderMap
    BY <1>1 DEF apply_upstream_auth, HeaderMap
  <1>6. \A h \in Header : Carries(new[h]) <=> h = up
    BY <1>1, <1>2, <1>4
  <1>7. {h \in Header : Carries(new[h])} = {up}
    BY <1>1, <1>6
  <1>8. \A h \in Accepted \ {up} : new[h] = None
    BY <1>3, <1>4
  <1> HIDE DEF new, up
  <1>9. strip_credential_headers(new, up) \in HeaderMap
    BY <1>5 DEF strip_credential_headers, HeaderMap
  <1>10. \A h \in Header :
            strip_credential_headers(new, up)[h] =
               IF h \in credential_headers \cup {up} THEN None ELSE new[h]
    BY DEF strip_credential_headers
  <1>11. \A h \in Header :
            /\ ~Carries(strip_credential_headers(new, up)[h])
            /\ h \in credential_headers =>
                  strip_credential_headers(new, up)[h] = None
    BY <1>2, <1>6, <1>10
  <1>12. QED
    BY <1>5, <1>7, <1>8, <1>9, <1>11 DEF new, up

LEMMA FilterInit == Init => FilterInv
  <1> SUFFICES ASSUME Init PROVE FilterInv
    OBVIOUS
  <1>1. ~Carries(None)
    BY DEF Carries
  <1>2. NoHeaders \in HeaderMap /\ \A h \in Header : NoHeaders[h] = None
    BY DEF NoHeaders, HeaderMap
  <1>3. FilterType
    BY <1>2 DEF Init, FilterType
  <1>4. Phase /\ CredentialSwapped /\ AuditHeadersClean /\ NothingForwardedUnaudited
    BY <1>1, <1>2 DEF Init, Phase, CredentialSwapped, AuditHeadersClean,
                      NothingForwardedUnaudited
  <1>5. QED
    BY <1>3, <1>4 DEF FilterInv

(* An audit call leaves the other calls alone and is never undone.         *)
LEMMA AsyncLogged ==
  ASSUME FilterType, NEW s \in Stream, NEW n \in 0 .. 3,
         NEW parts \in {RequestParts, ResponseParts}, AsyncLog(s, parts, n)
  PROVE  /\ call' \in [Stream -> [Part -> {"none", "lost", "sent", "publishing",
                                           "ok", "error"}]]
         /\ \A t \in Stream, p \in Part : call'[t][p] = "none" => call[t][p] = "none"
         /\ \A i \in 1 .. n : parts[i] \in Part => call'[s][parts[i]] # "none"
         /\ \A t \in Stream \ {s} : call'[t] = call[t]
  <1>1. PICK raised \in SUBSET {parts[i] : i \in 1 .. n} :
           call' = [call EXCEPT ![s] = [p \in Part |->
                       IF p \in raised THEN "lost"
                       ELSE IF p \in {parts[i] : i \in 1 .. n} THEN "sent"
                       ELSE call[s][p]]]
    BY DEF AsyncLog
  <1> DEFINE new == [p \in Part |->
                       IF p \in raised THEN "lost"
                       ELSE IF p \in {parts[i] : i \in 1 .. n} THEN "sent"
                       ELSE call[s][p]]
  <1>2. new \in [Part -> {"none", "lost", "sent", "publishing", "ok", "error"}]
    BY DEF FilterType
  <1>3. /\ \A p \in Part : new[p] = "none" => call[s][p] = "none"
        /\ \A i \in 1 .. n : parts[i] \in Part => new[parts[i]] # "none"
    OBVIOUS
  <1> HIDE DEF new
  <1>4. call' = [call EXCEPT ![s] = new]
    BY <1>1 DEF new
  <1>5. QED
    BY <1>2, <1>3, <1>4 DEF FilterType

(* The steps that change none of the headers, grants and logged headers.   *)
LEMMA QuietStep ==
  ASSUME FilterInv, NEW s \in Stream,
         UNCHANGED <<headers, granted, upstream, forwarded, logged>>,
         NEW to \in {"relayed", "buffering", "authorising", "upstream",
                     "streaming", "done", "reset"},
         pc' = [pc EXCEPT ![s] = to],
         to \in {"buffering", "authorising"} => pc[s] \in {"new", "buffering"},
         to \in {"upstream", "streaming"} => granted[s],
         call' \in [Stream -> [Part -> {"none", "lost", "sent", "publishing",
                                        "ok", "error"}]],
         \A t \in Stream, p \in Part : call'[t][p] = "none" => call[t][p] = "none"
  PROVE  FilterInv'
  <1> USE DEF FilterInv
  <1>1. FilterType'
    BY DEF FilterType
  <1>2. Phase'
    BY DEF FilterType, Phase
  <1>3. CredentialSwapped' /\ AuditHeadersClean'
    BY DEF CredentialSwapped, AuditHeadersClean
  <1>4. NothingForwardedUnaudited'
    <2>1. \A i \in 1 .. 3 : RequestParts[i] \in Part
      BY DEF RequestParts, Part
    <2>2. QED
      BY <2>1 DEF NothingForwardedUnaudited
  <1>5. QED
    BY <1>1, <1>2, <1>3, <1>4

(* A step of an endpoint, or of the reply's body, leaves the stream alone. *)
LEMMA AuditStep ==
  ASSUME FilterInv,
         UNCHANGED <<pc, headers, granted, upstream, forwarded, logged>>,
         call' \in [Stream -> [Part -> {"none", "lost", "sent", "publishing",
                                        "ok", "error"}]],
         \A t \in Stream, p \in Part : call'[t][p] = "none" => call[t][p] = "none"
  PROVE  FilterInv'
  <1> USE DEF FilterInv
  <1>1. FilterType' /\ Phase'
    BY DEF FilterType, Phase
  <1>2. CredentialSwapped' /\ AuditHeadersClean'
    BY DEF CredentialSwapped, AuditHeadersClean
  <1>3. NothingForwardedUnaudited'
    <2>1. \A i \in 1 .. 3 : RequestParts[i] \in Part
      BY DEF RequestParts, Part
    <2>2. QED
      BY <2>1 DEF NothingForwardedUnaudited
  <1>4. QED
    BY <1>1, <1>2, <1>3

LEMMA EndpointStep ==
  ASSUME FilterInv, NEW s \in Stream, Endpoint(s)
  PROVE  /\ UNCHANGED stream
         /\ FilterInv'
         /\ \A t \in Stream, p \in Part : call'[t][p] # "none" => call[t][p] # "none"
  <1>1. PICK p \in Part : publish(s, p) \/ (call[s][p] = "sent" /\ Answer(s, p, "lost"))
    BY DEF Endpoint, Lost, log_request_headers, log_request_body,
           log_request_trailers, log_response_headers, log_response_body,
           log_response_trailers, Part
  <1>2. UNCHANGED stream
    BY DEF Endpoint, Lost, publish, log_request_headers, log_request_body,
           log_request_trailers, log_response_headers, log_response_body,
           log_response_trailers
  <1>3. call[s][p] # "none"
    BY <1>1 DEF publish
  <1>4. \E c \in {"lost", "publishing", "ok", "error"} :
           call' = [call EXCEPT ![s][p] = c]
    <2>1. CASE call[s][p] = "sent" /\ Answer(s, p, "lost")
      BY <2>1 DEF Answer
    <2>2. CASE publish(s, p)
      BY <2>2 DEF publish, Answer
    <2>3. QED
      BY <1>1, <2>1, <2>2
  <1>5. FilterType
    BY DEF FilterInv
  <1>6. /\ call' \in [Stream -> [Part -> {"none", "lost", "sent", "publishing",
                                          "ok", "error"}]]
        /\ \A t \in Stream, r \in Part : call'[t][r] = "none" => call[t][r] = "none"
        /\ \A t \in Stream, r \in Part : call'[t][r] # "none" => call[t][r] # "none"
    BY <1>3, <1>4, <1>5 DEF FilterType
  <1>7. QED
    BY <1>2, <1>6, AuditStep DEF stream

(* The answer of /authorise, with n of the three log calls made.           *)
LEMMA GrantStep ==
  ASSUME FilterInv, NEW s \in Stream, NEW a \in Answers, NEW n \in 0 .. 3,
         pc[s] = "authorising", Grant(s, a, n),
         \/ /\ n = 3
            /\ forwarded' = [forwarded EXCEPT ![s] = TRUE]
            /\ pc' = [pc EXCEPT ![s] = "upstream"]
         \/ /\ UNCHANGED forwarded
            /\ pc' = [pc EXCEPT ![s] = "streaming"]
  PROVE  FilterInv'
  <1> USE DEF FilterInv
  <1> DEFINE up == upstream_header(a)
             hs == apply_upstream_auth(headers[s], a)
             lg == strip_credential_headers(hs, up)
  <1>1. headers[s] \in HeaderMap /\ \A h \in Header : ~Carries(headers[s][h])
    BY DEF FilterType, Phase
  <1>2. ~forwarded[s]
    BY DEF Phase
  <1>3. /\ hs \in HeaderMap
        /\ {h \in Header : Carries(hs[h])} = {up}
        /\ \A h \in Accepted \ {up} : hs[h] = None
        /\ lg \in HeaderMap
        /\ \A h \in Header : /\ ~Carries(lg[h])
                             /\ h \in credential_headers => lg[h] = None
    BY <1>1, Swapped
  <1>4. up \in Header
    BY UpstreamHeaderType
  <1>5. /\ granted' = [granted EXCEPT ![s] = TRUE]
        /\ headers' = [headers EXCEPT ![s] = hs]
        /\ upstream' = [upstream EXCEPT ![s] = up]
        /\ AsyncLog(s, RequestParts, n)
        /\ \/ logged' = [logged EXCEPT ![s] = lg]
           \/ logged' = [logged EXCEPT ![s] = logged[s]]
    BY DEF Grant
  <1>6. /\ call' \in [Stream -> [Part -> {"none", "lost", "sent", "publishing",
                                          "ok", "error"}]]
        /\ \A t \in Stream, p \in Part : call'[t][p] = "none" => call[t][p] = "none"
        /\ \A i \in 1 .. n : RequestParts[i] \in Part
                                => call'[s][RequestParts[i]] # "none"
    BY <1>5, AsyncLogged
  <1>7. \A i \in 1 .. 3 : RequestParts[i] \in Part
    BY DEF RequestParts, Part
  <1> HIDE DEF up, hs, lg
  <1>8. FilterType'
    <2>1. headers' \in [Stream -> HeaderMap]
      BY <1>3, <1>5 DEF FilterType
    <2>2. logged' \in [Stream -> HeaderMap]
      BY <1>3, <1>5 DEF FilterType
    <2>3. upstream' \in [Stream -> Header \cup {None}]
      BY <1>4, <1>5 DEF FilterType
    <2>4. granted' \in [Stream -> BOOLEAN] /\ forwarded' \in [Stream -> BOOLEAN]
      BY <1>5 DEF FilterType
    <2>5. pc' \in [Stream -> {"new", "relayed", "buffering", "authorising",
                             "upstream", "streaming", "done", "reset"}]
      BY DEF FilterType
    <2>6. QED
      BY <1>6, <2>1, <2>2, <2>3, <2>4, <2>5 DEF FilterType
  <1>9. Phase'
    BY <1>2, <1>5 DEF FilterType, Phase
  <1>10. CredentialSwapped'
    <2>1. SUFFICES ASSUME NEW t \in Stream, forwarded'[t]
                   PROVE  /\ {h \in Header : Carries(headers'[t][h])} = {upstream'[t]}
                          /\ \A h \in Accepted \ {upstream'[t]} : headers'[t][h] = None
      BY DEF CredentialSwapped
    <2>2. CASE t = s
      BY <1>3, <1>5, <2>2 DEF FilterType
    <2>3. CASE t # s
      <3>1. forwarded[t] /\ headers'[t] = headers[t] /\ upstream'[t] = upstream[t]
        BY <1>5, <2>1, <2>3 DEF FilterType
      <3>2. QED
        BY <3>1 DEF CredentialSwapped
    <2>4. QED
      BY <2>2, <2>3
  <1>11. AuditHeadersClean'
    BY <1>3, <1>5 DEF FilterType, AuditHeadersClean
  <1>12. NothingForwardedUnaudited'
    <2>1. SUFFICES ASSUME NEW t \in Stream, forwarded'[t], NEW i \in 1 .. 3
                   PROVE  call'[t][RequestParts[i]] # "none"
      BY DEF NothingForwardedUnaudited
    <2>2. CASE t = s
      BY <1>2, <1>6, <1>7, <2>1, <2>2 DEF FilterType
    <2>3. CASE t # s
      BY <1>6, <1>7, <2>1, <2>3 DEF FilterType, NothingForwardedUnaudited
    <2>4. QED
      BY <2>2, <2>3
  <1>13. QED
    BY <1>8, <1>9, <1>10, <1>11, <1>12

LEMMA FilterStep ==
  ASSUME FilterInv, NEW s \in Stream, Filter(s)
  PROVE  FilterInv'
  <1> USE DEF FilterInv
  <1>0. /\ FilterType
        /\ call \in [Stream -> [Part -> {"none", "lost", "sent", "publishing",
                                         "ok", "error"}]]
    BY DEF FilterType
  <1>1. CASE Ping(s) \/ Upgrade(s) \/ Preflight(s) \/ BufferingFails(s)
             \/ AuthoriseFails(s) \/ Reset(s)
    <2>1. \E to \in {"relayed", "done", "reset"} : pc' = [pc EXCEPT ![s] = to]
      BY <1>1 DEF Ping, Upgrade, Preflight, BufferingFails, AuthoriseFails,
                  Reset, envoy_on_response, send_error_response
    <2>2. UNCHANGED <<headers, granted, upstream, forwarded, logged, call>>
      BY <1>1 DEF Ping, Upgrade, Preflight, BufferingFails, AuthoriseFails,
                  Reset, audit
    <2>3. QED
      BY <1>0, <2>1, <2>2, QuietStep
  <1>2. CASE Arrive(s)
    <2>1. PICK m \in Requests : headers' = [headers EXCEPT ![s] = m]
      BY <1>2 DEF Arrive
    <2>2. m \in HeaderMap /\ \A h \in Header : ~Carries(m[h])
      BY FilterAssumption
    <2>3. /\ pc[s] = "new"
          /\ pc' = [pc EXCEPT ![s] = "buffering"]
          /\ UNCHANGED <<granted, upstream, forwarded, logged, call>>
      BY <1>2 DEF Arrive, audit
    <2>4. FilterType'
      BY <2>1, <2>2, <2>3 DEF FilterType
    <2>5. Phase'
      BY <2>1, <2>2, <2>3 DEF FilterType, Phase
    <2>6. ~forwarded[s]
      BY <2>3 DEF Phase
    <2>7. \A t \in Stream : forwarded'[t] => headers'[t] = headers[t]
      BY <2>1, <2>3, <2>6 DEF FilterType
    <2>8. CredentialSwapped'
      BY <2>3, <2>7 DEF CredentialSwapped
    <2>9. AuditHeadersClean' /\ NothingForwardedUnaudited'
      BY <2>3 DEF AuditHeadersClean, NothingForwardedUnaudited
    <2>10. QED
      BY <2>4, <2>5, <2>8, <2>9
  <1>3. CASE Buffered(s)
    <2>1. \E to \in {"authorising", "done"} : pc' = [pc EXCEPT ![s] = to]
      BY <1>3 DEF Buffered, envoy_on_response, send_error_response
    <2>2. /\ pc[s] = "buffering"
          /\ UNCHANGED <<headers, granted, upstream, forwarded, logged, call>>
      BY <1>3 DEF Buffered, audit
    <2>3. QED
      BY <1>0, <2>1, <2>2, QuietStep
  <1>4. CASE Authorised(s)
    <2>1. PICK a \in Answers : Grant(s, a, 3)
      BY <1>4 DEF Authorised
    <2>2. /\ pc[s] = "authorising"
          /\ forwarded' = [forwarded EXCEPT ![s] = TRUE]
          /\ pc' = [pc EXCEPT ![s] = "upstream"]
      BY <1>4 DEF Authorised
    <2>3. 3 \in 0 .. 3
      OBVIOUS
    <2>4. QED
      BY <2>1, <2>2, <2>3, GrantStep
  <1>5. CASE AuthorisedRaises(s)
    <2>1. PICK a \in Answers, n \in 0 .. 2 : Grant(s, a, n)
      BY <1>5 DEF AuthorisedRaises
    <2>2. /\ pc[s] = "authorising"
          /\ UNCHANGED forwarded
          /\ pc' = [pc EXCEPT ![s] = "streaming"]
      BY <1>5 DEF AuthorisedRaises, envoy_on_response, send_error_response
    <2>3. n \in 0 .. 3
      OBVIOUS
    <2>4. QED
      BY <2>1, <2>2, <2>3, GrantStep
  <1>6. CASE UpstreamResponds(s)
    <2>1. /\ pc[s] = "upstream"
          /\ pc' = [pc EXCEPT ![s] = "streaming"]
          /\ UNCHANGED <<headers, granted, upstream, forwarded, logged, call>>
      BY <1>6 DEF UpstreamResponds, envoy_on_response, audit
    <2>2. granted[s]
      BY <2>1 DEF Phase
    <2>3. QED
      BY <1>0, <2>1, <2>2, QuietStep
  <1>7. CASE Piece(s)
    BY <1>0, <1>7, AuditStep DEF Piece, audit
  <1>8. CASE ResponseEnds(s)
    <2>1. PICK n \in 0 .. 3 : AsyncLog(s, ResponseParts, n)
      BY <1>8 DEF ResponseEnds
    <2>2. /\ pc' = [pc EXCEPT ![s] = "done"]
          /\ UNCHANGED <<headers, granted, upstream, forwarded, logged>>
      BY <1>8 DEF ResponseEnds
    <2>3. /\ call' \in [Stream -> [Part -> {"none", "lost", "sent", "publishing",
                                            "ok", "error"}]]
          /\ \A t \in Stream, p \in Part : call'[t][p] = "none" => call[t][p] = "none"
      BY <1>0, <2>1, AsyncLogged
    <2>4. QED
      BY <2>2, <2>3, QuietStep
  <1>9. QED
    BY <1>1, <1>2, <1>3, <1>4, <1>5, <1>6, <1>7, <1>8 DEF Filter

LEMMA FilterNext == FilterInv /\ [Next]_vars => FilterInv'
  <1> SUFFICES ASSUME FilterInv, [Next]_vars PROVE FilterInv'
    OBVIOUS
  <1>1. CASE Next
    BY <1>1, FilterStep, EndpointStep DEF Next
  <1>2. CASE UNCHANGED vars
    <2>1. UNCHANGED <<pc, headers, granted, upstream, forwarded, logged, call>>
      BY <1>2 DEF vars, stream, audit
    <2>2. QED
      BY <2>1, AuditStep DEF FilterInv, FilterType
  <1>3. QED
    BY <1>1, <1>2

LEMMA FilterInvariant == Spec => []FilterInv
  BY FilterInit, FilterNext, PTL DEF Spec

(* The target receives the key, in one header, and no credential of the    *)
(* client's: apply_upstream_auth on every path to the target.              *)
THEOREM TargetSeesOnlyTheKey == Spec => []CredentialSwapped
  <1>1. FilterInv => CredentialSwapped
    BY DEF FilterInv
  <1>2. QED
    BY <1>1, FilterInvariant, PTL

(* No credential is in the headers that _async_log posts.                  *)
THEOREM KeyIsNeverLogged == Spec => []AuditHeadersClean
  <1>1. FilterInv => AuditHeadersClean
    BY DEF FilterInv
  <1>2. QED
    BY <1>1, FilterInvariant, PTL

(* The three request log calls precede the forwarding of a request.        *)
THEOREM AuditPrecedesForwarding == Spec => []NothingForwardedUnaudited
  <1>1. FilterInv => NothingForwardedUnaudited
    BY DEF FilterInv
  <1>2. QED
    BY <1>1, FilterInvariant, PTL

-----------------------------------------------------------------------------
(* A value that starts with a prefix is that prefix and the rest.          *)
LEMMA Rejoined ==
  ASSUME NEW v \in Seq(Token), NEW x \in Seq(Token), Starts(v, x)
  PROVE  x \o SubSeq(v, Len(x) + 1, Len(v)) = v
  <1> DEFINE rest == SubSeq(v, Len(x) + 1, Len(v))
  <1>1. /\ Len(x) \in Nat /\ Len(v) \in Nat /\ Len(v) >= Len(x)
        /\ SubSeq(v, 1, Len(x)) = x
    BY DEF Starts
  <1>2. \A i \in 1 .. Len(x) : x[i] = v[i]
    <2>1. \A i \in 1 .. Len(x) : SubSeq(v, 1, Len(x))[i] = v[i]
      BY <1>1
    <2>2. QED
      BY <1>1, <2>1
  <1>3. /\ rest \in Seq(Token) /\ Len(rest) = Len(v) - Len(x)
        /\ \A i \in 1 .. Len(rest) : rest[i] = v[Len(x) + i]
    BY <1>1
  <1> HIDE DEF rest
  <1>4. /\ x \o rest \in Seq(Token) /\ Len(x \o rest) = Len(v)
        /\ \A i \in 1 .. Len(v) : (x \o rest)[i] = v[i]
    BY <1>1, <1>2, <1>3
  <1> DEFINE joined == x \o rest
  <1>5. joined \in Seq(Token) /\ Len(joined) = Len(v)
    BY <1>4
  <1>6. \A i \in 1 .. Len(joined) : joined[i] = v[i]
    BY <1>4
  <1> HIDE DEF joined
  <1>7. joined = v
    BY <1>5, <1>6
  <1>8. QED
    BY <1>7 DEF joined, rest

LEMMA Extracted ==
  ASSUME NEW hs \in HeaderMap, NEW x \in extract_auth_payload(hs)
  PROVE  /\ \E h \in Accepted : hs[h] # None
         /\ \A h \in Accepted : hs[h] \in {None, accepted_auth[h] \o x}
  <1> DEFINE present == {h \in Accepted : hs[h] # None}
             Rest(h) == SubSeq(hs[h], Len(accepted_auth[h]) + 1, Len(hs[h]))
             candidates == {Rest(h) : h \in present}
  <1>1. /\ x \in candidates
        /\ \A h \in present : Starts(hs[h], accepted_auth[h])
        /\ \A y, z \in candidates : y = z
    BY DEF extract_auth_payload
  <1>2. \A h \in Accepted : accepted_auth[h] \in Seq(Token)
    <2>1. <<Bearer>> \in Seq(Token) /\ ApiKeyPrefix \in Seq(Token)
      BY FilterAssumption DEF Value
    <2>2. QED
      BY <2>1 DEF accepted_auth, Accepted
  <1>3. ASSUME NEW h \in present PROVE hs[h] = accepted_auth[h] \o x
    <2>1. hs[h] \in Seq(Token)
      BY FilterAssumption DEF HeaderMap, Value, Accepted
    <2>2. x = Rest(h)
      BY <1>1
    <2>3. QED
      BY <1>1, <1>2, <2>1, <2>2, Rejoined
  <1>4. \E h \in present : TRUE
    BY <1>1
  <1>5. QED
    BY <1>3, <1>4

PayloadFunction == payload = [t \in Stream |-> payload[t]]

LEMMA PayloadStep ==
  ASSUME PayloadFunction, NEW s \in Stream, Filter(s)
  PROVE  PayloadFunction'
  BY DEF PayloadFunction, Filter, Ping, Upgrade, Preflight, Arrive,
         BufferingFails, Buffered, AuthoriseFails, Authorised,
         AuthorisedRaises, Grant, UpstreamResponds, Piece, ResponseEnds, Reset

LEMMA NoGuessingStep ==
  ASSUME FilterType, PayloadFunction, NoGuessing, NEW s \in Stream, Filter(s)
  PROVE  NoGuessing'
  <1>1. CASE Buffered(s)
    <2>1. SUFFICES ASSUME NEW t \in Stream, pc'[t] = "authorising"
                   PROVE  /\ \E h \in Accepted : headers'[t][h] # None
                          /\ \A h \in Accepted : headers'[t][h] \in
                                {None, accepted_auth[h] \o payload'[t]}
      BY DEF NoGuessing
    <2>2. UNCHANGED headers /\ headers[t] \in HeaderMap
      BY <1>1 DEF Buffered, FilterType
    <2>3. CASE t = s
      <3>1. \/ pc' = [pc EXCEPT ![s] = "done"]
            \/ \E x \in extract_auth_payload(headers[s]) :
                  payload' = [payload EXCEPT ![s] = x]
        BY <1>1 DEF Buffered, envoy_on_response, send_error_response
      <3>2. pc' # [pc EXCEPT ![s] = "done"]
        BY <2>1, <2>3 DEF FilterType
      <3>3. PICK x \in extract_auth_payload(headers[s]) :
               payload' = [payload EXCEPT ![s] = x]
        BY <3>1, <3>2
      <3>4. /\ \E h \in Accepted : headers[s][h] # None
            /\ \A h \in Accepted : headers[s][h] \in {None, accepted_auth[h] \o x}
        BY <2>2, <2>3, Extracted
      <3>5. QED
        BY <2>2, <2>3, <3>3, <3>4 DEF PayloadFunction
    <2>4. CASE t # s
      <3>1. pc[t] = "authorising" /\ payload'[t] = payload[t]
        BY <1>1, <2>1, <2>4 DEF Buffered, envoy_on_response,
                                     send_error_response, FilterType,
                                     PayloadFunction
      <3>2. QED
        BY <2>2, <3>1 DEF NoGuessing
    <2>5. QED
      BY <2>3, <2>4
  <1>2. CASE ~Buffered(s)
    <2>1. /\ \A t \in Stream \ {s} : /\ pc'[t] = pc[t]
                                    /\ headers'[t] = headers[t]
                                    /\ payload'[t] = payload[t]
          /\ pc'[s] # "authorising" \/ UNCHANGED <<pc, headers, payload>>
      <3>1. CASE Ping(s) \/ Upgrade(s) \/ Preflight(s) \/ Arrive(s)
                 \/ BufferingFails(s) \/ AuthoriseFails(s) \/ Reset(s)
        BY <3>1 DEF Ping, Upgrade, Preflight, Arrive, BufferingFails,
                    AuthoriseFails, Reset, envoy_on_response,
                    send_error_response, FilterType, PayloadFunction
      <3>2. CASE Authorised(s) \/ AuthorisedRaises(s)
        BY <3>2 DEF Authorised, AuthorisedRaises, Grant, envoy_on_response,
                    send_error_response, FilterType, PayloadFunction
      <3>3. CASE UpstreamResponds(s) \/ Piece(s) \/ ResponseEnds(s)
        BY <3>3 DEF UpstreamResponds, envoy_on_response, Piece, ResponseEnds,
                    FilterType
      <3>4. QED
        BY <1>2, <3>1, <3>2, <3>3 DEF Filter
    <2>2. QED
      BY <2>1 DEF NoGuessing
  <1>3. QED
    BY <1>1, <1>2

(* extract_auth_payload: the proxy authorises what every accepted header   *)
(* the client sent says, and refuses when they differ.                     *)
THEOREM PayloadIsUnambiguous == Spec => []NoGuessing
  <1>1. Init => PayloadFunction /\ NoGuessing
    BY DEF Init, PayloadFunction, NoGuessing
  <1>2. FilterInv /\ PayloadFunction /\ NoGuessing /\ [Next]_vars
           => (PayloadFunction /\ NoGuessing)'
    <2> SUFFICES ASSUME FilterInv, PayloadFunction, NoGuessing, [Next]_vars
                 PROVE  PayloadFunction' /\ NoGuessing'
      OBVIOUS
    <2>1. ASSUME NEW s \in Stream, Filter(s)
          PROVE  PayloadFunction' /\ NoGuessing'
      BY <2>1, PayloadStep, NoGuessingStep DEF FilterInv
    <2>2. ASSUME UNCHANGED stream PROVE PayloadFunction' /\ NoGuessing'
      BY <2>2 DEF stream, PayloadFunction, NoGuessing
    <2>3. ASSUME NEW s \in Stream, Endpoint(s) PROVE UNCHANGED stream
      BY <2>3, EndpointStep
    <2>4. QED
      BY <2>1, <2>2, <2>3 DEF Next, vars
  <1>3. QED
    BY <1>1, <1>2, FilterInvariant, PTL DEF Spec

-----------------------------------------------------------------------------
(* What the filter answers, and to whom.  Until a request is answered the  *)
(* metadata says of its origin what the configuration says, and never says *)
(* more than that afterwards.                                              *)
Pending    == {"buffering", "authorising", "upstream"}
Mechanism  == {"respond", "metadata"}

ReplyType ==
    /\ origin \in [Stream -> BOOLEAN]
    /\ cors_origin \in [Stream -> BOOLEAN]
    /\ payload \in [Stream -> Value \cup {None}]
    /\ reply \in [Stream -> [status : Nat, cors : SUBSET Mechanism] \cup {None}]
    /\ \A s \in Stream : granted[s] => upstream[s] \in Header

Noted ==
    \A s \in Stream :
        /\ cors_origin[s] => origin[s]
        /\ pc[s] \in Pending /\ origin[s] => cors_origin[s]
        /\ pc[s] \in Pending \cup {"new"} => reply[s] = None

ReplyInv == ReplyType /\ Noted /\ CorsForAllowedOrigins

LEMMA ExtractedType ==
  ASSUME NEW hs \in HeaderMap
  PROVE  extract_auth_payload(hs) \subseteq Value
  <1> SUFFICES ASSUME NEW x \in extract_auth_payload(hs) PROVE x \in Value
    OBVIOUS
  <1>1. PICK h \in Accepted :
           /\ hs[h] # None
           /\ Starts(hs[h], accepted_auth[h])
           /\ x = SubSeq(hs[h], Len(accepted_auth[h]) + 1, Len(hs[h]))
    BY DEF extract_auth_payload
  <1>2. hs[h] \in Seq(Token)
    BY <1>1, FilterAssumption DEF HeaderMap, Value, Accepted
  <1>3. accepted_auth[h] \in Seq(Token)
    <2>1. <<Bearer>> \in Seq(Token) /\ ApiKeyPrefix \in Seq(Token)
      BY FilterAssumption DEF Value
    <2>2. QED
      BY <2>1 DEF accepted_auth, Accepted
  <1>4. Len(hs[h]) \in Nat /\ Len(accepted_auth[h]) \in Nat
    BY <1>2, <1>3
  <1>5. SubSeq(hs[h], Len(accepted_auth[h]) + 1, Len(hs[h])) \in Seq(Token)
    BY <1>2, <1>4
  <1>6. QED
    BY <1>1, <1>5 DEF Value

LEMMA MechanismType ==
  ASSUME NEW given, NEW noted
  PROVE  /\ CorsBy(given, noted) \in SUBSET Mechanism
         /\ CorsBy(given, noted) # {} => given \/ noted
         /\ given => "respond" \in CorsBy(given, noted)
         /\ noted => "metadata" \in CorsBy(given, noted)
  BY DEF CorsBy, Mechanism

(* What a step leaves alone.                                              *)
SameOrigins == origin' = origin /\ cors_origin' = cors_origin

SameGrants == granted' = granted /\ upstream' = upstream

OthersGrants(s) == \A t \in Stream \ {s} : granted'[t] <=> granted[t]

NoneBegins ==
    \A t \in Stream : /\ pc'[t] \in Pending => pc[t] \in Pending
                      /\ pc'[t] = "new" => pc[t] = "new"

(* The other conjuncts of ReplyType after a step.                          *)
PayloadTyped == payload' \in [Stream -> Value \cup {None}]

GrantsTyped == \A t \in Stream : granted'[t] => upstream'[t] \in Header

(* The statuses of the filter's own errors.                                *)
OwnError == {401} \cup Refusals

(* What a reply has to tell its stream's origin.                           *)
Tells(s, status, cs, id) ==
    /\ cs # {} => origin[s]
    /\ origin[s] /\ ~(status = 200 /\ ~id) => cs # {}
    /\ origin[s] /\ status \in OwnError => "respond" \in cs

(* A stream is answered.                                                   *)
LEMMA ReplySet ==
  ASSUME FilterType, ReplyInv, NEW s \in Stream, NEW status \in Nat,
         NEW cs \in SUBSET Mechanism, Tells(s, status, cs, granted'[s]),
         reply' = [reply EXCEPT ![s] = [status |-> status, cors |-> cs]],
         pc'[s] \notin Pending \cup {"new"},
         \A t \in Stream \ {s} : pc'[t] = pc[t],
         OthersGrants(s), SameOrigins, PayloadTyped, GrantsTyped
  PROVE  ReplyInv'
  <1> DEFINE answer == [status |-> status, cors |-> cs]
  <1>1. /\ answer \in [status : Nat, cors : SUBSET Mechanism]
        /\ answer.status = status /\ answer.cors = cs
    OBVIOUS
  <1> HIDE DEF answer
  <1>2. reply' = [reply EXCEPT ![s] = answer]
    BY DEF answer
  <1>4. reply'[s] = answer /\ \A t \in Stream \ {s} : reply'[t] = reply[t]
    BY <1>2 DEF ReplyInv, ReplyType
  <1>5. ReplyType'
    BY <1>1, <1>2
    DEF ReplyInv, ReplyType, SameOrigins, PayloadTyped, GrantsTyped
  <1>6. Noted'
    BY <1>4 DEF ReplyInv, Noted, SameOrigins
  <1>7. CorsForAllowedOrigins'
    BY <1>1, <1>4 DEF ReplyInv, CorsForAllowedOrigins, HealthCheck, Tells,
                      OwnError, SameOrigins, OthersGrants
  <1>8. QED
    BY <1>5, <1>6, <1>7 DEF ReplyInv

(* The filter answers with an error of its own.                            *)
LEMMA ErrorSent ==
  ASSUME FilterType, ReplyInv, NEW s \in Stream, NEW status \in Nat,
         NEW grant \in BOOLEAN, send_error_response(s, status, grant),
         OthersGrants(s), SameOrigins, PayloadTyped, GrantsTyped
  PROVE  ReplyInv'
  <1> DEFINE cs == CorsBy(origin[s], cors_origin[s])
  <1>1. /\ reply' = [reply EXCEPT ![s] = [status |-> status, cors |-> cs]]
        /\ pc' = [pc EXCEPT ![s] = IF grant THEN "streaming" ELSE "done"]
    BY DEF send_error_response, envoy_on_response, get_allowed_origin
  <1>2. cs \in SUBSET Mechanism
    BY MechanismType
  <1>3. Tells(s, status, cs, granted'[s])
    <2>1. cors_origin[s] => origin[s]
      BY DEF ReplyInv, Noted
    <2>2. QED
      BY <2>1 DEF Tells, CorsBy
  <1> HIDE DEF cs
  <1>4. /\ pc'[s] \notin Pending \cup {"new"}
        /\ \A t \in Stream \ {s} : pc'[t] = pc[t]
    BY <1>1 DEF FilterType, Pending
  <1>5. QED
    BY <1>1, <1>2, <1>3, <1>4, ReplySet

(* Envoy or the target answers a pending request: what the metadata says   *)
(* is all there is.                                                        *)
LEMMA AnswerPassed ==
  ASSUME FilterType, ReplyInv, NEW s \in Stream, pc[s] \in Pending,
         NEW status \in Nat, status \notin OwnError,
         NEW grant \in BOOLEAN, envoy_on_response(s, status, FALSE, grant),
         SameOrigins, SameGrants, PayloadTyped
  PROVE  ReplyInv'
  <1> DEFINE cs == CorsBy(FALSE, cors_origin[s])
  <1>1. /\ reply' = [reply EXCEPT ![s] = [status |-> status, cors |-> cs]]
        /\ pc' = [pc EXCEPT ![s] = IF grant THEN "streaming" ELSE "done"]
    BY DEF envoy_on_response
  <1>2. cs \in SUBSET Mechanism
    BY MechanismType
  <1>3. Tells(s, status, cs, granted'[s])
    <2>1. /\ cors_origin[s] => origin[s]
          /\ origin[s] => cors_origin[s]
      BY DEF ReplyInv, Noted
    <2>2. QED
      BY <2>1 DEF Tells, CorsBy
  <1> HIDE DEF cs
  <1>4. /\ pc'[s] \notin Pending \cup {"new"}
        /\ \A t \in Stream \ {s} : pc'[t] = pc[t]
    BY <1>1 DEF FilterType, Pending
  <1>5. OthersGrants(s) /\ GrantsTyped
    BY DEF ReplyInv, ReplyType, SameGrants, OthersGrants, GrantsTyped
  <1>6. QED
    BY <1>1, <1>2, <1>3, <1>4, <1>5, ReplySet

(* One of the early returns: the metadata is still empty.                  *)
LEMMA EarlyReturn ==
  ASSUME FilterType, ReplyInv, NEW s \in Stream, Ping(s) \/ Preflight(s),
         ~granted[s], ~cors_origin[s]
  PROVE  ReplyInv'
  <1>1. SameOrigins /\ SameGrants /\ PayloadTyped
    BY DEF origins, Ping, Preflight, ReplyInv, ReplyType, SameOrigins,
           SameGrants, PayloadTyped
  <1>2. OthersGrants(s) /\ GrantsTyped /\ ~granted'[s]
    BY <1>1 DEF ReplyInv, ReplyType, SameGrants, OthersGrants, GrantsTyped
  <1>3. CASE Ping(s)
    <2> DEFINE cs == CorsBy(FALSE, cors_origin[s])
    <2>1. /\ reply' = [reply EXCEPT ![s] = [status |-> 200, cors |-> cs]]
          /\ pc' = [pc EXCEPT ![s] = "done"]
      BY <1>3 DEF Ping, envoy_on_response
    <2>2. cs \in SUBSET Mechanism /\ cs = {}
      BY MechanismType DEF CorsBy
    <2>3. Tells(s, 200, cs, granted'[s])
      <3>1. 200 \notin OwnError
        BY DEF OwnError, Refusals
      <3>2. QED
        BY <1>2, <2>2, <3>1 DEF Tells
    <2> HIDE DEF cs
    <2>4. /\ pc'[s] \notin Pending \cup {"new"}
          /\ \A t \in Stream \ {s} : pc'[t] = pc[t]
      BY <2>1 DEF FilterType, Pending
    <2>5. QED
      BY <1>1, <1>2, <2>1, <2>2, <2>3, <2>4, ReplySet
  <1>4. CASE Preflight(s)
    <2> DEFINE cs == CorsBy(TRUE, cors_origin[s])
    <2>1. /\ reply' = [reply EXCEPT ![s] = [status |-> 204, cors |-> cs]]
          /\ pc' = [pc EXCEPT ![s] = "done"]
          /\ origin[s]
      BY <1>4 DEF Preflight, envoy_on_response, get_allowed_origin
    <2>2. cs \in SUBSET Mechanism /\ "respond" \in cs
      BY MechanismType
    <2>3. Tells(s, 204, cs, granted'[s])
      BY <2>1, <2>2 DEF Tells
    <2> HIDE DEF cs
    <2>4. /\ pc'[s] \notin Pending \cup {"new"}
          /\ \A t \in Stream \ {s} : pc'[t] = pc[t]
      BY <2>1 DEF FilterType, Pending
    <2>5. QED
      BY <1>1, <1>2, <2>1, <2>2, <2>3, <2>4, ReplySet
  <1>5. QED
    BY <1>3, <1>4

(* No reply is sent, and no request begins to wait.                        *)
LEMMA ReplyKept ==
  ASSUME FilterType, ReplyInv, SameOrigins, reply' = reply, NoneBegins,
         \A t \in Stream : reply[t] = None \/ (granted'[t] <=> granted[t]),
         PayloadTyped, GrantsTyped
  PROVE  ReplyInv'
  <1>1. ReplyType'
    BY DEF ReplyInv, ReplyType, SameOrigins, PayloadTyped, GrantsTyped
  <1>2. Noted'
    BY DEF ReplyInv, Noted, SameOrigins, NoneBegins
  <1>3. CorsForAllowedOrigins'
    BY DEF ReplyInv, CorsForAllowedOrigins, HealthCheck, SameOrigins
  <1>4. QED
    BY <1>1, <1>2, <1>3 DEF ReplyInv

LEMMA GrantTypes ==
  ASSUME FilterType, ReplyInv, NEW s \in Stream, NEW a \in Answers, NEW n,
         Grant(s, a, n)
  PROVE  PayloadTyped /\ GrantsTyped /\ OthersGrants(s)
  <1>1. /\ granted' = [granted EXCEPT ![s] = TRUE]
        /\ upstream' = [upstream EXCEPT ![s] = upstream_header(a)]
        /\ payload' = [payload EXCEPT ![s] = None]
    BY DEF Grant
  <1>2. upstream_header(a) \in Header
    BY UpstreamHeaderType
  <1>3. PayloadTyped
    BY <1>1 DEF ReplyInv, ReplyType, PayloadTyped
  <1>4. GrantsTyped
    BY <1>1, <1>2 DEF FilterType, ReplyInv, ReplyType, GrantsTyped
  <1>5. OthersGrants(s)
    BY <1>1 DEF FilterType, OthersGrants
  <1>6. QED
    BY <1>3, <1>4, <1>5

(* A request not yet looked at has neither metadata.                       *)
Untouched == \A s \in Stream : pc[s] = "new" => ~granted[s] /\ ~cors_origin[s]

LEMMA UntouchedStep ==
  ASSUME FilterType, ReplyInv, Untouched, NEW s \in Stream, Filter(s)
  PROVE  Untouched'
  <1>1. /\ pc'[s] # "new"
        /\ \A t \in Stream \ {s} : pc'[t] = pc[t]
    BY DEF FilterType, Filter, Ping, Upgrade, Preflight, Arrive, BufferingFails,
           Buffered, AuthoriseFails, Authorised, AuthorisedRaises,
           UpstreamResponds, Piece, ResponseEnds, Reset, envoy_on_response,
           send_error_response
  <1>2. OthersGrants(s)
    BY DEF FilterType, Filter, Ping, Upgrade, Preflight, Arrive, BufferingFails,
           Buffered, AuthoriseFails, Authorised, AuthorisedRaises, Grant,
           UpstreamResponds, Piece, ResponseEnds, Reset, OthersGrants
  <1>3. \A t \in Stream \ {s} : cors_origin'[t] <=> cors_origin[t]
    <2>1. \/ cors_origin' = cors_origin
          \/ cors_origin' = [cors_origin EXCEPT ![s] = origin[s]]
      BY DEF Filter, Ping, Upgrade, Preflight, Arrive, BufferingFails,
             Buffered, AuthoriseFails, Authorised, AuthorisedRaises,
             UpstreamResponds, Piece, ResponseEnds, Reset, origins,
             get_allowed_origin
    <2>2. QED
      BY <2>1 DEF ReplyInv, ReplyType
  <1>4. QED
    BY <1>1, <1>2, <1>3 DEF Untouched, OthersGrants

LEMMA ReplyStep ==
  ASSUME FilterType, ReplyInv, Untouched, NEW s \in Stream, Filter(s)
  PROVE  ReplyInv'
  <1>kept. ASSUME SameOrigins, SameGrants, PayloadTyped, NoneBegins,
                  reply' = reply
           PROVE  ReplyInv'
    <2>1. \A t \in Stream : reply[t] = None \/ (granted'[t] <=> granted[t])
      BY <1>kept DEF SameGrants
    <2>2. GrantsTyped
      BY <1>kept DEF ReplyInv, ReplyType, SameGrants, GrantsTyped
    <2>3. QED
      BY <1>kept, <2>1, <2>2, ReplyKept
  <1>refused. ASSUME NEW status \in Nat, send_error_response(s, status, FALSE),
                     SameOrigins, SameGrants, PayloadTyped
              PROVE  ReplyInv'
    <2>1. OthersGrants(s) /\ GrantsTyped
      BY <1>refused DEF ReplyInv, ReplyType, SameGrants, OthersGrants,
                        GrantsTyped
    <2>2. FALSE \in BOOLEAN
      OBVIOUS
    <2>3. QED
      BY <1>refused, <2>1, <2>2, ErrorSent
  <1>1. CASE Ping(s) \/ Preflight(s)
    <2>1. ~granted[s] /\ ~cors_origin[s]
      BY <1>1 DEF Ping, Preflight, Untouched
    <2>2. QED
      BY <1>1, <2>1, EarlyReturn
  <1>2. CASE BufferingFails(s)
    <2>1. SameOrigins /\ SameGrants /\ PayloadTyped
      BY <1>2 DEF origins, BufferingFails, ReplyInv, ReplyType, SameOrigins,
                  SameGrants, PayloadTyped
    <2>2. pc[s] \in Pending
      BY <1>2 DEF BufferingFails, Pending
    <2>3. CASE envoy_on_response(s, 413, FALSE, FALSE)
      <3>1. 413 \in Nat /\ 413 \notin OwnError /\ FALSE \in BOOLEAN
        BY DEF OwnError, Refusals
      <3>2. QED
        BY <2>1, <2>2, <2>3, <3>1, AnswerPassed
    <2>4. CASE send_error_response(s, 500, FALSE)
      <3>1. 500 \in Nat
        OBVIOUS
      <3>2. QED
        BY <1>refused, <2>1, <2>4, <3>1
    <2>5. QED
      BY <1>2, <2>3, <2>4 DEF BufferingFails
  <1>3. CASE Upgrade(s) \/ Piece(s) \/ ResponseEnds(s)
    <2>1. NoneBegins
      BY <1>3 DEF Upgrade, Piece, ResponseEnds, FilterType, Pending, NoneBegins
    <2>2. SameOrigins /\ SameGrants /\ PayloadTyped /\ reply' = reply
      BY <1>3 DEF origins, Upgrade, Piece, ResponseEnds, ReplyInv, ReplyType,
                  SameOrigins, SameGrants, PayloadTyped
    <2>3. QED
      BY <1>kept, <2>1, <2>2
  <1>4. CASE Arrive(s)
    <2>1. /\ pc[s] = "new" /\ pc'[s] = "buffering"
          /\ \A t \in Stream \ {s} : pc'[t] = pc[t]
          /\ cors_origin' = [cors_origin EXCEPT ![s] = origin[s]]
          /\ origin' = origin /\ reply' = reply /\ payload' = payload
          /\ granted' = granted /\ upstream' = upstream
      BY <1>4 DEF Arrive, get_allowed_origin, FilterType
    <2>2. ReplyType'
      BY <2>1 DEF ReplyInv, ReplyType
    <2>3. /\ cors_origin'[s] = origin[s]
          /\ \A t \in Stream \ {s} : (cors_origin'[t] <=> cors_origin[t])
      BY <2>1 DEF ReplyInv, ReplyType
    <2>4. Noted'
      BY <2>1, <2>3 DEF ReplyInv, Noted
    <2>5. CorsForAllowedOrigins'
      BY <2>1 DEF ReplyInv, CorsForAllowedOrigins, HealthCheck
    <2>6. QED
      BY <2>2, <2>4, <2>5 DEF ReplyInv
  <1>5. CASE Buffered(s)
    <2>1. SameOrigins /\ SameGrants
      BY <1>5 DEF origins, Buffered, SameOrigins, SameGrants
    <2>2. CASE send_error_response(s, 401, FALSE) /\ UNCHANGED payload
      <3>1. 401 \in Nat /\ PayloadTyped
        BY <2>2 DEF ReplyInv, ReplyType, PayloadTyped
      <3>2. QED
        BY <1>refused, <2>1, <2>2, <3>1
    <2>3. CASE \E x \in extract_auth_payload(headers[s]) :
                  /\ payload' = [payload EXCEPT ![s] = x]
                  /\ pc' = [pc EXCEPT ![s] = "authorising"]
                  /\ UNCHANGED reply
      <3>1. extract_auth_payload(headers[s]) \subseteq Value
        BY ExtractedType DEF FilterType
      <3>2. PayloadTyped
        BY <2>3, <3>1 DEF ReplyInv, ReplyType, PayloadTyped
      <3>3. NoneBegins
        BY <1>5, <2>3 DEF Buffered, FilterType, Pending, NoneBegins
      <3>4. QED
        BY <1>kept, <2>1, <2>3, <3>2, <3>3
    <2>4. QED
      BY <1>5, <2>2, <2>3 DEF Buffered
  <1>6. CASE AuthoriseFails(s)
    <2>1. PICK status \in Refusals : send_error_response(s, status, FALSE)
      BY <1>6 DEF AuthoriseFails
    <2>2. status \in Nat
      BY DEF Refusals
    <2>3. SameOrigins /\ SameGrants /\ PayloadTyped
      BY <1>6 DEF origins, AuthoriseFails, ReplyInv, ReplyType, SameOrigins,
                  SameGrants, PayloadTyped
    <2>4. QED
      BY <1>refused, <2>1, <2>2, <2>3
  <1>7. CASE Authorised(s)
    <2>1. PICK a \in Answers : Grant(s, a, 3)
      BY <1>7 DEF Authorised
    <2>2. SameOrigins /\ reply' = reply /\ pc[s] = "authorising"
      BY <1>7 DEF origins, Authorised, SameOrigins
    <2>3. NoneBegins
      BY <1>7 DEF Authorised, FilterType, Pending, NoneBegins
    <2>4. reply[s] = None
      BY <2>2 DEF ReplyInv, Noted, Pending
    <2>5. PayloadTyped /\ GrantsTyped /\ OthersGrants(s)
      BY <2>1, GrantTypes
    <2>6. \A t \in Stream : reply[t] = None \/ (granted'[t] <=> granted[t])
      BY <2>4, <2>5 DEF OthersGrants
    <2>7. QED
      BY <2>2, <2>3, <2>5, <2>6, ReplyKept
  <1>8. CASE AuthorisedRaises(s)
    <2>1. PICK a \in Answers, n \in 0 .. 2 : Grant(s, a, n)
      BY <1>8 DEF AuthorisedRaises
    <2>2. send_error_response(s, 500, TRUE) /\ SameOrigins
      BY <1>8 DEF origins, AuthorisedRaises, SameOrigins
    <2>3. PayloadTyped /\ GrantsTyped /\ OthersGrants(s)
      BY <2>1, GrantTypes
    <2>4. 500 \in Nat /\ TRUE \in BOOLEAN
      OBVIOUS
    <2>5. QED
      BY <2>2, <2>3, <2>4, ErrorSent
  <1>9. CASE UpstreamResponds(s)
    <2>1. pc[s] \in Pending /\ envoy_on_response(s, 200, FALSE, TRUE)
      BY <1>9 DEF UpstreamResponds, Pending
    <2>2. SameOrigins /\ SameGrants /\ PayloadTyped
      BY <1>9 DEF origins, UpstreamResponds, ReplyInv, ReplyType, SameOrigins,
                  SameGrants, PayloadTyped
    <2>3. 200 \in Nat /\ 200 \notin OwnError /\ TRUE \in BOOLEAN
      BY DEF OwnError, Refusals
    <2>4. QED
      BY <2>1, <2>2, <2>3, AnswerPassed
  <1>10. CASE Reset(s)
    <2>1. SameOrigins /\ SameGrants /\ PayloadTyped /\ reply' = reply
      BY <1>10 DEF origins, Reset, ReplyInv, ReplyType, SameOrigins,
                   SameGrants, PayloadTyped
    <2>2. NoneBegins
      BY <1>10 DEF Reset, FilterType, Pending, NoneBegins
    <2>3. QED
      BY <1>kept, <2>1, <2>2
  <1>11. QED
    BY <1>1, <1>2, <1>3, <1>4, <1>5, <1>6, <1>7, <1>8, <1>9, <1>10 DEF Filter

LEMMA ReplyInvariant == Spec => []ReplyInv
  <1>1. Init => ReplyInv /\ Untouched
    BY DEF Init, ReplyInv, ReplyType, Noted, Pending, CorsForAllowedOrigins,
           Untouched
  <1>2. FilterInv /\ ReplyInv /\ Untouched /\ [Next]_vars
          => (ReplyInv /\ Untouched)'
    <2> SUFFICES ASSUME FilterInv, ReplyInv, Untouched, [Next]_vars
                 PROVE  ReplyInv' /\ Untouched'
      OBVIOUS
    <2>1. ASSUME NEW s \in Stream, Filter(s) PROVE ReplyInv' /\ Untouched'
      BY <2>1, ReplyStep, UntouchedStep DEF FilterInv
    <2>2. ASSUME UNCHANGED stream PROVE ReplyInv' /\ Untouched'
      BY <2>2 DEF stream, origins, ReplyInv, ReplyType, Noted,
                  CorsForAllowedOrigins, HealthCheck, Untouched
    <2>3. ASSUME NEW s \in Stream, Endpoint(s) PROVE UNCHANGED stream
      BY <2>3, EndpointStep
    <2>4. QED
      BY <2>1, <2>2, <2>3 DEF Next, vars
  <1>3. QED
    BY <1>1, <1>2, FilterInvariant, PTL DEF Spec

(* The CORS headers are on every proxied and error response to an allowed  *)
(* origin, by the metadata or by the argument of send_error_response, and  *)
(* on no response to another origin.                                       *)
THEOREM CorsTellsAllowedOrigins == Spec => []CorsForAllowedOrigins
  <1>1. ReplyInv => CorsForAllowedOrigins
    BY DEF ReplyInv
  <1>2. QED
    BY <1>1, ReplyInvariant, PTL
=============================================================================
