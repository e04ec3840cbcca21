--------------------------- MODULE EnvoyAuditProofs ---------------------------
(***************************************************************************)
(* Proofs about the audit trail of EnvoyFilter, for bodies of any size:    *)
(* the records of a body are its consecutive chunks, all of them when the  *)
(* endpoint has answered 200; they fit; and only authorised exchanges      *)
(* leave any.                                                              *)
(***************************************************************************)
EXTENDS EnvoyFilterProofs

LEMMA StepType == safe_raw_chunk_size \in Nat /\ safe_raw_chunk_size >= 1
  <1>1. (MaxRecordSize - 100) \div 4 \in Int /\ (MaxRecordSize - 100) \div 4 >= 1
    BY RecordAssumption
  <1>2. QED
    BY <1>1 DEF safe_raw_chunk_size

(* The length of range(0, n, step).                                        *)
LEMMA CeilDiv ==
  ASSUME NEW n \in Nat, n >= 1, NEW step \in Nat, step >= 1
  PROVE  LET count == (n + step - 1) \div step
         IN  /\ count \in Nat /\ count >= 1
             /\ (count - 1) * step < n
             /\ n <= count * step
  <1> DEFINE m == n + step - 1
             c == m \div step
             r == m % step
  <1>1. m \in Nat /\ m >= step
    OBVIOUS
  <1>2. c \in Int /\ r \in 0 .. (step - 1) /\ m = step * c + r
    BY <1>1
  <1> HIDE DEF c, r
  <1>3. c * step = m - r /\ (c - 1) * step = m - r - step
    BY <1>1, <1>2
  <1>4. n <= c * step /\ (c - 1) * step < n
    BY <1>2, <1>3
  <1>5. c >= 1
    <2>1. SUFFICES ASSUME c <= 0 PROVE FALSE
      BY <1>2
    <2>2. c * step <= 0
      BY <1>2, <2>1
    <2>3. QED
      BY <1>2, <1>4, <2>2
  <1>6. QED
    BY <1>2, <1>4, <1>5 DEF c, m

(* chunk_body_data cuts n bytes into consecutive chunks, each but the last *)
(* of the same size, the last ending with the body.                        *)
LEMMA ChunksOfBody ==
  ASSUME NEW n \in Nat
  PROVE  LET cs == body_chunks(n)
         IN  /\ Len(cs) \in Nat /\ Len(cs) >= 1
             /\ \A k \in 1 .. Len(cs) :
                   /\ cs[k] \in [from : Nat, size : Nat]
                   /\ cs[k].size <= safe_raw_chunk_size
                   /\ cs[k].from = IF k = 1 THEN 0
                                   ELSE cs[k - 1].from + cs[k - 1].size
             /\ cs[Len(cs)].from + cs[Len(cs)].size = n
  <1>1. CASE n = 0
    <2>1. body_chunks(n) = <<[from |-> 0, size |-> 0]>>
      BY <1>1 DEF body_chunks
    <2>2. Len(body_chunks(n)) = 1 /\ body_chunks(n)[1] = [from |-> 0, size |-> 0]
      BY <2>1
    <2>3. \A k \in 1 .. 1 : k = 1
      OBVIOUS
    <2>4. QED
      BY <1>1, <2>2, <2>3, StepType
  <1>2. CASE n # 0
    <2> DEFINE step == safe_raw_chunk_size
               N == (n + step - 1) \div step
               Size(k) == IF n - (k - 1) * step < step THEN n - (k - 1) * step
                                                       ELSE step
               cs == body_chunks(n)
    <2>1. step \in Nat /\ step >= 1
      BY StepType
    <2>2. N \in Nat /\ N >= 1 /\ (N - 1) * step < n /\ n <= N * step
      BY <1>2, <2>1, CeilDiv
    <2>3. cs = [k \in 1 .. N |-> [from |-> (k - 1) * step, size |-> Size(k)]]
      BY <1>2 DEF body_chunks, chunk_body_data
    <2> HIDE DEF N, cs, step
    <2>4. Len(cs) = N
      BY <2>2, <2>3
    <2>5. \A k \in 1 .. N : (k - 1) * step \in Int /\ Size(k) \in Int
                            /\ Size(k) <= step
      BY <2>1, <2>2
    <2>6. \A k \in 1 .. (N - 1) : Size(k) = step
      <3>1. SUFFICES ASSUME NEW k \in 1 .. (N - 1) PROVE Size(k) = step
        OBVIOUS
      <3>2. k \in Int /\ k * step <= (N - 1) * step
        BY <2>1, <2>2
      <3>3. (k - 1) * step = k * step - step
        BY <2>1, <3>2
      <3>4. QED
        BY <1>2, <2>1, <2>2, <3>2, <3>3
    <2>7. Size(N) = n - (N - 1) * step
      <3>1. (N - 1) * step = N * step - step
        BY <2>1, <2>2
      <3>2. QED
        BY <2>1, <2>2, <3>1
    <2>n. \A k \in 1 .. N : Size(k) \in Nat
      <3>1. SUFFICES ASSUME NEW k \in 1 .. N PROVE Size(k) \in Nat
        OBVIOUS
      <3>2. CASE k = N
        BY <2>2, <2>5, <2>7, <3>2
      <3>3. CASE k # N
        BY <2>1, <2>2, <2>6, <3>3
      <3>4. QED
        BY <3>2, <3>3
    <2> HIDE DEF Size
    <2> DEFINE From(k) == (k - 1) * step
    <2>a. /\ \A k \in 1 .. N : From(k) \in Nat
          /\ \A k \in 1 .. N : From(k + 1) = From(k) + step
          /\ From(1) = 0 /\ From(N) \in Nat
      BY <2>1, <2>2
    <2>b. Size(N) = n - From(N)
      BY <2>7
    <2>c. cs = [k \in 1 .. N |-> [from |-> From(k), size |-> Size(k)]]
      BY <2>3
    <2> HIDE DEF From
    <2>8. \A k \in 1 .. N : /\ cs[k] = [from |-> From(k), size |-> Size(k)]
                            /\ cs[k].from = From(k)
                            /\ cs[k].size = Size(k)
      BY <2>c
    <2>9. \A k \in 1 .. N : cs[k].from = IF k = 1 THEN 0
                                ELSE cs[k - 1].from + cs[k - 1].size
      <3>1. SUFFICES ASSUME NEW k \in 1 .. N
                     PROVE  cs[k].from = IF k = 1 THEN 0
                                ELSE cs[k - 1].from + cs[k - 1].size
        OBVIOUS
      <3>2. CASE k = 1
        BY <2>a, <2>8, <3>2
      <3>3. CASE k # 1
        <4>1. k - 1 \in 1 .. (N - 1) /\ k - 1 \in 1 .. N /\ (k - 1) + 1 = k
          BY <2>2, <3>3
        <4>2. From(k) = From(k - 1) + step
          BY <2>a, <4>1
        <4>3. cs[k].from = From(k) /\ cs[k - 1].from = From(k - 1)
              /\ cs[k - 1].size = step
          BY <2>6, <2>8, <4>1
        <4>4. QED
          BY <3>3, <4>2, <4>3
      <3>4. QED
        BY <3>2, <3>3
    <2>10. cs[N].from + cs[N].size = n
      <3>1. N \in 1 .. N
        BY <2>2
      <3>2. cs[N].from = From(N) /\ cs[N].size = n - From(N)
        BY <2>b, <2>8, <3>1
      <3>3. QED
        BY <2>a, <3>2
    <2>11. \A k \in 1 .. N : cs[k] \in [from : Nat, size : Nat]
                             /\ cs[k].size <= step
      <3>1. SUFFICES ASSUME NEW k \in 1 .. N
                     PROVE  cs[k] \in [from : Nat, size : Nat] /\ cs[k].size <= step
        OBVIOUS
      <3>2. From(k) \in Nat /\ Size(k) \in Nat /\ Size(k) <= step
        BY <2>a, <2>5, <2>n
      <3>3. cs[k] = [from |-> From(k), size |-> Size(k)] /\ cs[k].size = Size(k)
        BY <2>8
      <3>4. QED
        BY <3>2, <3>3
    <2>12. QED
      BY <2>2, <2>4, <2>9, <2>10, <2>11 DEF cs, step
  <1>3. QED
    BY <1>1, <1>2

-----------------------------------------------------------------------------
Early == {"new", "buffering", "authorising"}

KinesisRecord == [chunk_id : Nat, num_chunks : Nat, from : Nat, size : Nat]

AuditType ==
    /\ body \in [Stream -> Nat]
    /\ delivered \in [Stream -> Nat]
    /\ records \in [Stream -> [Part -> Seq(KinesisRecord)]]

(* A call is made once, after the grant, and a response's after its last   *)
(* piece; its records are the first of the part's chunks, as far as the    *)
(* endpoint's loop has come.                                               *)
TrueRecords(s, p) ==
    /\ call[s][p] # "none" =>
          /\ granted[s]
          /\ pc[s] \notin Early
          /\ p \notin {RequestParts[i] : i \in 1 .. 3} =>
                pc[s] \notin {"upstream", "streaming"}
    /\ call[s][p] \in {"none", "lost", "sent"} => records[s][p] = <<>>
    /\ call[s][p] = "publishing" => Len(records[s][p]) < Len(chunks(s, p))
    /\ call[s][p] = "ok" /\ p \in Configured =>
          Len(records[s][p]) = Len(chunks(s, p))
    /\ Len(records[s][p]) <= Len(chunks(s, p))
    /\ \A k \in 1 .. Len(records[s][p]) : records[s][p][k] = Record(s, p, k)

AuditInv == AuditType /\ \A s \in Stream, p \in Part : TrueRecords(s, p)

LEMMA PartsAre ==
  /\ {RequestParts[i] : i \in 1 .. 3} =
        {"request_body", "request_headers", "request_trailers"}
  /\ {ResponseParts[i] : i \in 1 .. 3} =
        {"response_body", "response_headers", "response_trailers"}
  <1>1. 1 .. 3 = {1, 2, 3}
    OBVIOUS
  <1>2. QED
    BY <1>1 DEF RequestParts, ResponseParts

LEMMA ChunksOfPart ==
  ASSUME AuditType, NEW s \in Stream, NEW p \in Part
  PROVE  /\ Len(chunks(s, p)) \in Nat /\ Len(chunks(s, p)) >= 1
         /\ \A k \in 1 .. Len(chunks(s, p)) :
               /\ chunks(s, p)[k] \in [from : Nat, size : Nat]
               /\ chunks(s, p)[k].size <= safe_raw_chunk_size
               /\ chunks(s, p)[k].from =
                     IF k = 1 THEN 0
                     ELSE chunks(s, p)[k - 1].from + chunks(s, p)[k - 1].size
         /\ p \in BodyPart =>
               chunks(s, p)[Len(chunks(s, p))].from
                  + chunks(s, p)[Len(chunks(s, p))].size = Posted(s, p)
  <1>1. Posted(s, p) \in Nat
    BY DEF AuditType, Posted
  <1>2. CASE p \in BodyPart
    <2> DEFINE n == Posted(s, p)
               cs == body_chunks(n)
    <2>1. chunks(s, p) = cs
      BY <1>2 DEF chunks
    <2>2. /\ Len(cs) \in Nat /\ Len(cs) >= 1
          /\ \A k \in 1 .. Len(cs) :
                /\ cs[k] \in [from : Nat, size : Nat]
                /\ cs[k].size <= safe_raw_chunk_size
                /\ cs[k].from = IF k = 1 THEN 0
                                ELSE cs[k - 1].from + cs[k - 1].size
          /\ cs[Len(cs)].from + cs[Len(cs)].size = n
      BY <1>1, ChunksOfBody
    <2> HIDE DEF cs
    <2>3. QED
      BY <2>1, <2>2, Zenon
  <1>3. CASE p \notin BodyPart
    <2>1. chunks(s, p) = <<[from |-> 0, size |-> 0]>>
      BY <1>3 DEF chunks
    <2>2. Len(chunks(s, p)) = 1 /\ chunks(s, p)[1] = [from |-> 0, size |-> 0]
      BY <2>1
    <2>3. /\ chunks(s, p)[1] \in [from : Nat, size : Nat]
          /\ chunks(s, p)[1].size <= safe_raw_chunk_size
          /\ chunks(s, p)[1].from = 0
      BY <2>2, StepType
    <2>4. \A k \in 1 .. Len(chunks(s, p)) : k = 1
      BY <2>2
    <2>5. QED
      BY <1>3, <2>2, <2>3, <2>4
  <1>4. QED
    BY <1>2, <1>3

LEMMA RecordOfPart ==
  ASSUME AuditType, NEW s \in Stream, NEW p \in Part,
         NEW k \in 1 .. Len(chunks(s, p))
  PROVE  Record(s, p, k) \in KinesisRecord
  <1>1. Len(chunks(s, p)) \in Nat /\ chunks(s, p)[k] \in [from : Nat, size : Nat]
    BY ChunksOfPart
  <1>2. QED
    BY <1>1 DEF Record, KinesisRecord

LEMMA RecordFields ==
  ASSUME NEW s, NEW p, NEW k
  PROVE  /\ Record(s, p, k).chunk_id = k - 1
         /\ Record(s, p, k).num_chunks = Len(chunks(s, p))
         /\ Record(s, p, k).from = chunks(s, p)[k].from
         /\ Record(s, p, k).size = chunks(s, p)[k].size
  BY DEF Record

LEMMA AuditInit == Init => AuditInv
  <1> SUFFICES ASSUME Init PROVE AuditInv
    OBVIOUS
  <1>1. <<>> \in Seq(KinesisRecord) /\ Len(<<>>) = 0
    OBVIOUS
  <1>2. AuditType
    BY <1>1 DEF Init, AuditType
  <1>3. \A s \in Stream, p \in Part : call[s][p] = "none" /\ records[s][p] = <<>>
    BY DEF Init
  <1>4. ASSUME NEW s \in Stream, NEW p \in Part PROVE TrueRecords(s, p)
    BY <1>1, <1>2, <1>3, ChunksOfPart DEF TrueRecords
  <1>5. QED
    BY <1>2, <1>4 DEF AuditInv

(* A part without records and calls stays true whatever its body becomes.  *)
LEMMA UntouchedPart ==
  ASSUME AuditType', NEW s \in Stream, NEW p \in Part,
         call'[s][p] = "none", records'[s][p] = <<>>
  PROVE  TrueRecords(s, p)'
  <1>1. Len(chunks(s, p))' \in Nat
    <2>1. Posted(s, p)' \in Nat
      BY DEF AuditType, Posted
    <2>2. CASE p \in BodyPart
      <3>1. chunks(s, p)' = body_chunks(Posted(s, p)')
        BY <2>2 DEF chunks
      <3>2. QED
        BY <2>1, <3>1, ChunksOfBody
    <2>3. CASE p \notin BodyPart
      <3>1. chunks(s, p)' = <<[from |-> 0, size |-> 0]>>
        BY <2>3 DEF chunks
      <3>2. QED
        BY <3>1
    <2>4. QED
      BY <2>2, <2>3
  <1>2. QED
    BY <1>1 DEF TrueRecords

(* A part whose body, records and call do not change.                      *)
LEMMA FramedPart ==
  ASSUME AuditInv, NEW s \in Stream, NEW p \in Part,
         call'[s][p] = call[s][p], records'[s][p] = records[s][p],
         Posted(s, p)' = Posted(s, p) \/ p \notin BodyPart,
         call[s][p] # "none" =>
            /\ granted'[s]
            /\ pc'[s] \notin Early
            /\ p \notin {RequestParts[i] : i \in 1 .. 3} =>
                  pc'[s] \notin {"upstream", "streaming"}
  PROVE  TrueRecords(s, p)'
  <1>1. chunks(s, p)' = chunks(s, p)
    BY DEF chunks
  <1>2. \A k : Record(s, p, k)' = Record(s, p, k)
    BY <1>1 DEF Record
  <1>3. TrueRecords(s, p)
    BY DEF AuditInv
  <1>4. QED
    BY <1>1, <1>2, <1>3 DEF TrueRecords

(* Log calls for parts that have none yet.                                 *)
LEMMA LoggedParts ==
  ASSUME FilterType, AuditInv, AuditType', NEW s \in Stream, NEW n \in 0 .. 3,
         NEW parts \in {RequestParts, ResponseParts}, AsyncLog(s, parts, n),
         \A i \in 1 .. 3 : call[s][parts[i]] = "none",
         UNCHANGED <<body, delivered, records>>,
         granted'[s],
         pc'[s] \notin Early,
         parts = ResponseParts => pc'[s] \notin {"upstream", "streaming"},
         \A p \in Part : call[s][p] # "none" =>
            (p \notin {RequestParts[i] : i \in 1 .. 3} =>
                pc'[s] \notin {"upstream", "streaming"}),
         \A t \in Stream \ {s} : pc'[t] = pc[t] /\ granted'[t] = granted[t]
  PROVE  AuditInv'
  <1>1. PICK raised \in SUBSET {parts[i] : i \in 1 .. n} :
           call' = [call EXCEPT ![s] = [p \in Part |->
                       IF p \in raised THEN "lost"
                       ELSE IF p \in {parts[i] : i \in 1 .. n} THEN "sent"
                       ELSE call[s][p]]]
    BY DEF AsyncLog
  <1>2. SUFFICES ASSUME NEW t \in Stream, NEW p \in Part
                 PROVE  TrueRecords(t, p)'
    BY DEF AuditInv
  <1>3. /\ records'[t][p] = records[t][p]
        /\ Posted(t, p)' = Posted(t, p)
        /\ TrueRecords(t, p)
    BY DEF AuditInv, Posted
  <1>4. CASE t # s
    <2>1. call'[t] = call[t]
      BY <1>1, <1>4 DEF FilterType
    <2>2. QED
      BY <1>3, <1>4, <2>1, FramedPart DEF TrueRecords
  <1>5. CASE t = s /\ p \notin {parts[i] : i \in 1 .. n}
    <2>1. call'[t][p] = call[t][p]
      BY <1>1, <1>5 DEF FilterType
    <2>2. QED
      BY <1>3, <1>5, <2>1, FramedPart
  <1>6. CASE t = s /\ p \in {parts[i] : i \in 1 .. n}
    <2>1. call[t][p] = "none" /\ call'[t][p] \in {"lost", "sent"}
      <3>1. PICK i \in 1 .. n : p = parts[i]
        BY <1>6
      <3>2. i \in 1 .. 3
        OBVIOUS
      <3>3. call[t][p] = "none"
        BY <1>6, <3>1, <3>2
      <3>4. call'[t][p] \in {"lost", "sent"}
        BY <1>1, <1>6 DEF FilterType
      <3>5. QED
        BY <3>3, <3>4
    <2>2. records'[t][p] = <<>>
      BY <1>3, <2>1 DEF TrueRecords
    <2>3. Len(chunks(t, p))' \in Nat
      <3>1. chunks(t, p)' = chunks(t, p)
        BY <1>3 DEF chunks
      <3>2. QED
        BY <3>1, ChunksOfPart DEF AuditInv
    <2>4. p \notin {RequestParts[i] : i \in 1 .. 3} => parts = ResponseParts
      BY <1>6
    <2>5. QED
      BY <1>6, <2>1, <2>2, <2>3, <2>4 DEF TrueRecords
  <1>7. QED
    BY <1>4, <1>5, <1>6

(* The steps of the filter that change neither calls nor bodies.           *)
LEMMA UnauditedStep ==
  ASSUME FilterType, AuditInv, NEW s \in Stream, NEW to,
         UNCHANGED <<granted, body, delivered, call, records>>,
         pc' = [pc EXCEPT ![s] = to],
         to \in Early => pc[s] \in Early,
         to \in {"upstream", "streaming"} =>
            pc[s] \in Early \cup {"upstream", "streaming"}
  PROVE  AuditInv'
  <1>1. AuditType'
    BY DEF AuditInv, AuditType
  <1>2. ASSUME NEW t \in Stream, NEW p \in Part PROVE TrueRecords(t, p)'
    <2>1. Posted(t, p)' = Posted(t, p) /\ TrueRecords(t, p)
      BY DEF AuditInv, Posted
    <2>2. call[t][p] # "none" =>
             /\ granted'[t]
             /\ pc'[t] \notin Early
             /\ p \notin {RequestParts[i] : i \in 1 .. 3} =>
                   pc'[t] \notin {"upstream", "streaming"}
      BY <2>1 DEF FilterType, TrueRecords
    <2>3. QED
      BY <2>1, <2>2, FramedPart
  <1>3. QED
    BY <1>1, <1>2 DEF AuditInv

LEMMA AuditFilterStep ==
  ASSUME FilterInv, AuditInv, NEW s \in Stream, Filter(s)
  PROVE  AuditInv'
  <1>0. FilterType /\ Phase
    BY DEF FilterInv
  <1>1. CASE Ping(s) \/ Upgrade(s) \/ Preflight(s) \/ BufferingFails(s)
             \/ AuthoriseFails(s) \/ Reset(s)
    <2>1. \E to \in {"relayed", "done", "reset"} : pc' = [pc EXCEPT ![s] = to]
      BY <1>1 DEF Ping, Upgrade, Preflight, BufferingFails, AuthoriseFails,
                  Reset, envoy_on_response, send_error_response
    <2>2. UNCHANGED <<granted, body, delivered, call, records>>
      BY <1>1 DEF Ping, Upgrade, Preflight, BufferingFails, AuthoriseFails,
                  Reset, audit
    <2>3. PICK to \in {"relayed", "done", "reset"} : pc' = [pc EXCEPT ![s] = to]
      BY <2>1
    <2>4. to \notin Early /\ to \notin {"upstream", "streaming"}
      BY DEF Early
    <2>5. QED
      BY <1>0, <2>2, <2>3, <2>4, UnauditedStep
  <1>2. CASE Arrive(s)
    <2>1. PICK n \in BodySizes : body' = [body EXCEPT ![s] = n]
      BY <1>2 DEF Arrive
    <2>2. /\ pc[s] = "new"
          /\ pc' = [pc EXCEPT ![s] = "buffering"]
          /\ UNCHANGED <<granted, delivered, call, records>>
      BY <1>2 DEF Arrive, audit
    <2>3. AuditType'
      BY <2>1, <2>2, FilterAssumption DEF AuditInv, AuditType
    <2>4. ASSUME NEW t \in Stream, NEW p \in Part PROVE TrueRecords(t, p)'
      <3>1. TrueRecords(t, p)
        BY DEF AuditInv
      <3>2. CASE t = s
        <4>1. call'[t][p] = "none" /\ records'[t][p] = <<>>
          BY <2>2, <3>1, <3>2 DEF TrueRecords, Early
        <4>2. QED
          BY <2>3, <4>1, UntouchedPart
      <3>3. CASE t # s
        <4>1. /\ Posted(t, p)' = Posted(t, p)
              /\ pc'[t] = pc[t]
          BY <1>0, <2>1, <2>2, <3>3 DEF Posted, AuditInv, AuditType, FilterType
        <4>2. QED
          BY <2>2, <3>1, <4>1, FramedPart DEF TrueRecords
      <3>4. QED
        BY <3>2, <3>3
    <2>5. QED
      BY <2>3, <2>4 DEF AuditInv
  <1>3. CASE Buffered(s)
    <2>1. PICK to \in {"authorising", "done"} : pc' = [pc EXCEPT ![s] = to]
      BY <1>3 DEF Buffered, envoy_on_response, send_error_response
    <2>2. /\ pc[s] = "buffering"
          /\ UNCHANGED <<granted, body, delivered, call, records>>
      BY <1>3 DEF Buffered, audit
    <2>3. pc[s] \in Early /\ to \notin {"upstream", "streaming"}
      BY <2>2 DEF Early
    <2>4. QED
      BY <1>0, <2>1, <2>2, <2>3, UnauditedStep
  <1>4. CASE Authorised(s) \/ AuthorisedRaises(s)
    <2>1. PICK a \in Answers, n \in 0 .. 3 : Grant(s, a, n)
      <3>1. CASE Authorised(s)
        BY <3>1 DEF Authorised
      <3>2. CASE AuthorisedRaises(s)
        <4>1. PICK a \in Answers, n \in 0 .. 2 : Grant(s, a, n)
          BY <3>2 DEF AuthorisedRaises
        <4>2. n \in 0 .. 3
          OBVIOUS
        <4>3. QED
          BY <4>1, <4>2
      <3>3. QED
        BY <1>4, <3>1, <3>2
    <2>2. PICK to \in {"upstream", "streaming"} :
             /\ pc[s] = "authorising"
             /\ pc' = [pc EXCEPT ![s] = to]
             /\ UNCHANGED <<body, delivered, records>>
      BY <1>4 DEF Authorised, AuthorisedRaises, envoy_on_response, send_error_response
    <2>3. granted' = [granted EXCEPT ![s] = TRUE] /\ AsyncLog(s, RequestParts, n)
      BY <2>1 DEF Grant
    <2>4. \A p \in Part : call[s][p] = "none"
      BY <2>2 DEF AuditInv, TrueRecords, Early
    <2>5. \A i \in 1 .. 3 : call[s][RequestParts[i]] = "none"
      <3>1. \A i \in 1 .. 3 : RequestParts[i] \in Part
        BY DEF RequestParts, Part
      <3>2. QED
        BY <2>4, <3>1
    <2>6. AuditType'
      BY <2>2 DEF AuditInv, AuditType
    <2>7. RequestParts # ResponseParts
      BY DEF RequestParts, ResponseParts
    <2>8. /\ granted'[s] /\ pc'[s] \notin Early
          /\ \A t \in Stream \ {s} : pc'[t] = pc[t] /\ granted'[t] = granted[t]
      BY <1>0, <2>2, <2>3 DEF FilterType, Early
    <2>9. QED
      BY <1>0, <2>2, <2>3, <2>4, <2>5, <2>6, <2>7, <2>8, LoggedParts
  <1>5. CASE UpstreamResponds(s)
    <2>1. /\ pc[s] = "upstream"
          /\ pc' = [pc EXCEPT ![s] = "streaming"]
          /\ UNCHANGED <<granted, body, delivered, call, records>>
      BY <1>5 DEF UpstreamResponds, envoy_on_response, audit
    <2>2. "streaming" \notin Early
      BY DEF Early
    <2>3. QED
      BY <1>0, <2>1, <2>2, UnauditedStep
  <1>6. CASE Piece(s)
    <2>1. PICK n \in Pieces : delivered' = [delivered EXCEPT ![s] = @ + n]
      BY <1>6 DEF Piece
    <2>2. /\ pc[s] = "streaming"
          /\ UNCHANGED <<pc, granted, body, call, records>>
      BY <1>6 DEF Piece, audit
    <2>3. AuditType'
      <3>1. n \in Nat
        BY FilterAssumption
      <3>2. QED
        BY <2>1, <2>2, <3>1 DEF AuditInv, AuditType
    <2>4. ASSUME NEW t \in Stream, NEW p \in Part PROVE TrueRecords(t, p)'
      <3>1. TrueRecords(t, p)
        BY DEF AuditInv
      <3>2. CASE t = s /\ p = "response_body"
        <4>1. p \notin {RequestParts[i] : i \in 1 .. 3}
          BY <3>2, PartsAre
        <4>2. call'[t][p] = "none" /\ records'[t][p] = <<>>
          BY <2>2, <3>1, <3>2, <4>1 DEF TrueRecords
        <4>3. QED
          BY <2>3, <4>2, UntouchedPart
      <3>3. CASE ~(t = s /\ p = "response_body")
        <4>1. Posted(t, p)' = Posted(t, p) \/ p \notin BodyPart
          BY <2>1, <2>2, <3>3 DEF Posted, BodyPart, AuditInv, AuditType
        <4>2. QED
          BY <2>2, <3>1, <4>1, FramedPart DEF TrueRecords
      <3>4. QED
        BY <3>2, <3>3
    <2>5. QED
      BY <2>3, <2>4 DEF AuditInv
  <1>7. CASE ResponseEnds(s)
    <2>1. PICK n \in 0 .. 3 : AsyncLog(s, ResponseParts, n)
      BY <1>7 DEF ResponseEnds
    <2>2. /\ pc[s] = "streaming"
          /\ pc' = [pc EXCEPT ![s] = "done"]
          /\ UNCHANGED <<granted, body, delivered, records>>
      BY <1>7 DEF ResponseEnds
    <2>3. \A i \in 1 .. 3 : call[s][ResponseParts[i]] = "none"
      <3>1. SUFFICES ASSUME NEW i \in 1 .. 3
                     PROVE  call[s][ResponseParts[i]] = "none"
        OBVIOUS
      <3>2. /\ ResponseParts[i] \in Part
            /\ ResponseParts[i] \notin {RequestParts[j] : j \in 1 .. 3}
        BY PartsAre DEF Part
      <3>3. QED
        BY <2>2, <3>2 DEF AuditInv, TrueRecords
    <2>4. AuditType'
      BY <2>2 DEF AuditInv, AuditType
    <2>5. granted[s]
      BY <1>0, <2>2 DEF Phase
    <2>6. /\ granted'[s] /\ pc'[s] \notin Early
          /\ pc'[s] \notin {"upstream", "streaming"}
          /\ \A t \in Stream \ {s} : pc'[t] = pc[t] /\ granted'[t] = granted[t]
      BY <1>0, <2>2, <2>5 DEF FilterType, Early
    <2>7. QED
      BY <1>0, <2>1, <2>2, <2>3, <2>4, <2>6, LoggedParts
  <1>8. QED
    BY <1>1, <1>2, <1>3, <1>4, <1>5, <1>6, <1>7 DEF Filter

(* The next record of an endpoint's loop, or a call that is lost.          *)
LEMMA AuditEndpointStep ==
  ASSUME FilterInv, AuditInv, NEW s \in Stream, Endpoint(s)
  PROVE  AuditInv'
  <1>0. FilterType /\ AuditType
    BY DEF FilterInv, AuditInv
  <1>1. UNCHANGED <<pc, granted, body, delivered>>
    BY EndpointStep DEF stream
  <1>2. \A t \in Stream, r \in Part :
           /\ TrueRecords(t, r)
           /\ Posted(t, r)' = Posted(t, r)
           /\ chunks(t, r)' = chunks(t, r)
           /\ \A k : Record(t, r, k)' = Record(t, r, k)
    BY <1>1 DEF AuditInv, Posted, chunks, Record
  <1>3. PICK p \in Part : \/ publish(s, p)
                          \/ /\ call[s][p] = "sent" /\ Answer(s, p, "lost")
                             /\ UNCHANGED records
    BY DEF Endpoint, Lost, log_request_headers, log_request_body,
           log_request_trailers, log_response_headers, log_response_body,
           log_response_trailers, Part
  <1> DEFINE r == records[s][p]
             N == Len(chunks(s, p))
             new == Append(r, Record(s, p, Len(r) + 1))
  <1>4. /\ r \in Seq(KinesisRecord) /\ Len(r) \in Nat
        /\ N \in Nat /\ N >= 1
    BY <1>0, ChunksOfPart DEF AuditType
  <1>5. call[s][p] \in {"sent", "publishing"}
    BY <1>3 DEF publish
  <1>6. Len(r) < N
    <2>1. CASE call[s][p] = "sent"
      <3>1. r = <<>>
        BY <1>2, <2>1 DEF TrueRecords
      <3>2. QED
        BY <1>4, <3>1
    <2>2. CASE call[s][p] = "publishing"
      BY <1>2, <2>2 DEF TrueRecords
    <2>3. QED
      BY <1>5, <2>1, <2>2
  <1>7. /\ new \in Seq(KinesisRecord) /\ Len(new) = Len(r) + 1
        /\ \A k \in 1 .. Len(new) : new[k] = Record(s, p, k)
    <2>1. Len(r) + 1 \in 1 .. Len(chunks(s, p))
      BY <1>4, <1>6
    <2>2. Record(s, p, Len(r) + 1) \in KinesisRecord
      BY <1>0, <2>1, RecordOfPart
    <2>3. new \in Seq(KinesisRecord) /\ Len(new) = Len(r) + 1
      BY <1>4, <2>2
    <2>4. \A k \in 1 .. Len(r) : r[k] = Record(s, p, k)
      BY <1>2 DEF TrueRecords
    <2>5. \A k \in 1 .. Len(r) : new[k] = r[k]
      BY <1>4, <2>2
    <2>6. new[Len(r) + 1] = Record(s, p, Len(r) + 1)
      BY <1>4, <2>2
    <2>7. \A k \in 1 .. (Len(r) + 1) : k \in 1 .. Len(r) \/ k = Len(r) + 1
      BY <1>4
    <2> HIDE DEF new
    <2>8. QED
      BY <2>3, <2>4, <2>5, <2>6, <2>7
  <1> HIDE DEF new
  <1>8. /\ records' \in [Stream -> [Part -> Seq(KinesisRecord)]]
        /\ records'[s][p] \in {r, new}
        /\ \A t \in Stream, q \in Part :
              t # s \/ q # p => /\ records'[t][q] = records[t][q]
                               /\ call'[t][q] = call[t][q]
    <2>1. \/ records' = [records EXCEPT ![s][p] = new]
          \/ records' = records
      BY <1>3 DEF publish, put_record, new
    <2>2. \E c : call' = [call EXCEPT ![s][p] = c]
      BY <1>3 DEF publish, Answer
    <2>3. /\ records' \in [Stream -> [Part -> Seq(KinesisRecord)]]
          /\ records'[s][p] \in {r, new}
          /\ \A t \in Stream, q \in Part :
                t # s \/ q # p => records'[t][q] = records[t][q]
      <3>1. /\ records \in [Stream -> [Part -> Seq(KinesisRecord)]]
            /\ new \in Seq(KinesisRecord)
        BY <1>0, <1>7 DEF AuditType
      <3> HIDE DEF r
      <3>2. CASE records' = [records EXCEPT ![s][p] = new]
        BY <3>1, <3>2
      <3>3. CASE records' = records
        BY <3>1, <3>3 DEF r
      <3>4. QED
        BY <2>1, <3>2, <3>3
    <2>4. \A t \in Stream, q \in Part :
             t # s \/ q # p => call'[t][q] = call[t][q]
      BY <1>0, <2>2 DEF FilterType
    <2>5. QED
      BY <2>3, <2>4
  <1>9. /\ call'[s][p] = "lost" => call[s][p] = "sent" /\ records'[s][p] = r
        /\ call'[s][p] = "publishing" => records'[s][p] = new /\ Len(new) # N
        /\ call'[s][p] = "ok" /\ p \in Configured =>
              records'[s][p] = new /\ Len(new) = N
        /\ call'[s][p] \in {"lost", "publishing", "ok", "error"}
    <2>1. CASE call[s][p] = "sent" /\ Answer(s, p, "lost") /\ UNCHANGED records
      BY <1>0, <2>1 DEF Answer, FilterType
    <2>2. CASE publish(s, p) /\ p \notin Configured
      BY <1>0, <2>2 DEF publish, Answer, FilterType
    <2>3. CASE publish(s, p) /\ p \in Configured
      <3>1. CASE /\ put_record(s, p, TRUE)
                 /\ Answer(s, p, IF Len(r) + 1 = N THEN "ok" ELSE "publishing")
        <4>1. records' = [records EXCEPT ![s][p] = new]
          BY <3>1 DEF put_record, new
        <4>2. records'[s][p] = new
          BY <1>0, <4>1 DEF AuditType
        <4>3. call'[s][p] = IF Len(r) + 1 = N THEN "ok" ELSE "publishing"
          BY <1>0, <3>1 DEF Answer, FilterType
        <4>4. QED
          BY <1>7, <4>2, <4>3
      <3>2. CASE Answer(s, p, "error")
        BY <1>0, <3>2 DEF Answer, FilterType
      <3>3. QED
        BY <2>3, <3>1, <3>2 DEF publish
    <2>4. QED
      BY <1>3, <2>1, <2>2, <2>3
  <1>10. TrueRecords(s, p)'
    <2>1. TrueRecords(s, p)
      BY <1>2
    <2>2. /\ granted'[s]
          /\ pc'[s] \notin Early
          /\ p \notin {RequestParts[i] : i \in 1 .. 3} =>
                pc'[s] \notin {"upstream", "streaming"}
      BY <1>1, <1>5, <2>1 DEF TrueRecords
    <2>3. call'[s][p] = "lost" => records'[s][p] = <<>>
      BY <1>9, <2>1 DEF TrueRecords
    <2>4. /\ Len(records'[s][p]) <= N
          /\ \A k \in 1 .. Len(records'[s][p]) : records'[s][p][k] = Record(s, p, k)
      <3>1. CASE records'[s][p] = r
        BY <2>1, <3>1 DEF TrueRecords
      <3>2. CASE records'[s][p] = new
        <4>1. Len(new) <= N
          BY <1>4, <1>6, <1>7
        <4>2. QED
          BY <1>7, <3>2, <4>1
      <3>3. QED
        BY <1>8, <3>1, <3>2
    <2>5. call'[s][p] = "publishing" => Len(records'[s][p]) < N
      BY <1>4, <1>6, <1>7, <1>9
    <2>6. call'[s][p] = "ok" /\ p \in Configured => Len(records'[s][p]) = N
      BY <1>9
    <2>7. QED
      BY <1>2, <1>9, <2>2, <2>3, <2>4, <2>5, <2>6 DEF TrueRecords
  <1>11. ASSUME NEW t \in Stream, NEW q \in Part, t # s \/ q # p
         PROVE  TrueRecords(t, q)'
    BY <1>1, <1>2, <1>8, <1>11, FramedPart DEF TrueRecords
  <1>12. AuditType'
    BY <1>0, <1>1, <1>8 DEF AuditType
  <1>13. QED
    BY <1>10, <1>11, <1>12 DEF AuditInv

LEMMA AuditNext == FilterInv /\ AuditInv /\ [Next]_vars => AuditInv'
  <1> SUFFICES ASSUME FilterInv, AuditInv, [Next]_vars PROVE AuditInv'
    OBVIOUS
  <1>1. CASE Next
    BY <1>1, AuditFilterStep, AuditEndpointStep DEF Next
  <1>2. CASE UNCHANGED vars
    <2>1. UNCHANGED <<pc, granted, body, delivered, call, records>>
      BY <1>2 DEF vars, stream, audit
    <2>2. AuditType'
      BY <2>1 DEF AuditInv, AuditType
    <2>3. ASSUME NEW t \in Stream, NEW p \in Part PROVE TrueRecords(t, p)'
      <3>1. TrueRecords(t, p) /\ Posted(t, p)' = Posted(t, p)
        BY <2>1 DEF AuditInv, Posted
      <3>2. QED
        BY <2>1, <3>1, FramedPart DEF TrueRecords
    <2>4. QED
      BY <2>2, <2>3 DEF AuditInv
  <1>3. QED
    BY <1>1, <1>2

LEMMA AuditInvariant == Spec => [](FilterInv /\ AuditInv)
  <1>1. Init => AuditInv
    BY AuditInit
  <1>2. QED
    BY <1>1, AuditNext, FilterInvariant, PTL DEF Spec

(* Log calls and records exist for authorised exchanges only: the guard of *)
(* envoy_on_response and the early returns of envoy_on_request.            *)
THEOREM OnlyAuthorisedIsAudited == Spec => []AuditOnlyAuthorised
  <1>1. FilterInv /\ AuditInv => AuditOnlyAuthorised
    <2>1. SUFFICES ASSUME AuditInv, NEW s \in Stream, NEW p \in Part,
                          call[s][p] # "none" \/ records[s][p] # <<>>
                   PROVE  granted[s]
      BY DEF AuditOnlyAuthorised
    <2>2. TrueRecords(s, p)
      BY <2>1 DEF AuditInv
    <2>3. QED
      BY <2>1, <2>2 DEF TrueRecords
  <1>2. QED
    BY <1>1, AuditInvariant, PTL

(* Every chunk that the body endpoints publish fits its record.            *)
THEOREM RecordsAlwaysFit == Spec => []RecordsFit
  <1>1. FilterInv /\ AuditInv => RecordsFit
    <2>1. SUFFICES ASSUME AuditInv, NEW s \in Stream, NEW p \in Part,
                          NEW k \in 1 .. Len(records[s][p])
                   PROVE  b64len(records[s][p][k].size) + 100 <= MaxRecordSize
      BY DEF RecordsFit
    <2>2. TrueRecords(s, p) /\ AuditType
      BY <2>1 DEF AuditInv
    <2>3. Len(records[s][p]) \in Nat
      BY <2>2 DEF AuditType
    <2>4. Len(chunks(s, p)) \in Nat
      BY <2>2, ChunksOfPart
    <2>5. k \in 1 .. Len(chunks(s, p))
      BY <2>2, <2>3, <2>4 DEF TrueRecords
    <2>6. /\ chunks(s, p)[k].size \in Int
          /\ chunks(s, p)[k].size <= safe_raw_chunk_size
      BY <2>2, <2>5, ChunksOfPart
    <2>7. records[s][p][k].size = chunks(s, p)[k].size
      BY <2>2, RecordFields DEF TrueRecords
    <2>8. QED
      BY <2>6, <2>7, ChunkFits
  <1>2. QED
    BY <1>1, AuditInvariant, PTL

(* The records of a body are consecutive chunks from its start, and all of *)
(* it once the endpoint has answered 200, for bodies of any size.          *)
THEOREM RecordsAreTheBody == Spec => []AuditedBody
  <1>1. FilterInv /\ AuditInv => AuditedBody
    <2> SUFFICES ASSUME AuditInv, NEW s \in Stream, NEW p \in Part
                 PROVE  LET r == records[s][p]
                            End(k) == r[k].from + r[k].size
                        IN  /\ \A k \in 1 .. Len(r) :
                                  /\ r[k].chunk_id = k - 1
                                  /\ r[k].chunk_id < r[k].num_chunks
                                  /\ r[k].num_chunks = r[1].num_chunks
                                  /\ r[k].from = IF k = 1 THEN 0 ELSE End(k - 1)
                            /\ (call[s][p] = "ok" /\ p \in Configured) =>
                                  /\ Len(r) > 0
                                  /\ Len(r) = r[1].num_chunks
                                  /\ p \in BodyPart => End(Len(r)) = Posted(s, p)
      BY Zenon DEF AuditedBody
    <2> DEFINE r == records[s][p]
               cs == chunks(s, p)
               End(k) == r[k].from + r[k].size
    <2>1. TrueRecords(s, p) /\ AuditType
      BY DEF AuditInv
    <2>2. /\ Len(cs) \in Nat /\ Len(cs) >= 1
          /\ \A k \in 1 .. Len(cs) :
                cs[k].from = IF k = 1 THEN 0 ELSE cs[k - 1].from + cs[k - 1].size
          /\ p \in BodyPart =>
                cs[Len(cs)].from + cs[Len(cs)].size = Posted(s, p)
      BY <2>1, ChunksOfPart
    <2>3. Len(r) \in Nat
      BY <2>1 DEF AuditType
    <2>4. Len(r) <= Len(cs)
      BY <2>1 DEF TrueRecords
    <2>5. \A k \in 1 .. Len(r) : /\ r[k].chunk_id = k - 1
                                 /\ r[k].num_chunks = Len(cs)
                                 /\ r[k].from = cs[k].from
                                 /\ r[k].size = cs[k].size
      <3>1. \A k \in 1 .. Len(r) : r[k] = Record(s, p, k)
        BY <2>1 DEF TrueRecords
      <3>2. QED
        BY <3>1, RecordFields
    <2>6. (call[s][p] = "ok" /\ p \in Configured) => Len(r) = Len(cs)
      BY <2>1 DEF TrueRecords
    <2> HIDE DEF r, cs
    <2>7. ASSUME NEW k \in 1 .. Len(r)
          PROVE  /\ r[k].chunk_id = k - 1
                 /\ r[k].chunk_id < r[k].num_chunks
                 /\ r[k].num_chunks = r[1].num_chunks
                 /\ r[k].from = IF k = 1 THEN 0 ELSE End(k - 1)
      <3>1. k \in 1 .. Len(cs) /\ 1 \in 1 .. Len(r)
        BY <2>2, <2>3, <2>4
      <3>2. k # 1 => k - 1 \in 1 .. Len(r)
        BY <2>3
      <3>3. r[k].from = IF k = 1 THEN 0 ELSE End(k - 1)
        BY <2>2, <2>5, <3>1, <3>2
      <3>4. QED
        BY <2>2, <2>4, <2>5, <3>1, <3>3
    <2>8. ASSUME call[s][p] = "ok", p \in Configured
          PROVE  /\ Len(r) > 0
                 /\ Len(r) = r[1].num_chunks
                 /\ p \in BodyPart => End(Len(r)) = Posted(s, p)
      <3>1. Len(r) = Len(cs) /\ 1 \in 1 .. Len(r) /\ Len(r) \in 1 .. Len(r)
        BY <2>2, <2>6, <2>8
      <3>2. QED
        BY <2>2, <2>5, <3>1
    <2>9. QED
      BY <2>7, <2>8, Zenon DEF r
  <1>2. QED
    BY <1>1, AuditInvariant, PTL

(* The types of the whole state, for any streams, headers and sizes; that  *)
(* of the records rests on what chunk_body_data yields.                    *)
THEOREM FilterTypes == Spec => []TypeOK
  <1>1. FilterInv /\ AuditInv /\ ReplyInv => TypeOK
    BY DEF FilterInv, FilterType, AuditInv, AuditType, ReplyInv, ReplyType,
           Mechanism, KinesisRecord, TypeOK
  <1>2. QED
    BY <1>1, AuditInvariant, ReplyInvariant, PTL
=============================================================================
