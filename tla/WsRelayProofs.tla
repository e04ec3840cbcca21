---------------------------- MODULE WsRelayProofs ----------------------------
(***************************************************************************)
(* Proofs about WsRelay: types, the connection limit, and the draining of  *)
(* the log queue, for any connections, workers and queue size.             *)
(***************************************************************************)
EXTENDS WsRelay, FiniteSetTheorems, TLAPS

USE DEF Serving, conns, pumps, log, down

LEMMA WorkerCount == Cardinality(Worker) \in Nat /\ Cardinality(Worker) > 0
  BY RelayAssumption, FS_CardinalityType, FS_EmptySet

LEMMA TypeInit == Init => TypeOK
  <1>1. <<>> \in Seq(Queued) /\ Len(<<>>) = 0
    OBVIOUS
  <1>2. QED
    BY <1>1, WorkerCount, RelayAssumption
    DEF Init, TypeOK, CloseCodes, PumpStates, Queued

(* A put keeps the queue within its size.                                  *)
LEMMA PutType ==
  ASSUME TypeOK, ~Full, NEW e \in Queued
  PROVE  /\ Append(queue, e) \in Seq(Queued)
         /\ Len(Append(queue, e)) <= QueueSize
  BY RelayAssumption DEF TypeOK, Full

LEMMA ItemType ==
  ASSUME TypeOK, NEW p \in Pump
  PROVE  item(p) \in Item
  BY DEF TypeOK, item, Item, Pump

LEMMA TypeConn ==
  ASSUME TypeOK, NEW c \in Conn, Connect(c) \/ ConnStep(c)
  PROVE  TypeOK'
  <1>0. /\ pc \in [Conn -> Serving \cup {"new", "done"}]
        /\ active \subseteq Conn
        /\ code \in [Conn -> CloseCodes]
    BY DEF TypeOK
  <1>1. CASE Connect(c)
    <2>1. /\ pc' \in [Conn -> Serving \cup {"new", "done"}]
          /\ active' \subseteq Conn
          /\ code' \in [Conn -> CloseCodes]
      BY <1>0, <1>1 DEF Connect, Leave, CloseCodes
    <2>2. QED
      BY <1>1, <2>1 DEF Connect, TypeOK
  <1>2. CASE AuthReturns(c)
    <2>1. /\ pc' \in [Conn -> Serving \cup {"new", "done"}]
          /\ active' \subseteq Conn
          /\ code' \in [Conn -> CloseCodes]
      BY <1>0, <1>2 DEF AuthReturns, Leave, CloseCodes
    <2>2. QED
      BY <1>2, <2>1 DEF AuthReturns, TypeOK
  <1>3. CASE MetadataPublished(c)
    <2>1. /\ pc' \in [Conn -> Serving \cup {"new", "done"}]
          /\ active' \subseteq Conn
          /\ code' \in [Conn -> CloseCodes]
      BY <1>0, <1>3 DEF MetadataPublished, Leave, CloseCodes
    <2>2. QED
      BY <1>3, <2>1 DEF MetadataPublished, TypeOK
  <1>4. CASE UpstreamConnected(c)
    <2>1. /\ pc' \in [Conn -> Serving \cup {"new", "done"}]
          /\ active' \subseteq Conn
          /\ code' \in [Conn -> CloseCodes]
      BY <1>0, <1>4 DEF UpstreamConnected, Leave, CloseCodes
    <2>2. /\ upstream' \in [Conn -> {"none", "open", "closed"}]
          /\ pump' \in [Pump -> PumpStates]
      BY <1>4 DEF UpstreamConnected, TypeOK, PumpStates
    <2>3. QED
      BY <1>4, <2>1, <2>2 DEF UpstreamConnected, TypeOK
  <1>5. CASE PumpEnds(c)
    BY <1>5 DEF PumpEnds, RelayReturns, TypeOK, CloseCodes, PumpStates
  <1>6. CASE LifetimeExpires(c)
    BY <1>6 DEF LifetimeExpires, RelayReturns, TypeOK, CloseCodes
  <1>7. CASE SummaryPublished(c)
    BY <1>7 DEF SummaryPublished, TypeOK
  <1>8. CASE UpstreamClosed(c)
    BY <1>8 DEF UpstreamClosed, TypeOK
  <1>9. CASE ClientClosed(c)
    BY <1>9 DEF ClientClosed, Leave, TypeOK
  <1>10. QED
    BY <1>1, <1>2, <1>3, <1>4, <1>5, <1>6, <1>7, <1>8, <1>9 DEF ConnStep

LEMMA TypeSend ==
  ASSUME TypeOK, NEW p \in Pump, Send(p)
  PROVE  /\ pump' \in [Pump -> PumpStates]
         /\ sent' \in [Pump -> Nat]
         /\ index' \in [Pump -> Nat]
  <1>1. /\ pump \in [Pump -> PumpStates]
        /\ sent \in [Pump -> Nat]
        /\ index \in [Pump -> Nat]
    BY DEF TypeOK
  <1>2. sent' = [sent EXCEPT ![p] = sent[p] + 1]
    BY DEF Send
  <1>3. \/ /\ pump' = [pump EXCEPT ![p] = "receive"]
           /\ index' = [index EXCEPT ![p] = index[p] + 1]
        \/ pump' = [pump EXCEPT ![p] = "blocked"] /\ index' = index
        \/ pump' = [pump EXCEPT ![p] = "publish"] /\ index' = index
    BY DEF Send, Logged
  <1>4. QED
    BY <1>1, <1>2, <1>3 DEF PumpStates

LEMMA TypePump ==
  ASSUME TypeOK, NEW p \in Pump, PumpStep(p)
  PROVE  TypeOK'
  <1>1. CASE Receive(p)
    BY <1>1 DEF Receive, TypeOK, PumpStates
  <1>2. CASE Disconnect(p)
    BY <1>2 DEF Disconnect, TypeOK, PumpStates
  <1>3. CASE Send(p)
    <2>1. CASE life # "down" /\ ~Full
      <3>1. queue' = Append(queue, item(p)) /\ item(p) \in Queued
        BY <1>3, <2>1, ItemType DEF Send, Queued
      <3>2. QED
        BY <1>3, <2>1, <3>1, PutType, TypeSend DEF Send, TypeOK
    <2>2. CASE ~(life # "down" /\ ~Full)
      <3>1. UNCHANGED queue
        BY <1>3, <2>2 DEF Send
      <3>2. QED
        BY <1>3, <3>1, TypeSend DEF Send, TypeOK
    <2>3. QED
      BY <2>1, <2>2
  <1>4. CASE SendFails(p)
    BY <1>4 DEF SendFails, TypeOK, PumpStates
  <1>5. CASE Unblock(p)
    BY <1>5, PutType, ItemType DEF Unblock, Logged, TypeOK, PumpStates, Queued
  <1>6. CASE PublishedDirectly(p)
    BY <1>6, ItemType DEF PublishedDirectly, Logged, TypeOK, PumpStates
  <1>7. QED
    BY <1>1, <1>2, <1>3, <1>4, <1>5, <1>6 DEF PumpStep

LEMMA TypeWorker ==
  ASSUME TypeOK, NEW w \in Worker, Get(w) \/ Published(w)
  PROVE  TypeOK'
  <1>1. CASE Get(w)
    <2>1. /\ Tail(queue) \in Seq(Queued)
          /\ Len(Tail(queue)) <= QueueSize
          /\ Head(queue) \in Queued
      BY <1>1, RelayAssumption DEF Get, TypeOK
    <2>2. QED
      BY <1>1, <2>1 DEF Get, TypeOK
  <1>2. CASE Published(w)
    BY <1>2 DEF Published, TypeOK, Queued
  <1>3. QED
    BY <1>1, <1>2

LEMMA TypeDown ==
  ASSUME TypeOK, Shutdown \/ DrainTimeout \/ PutPill \/ Stopped
  PROVE  TypeOK'
  <1>1. Items(queue) \cup Held \cup published \subseteq Item
    BY DEF Items, Held, TypeOK, Queued
  <1>2. CASE Shutdown
    <2>1. CASE active # {}
      BY <1>2, <2>1 DEF Shutdown, CancelAll, TypeOK, CloseCodes
    <2>2. CASE active = {}
      BY <1>1, <1>2, <2>2 DEF Shutdown, StopBegins, TypeOK
    <2>3. QED
      BY <2>1, <2>2
  <1>3. CASE DrainTimeout
    BY <1>1, <1>3 DEF DrainTimeout, StopBegins, TypeOK
  <1>4. CASE PutPill
    <2>1. None \in Queued
      BY DEF Queued
    <2>2. pills' \in 0..Cardinality(Worker)
      BY <1>4, WorkerCount DEF PutPill, TypeOK
    <2>3. QED
      BY <1>4, <2>1, <2>2, PutType DEF PutPill, TypeOK
  <1>5. CASE Stopped
    BY <1>5 DEF Stopped, TypeOK
  <1>6. QED
    BY <1>2, <1>3, <1>4, <1>5

LEMMA TypeNext == TypeOK /\ [Next]_vars => TypeOK'
  <1> SUFFICES ASSUME TypeOK, [Next]_vars PROVE TypeOK'
    OBVIOUS
  <1>1. CASE UNCHANGED vars
    BY <1>1 DEF vars, TypeOK
  <1>2. CASE Idle
    BY <1>2 DEF Idle, vars, TypeOK
  <1>3. QED
    BY <1>1, <1>2, TypeConn, TypePump, TypeWorker, TypeDown DEF Next

(* Every state has the types TypeOK states, whatever the numbers of        *)
(* connections, workers and queue places: in particular the log queue of   *)
(* relay/logger.py never holds more than its size.                         *)
THEOREM RelayTypes == Spec => []TypeOK
  BY TypeInit, TypeNext, PTL DEF Spec

-----------------------------------------------------------------------------
(* The connection limit.  Besides the limit itself the invariant needs     *)
(* that the set is finite, for its cardinality to count anything.          *)
LimitInv == IsFiniteSet(active) /\ ConnectionLimit

LEMMA LeaveLimit ==
  ASSUME TypeOK, LimitInv, NEW c \in Conn, NEW close, Leave(c, close)
  PROVE  LimitInv'
  <1>1. active' = active \ {c} /\ pc' = [pc EXCEPT ![c] = "done"]
    BY DEF Leave
  <1>2. IsFiniteSet(active') /\ Cardinality(active') <= Cardinality(active)
    BY <1>1, FS_Subset DEF LimitInv
  <1>3. Cardinality(active') <= MaxConnections
    <2>1. /\ Cardinality(active) \in Nat
          /\ Cardinality(active') \in Nat
          /\ MaxConnections \in Nat
      BY <1>2, WorkerCount, FS_CardinalityType DEF LimitInv, MaxConnections
    <2>2. QED
      BY <1>2, <2>1 DEF LimitInv, ConnectionLimit
  <1>4. active' = {d \in Conn : pc'[d] \in Serving}
    BY <1>1 DEF LimitInv, ConnectionLimit, TypeOK
  <1>5. QED
    BY <1>2, <1>3, <1>4 DEF LimitInv, ConnectionLimit, MaxConnections

(* A step of a connection that is served and goes on being served.         *)
LEMMA ServedLimit ==
  ASSUME TypeOK, LimitInv, NEW c \in Conn, NEW next \in Serving,
         pc[c] \in Serving, pc' = [pc EXCEPT ![c] = next], UNCHANGED active
  PROVE  LimitInv'
  BY DEF LimitInv, ConnectionLimit, TypeOK, MaxConnections

LEMMA LimitConn ==
  ASSUME TypeOK, LimitInv, NEW c \in Conn, Connect(c) \/ ConnStep(c)
  PROVE  LimitInv'
  <1>1. CASE \E close : Leave(c, close)
    BY <1>1, LeaveLimit
  <1>2. CASE ~\E close : Leave(c, close)
    <2>1. CASE Connect(c)
      <3>1. /\ pc[c] = "new" /\ pc' = [pc EXCEPT ![c] = "auth"]
            /\ active' = active \cup {c}
            /\ Cardinality(active) < MaxConnections
        BY <1>2, <2>1 DEF Connect
      <3>2. c \notin active
        BY <3>1 DEF LimitInv, ConnectionLimit
      <3>3. /\ IsFiniteSet(active')
            /\ Cardinality(active') = Cardinality(active) + 1
        BY <3>1, <3>2, FS_AddElement DEF LimitInv
      <3>4. Cardinality(active) \in Nat /\ MaxConnections \in Nat
        BY WorkerCount, FS_CardinalityType DEF LimitInv, MaxConnections
      <3>5. Cardinality(active') <= MaxConnections
        BY <3>1, <3>3, <3>4
      <3>6. active' = {d \in Conn : pc'[d] \in Serving}
        BY <3>1 DEF LimitInv, ConnectionLimit, TypeOK
      <3>7. QED
        BY <3>3, <3>5, <3>6 DEF LimitInv, ConnectionLimit, MaxConnections
    <2>2. CASE ConnStep(c)
      <3>1. /\ pc[c] \in Serving /\ UNCHANGED active
            /\ \E next \in Serving : pc' = [pc EXCEPT ![c] = next]
        BY <1>2, <2>2
        DEF ConnStep, AuthReturns, MetadataPublished, UpstreamConnected,
            PumpEnds, LifetimeExpires, RelayReturns, SummaryPublished,
            UpstreamClosed, ClientClosed
      <3>2. QED
        BY <3>1, ServedLimit
    <2>3. QED
      BY <2>1, <2>2
  <1>3. QED
    BY <1>1, <1>2

LEMMA LimitShutdown ==
  ASSUME TypeOK, LimitInv, Shutdown
  PROVE  LimitInv'
  <1>1. CASE UNCHANGED conns
    BY <1>1 DEF LimitInv, ConnectionLimit, MaxConnections
  <1>2. CASE ~UNCHANGED conns
    <2>1. CancelAll
      BY <1>2 DEF Shutdown
    <2>2. /\ active' = {c \in active : pc[c] = "relay"}
          /\ pc' = [c \in Conn |->
                IF c \in active' THEN "summary"
                ELSE IF c \in active THEN "done" ELSE pc[c]]
      BY <2>1 DEF CancelAll
    <2>3. active' \subseteq active
      BY <2>2
    <2>4. IsFiniteSet(active') /\ Cardinality(active') <= Cardinality(active)
      BY <2>3, FS_Subset DEF LimitInv
    <2>5. /\ Cardinality(active) \in Nat
          /\ Cardinality(active') \in Nat
          /\ MaxConnections \in Nat
      BY <2>4, WorkerCount, FS_CardinalityType DEF LimitInv, MaxConnections
    <2>6. Cardinality(active') <= MaxConnections
      BY <2>4, <2>5 DEF LimitInv, ConnectionLimit
    <2>7. active' = {d \in Conn : pc'[d] \in Serving}
      BY <2>2 DEF LimitInv, ConnectionLimit, TypeOK
    <2>8. QED
      BY <2>4, <2>6, <2>7 DEF LimitInv, ConnectionLimit, MaxConnections
  <1>3. QED
    BY <1>1, <1>2

LEMMA LimitInit == Init => LimitInv
  BY WorkerCount, FS_EmptySet
  DEF Init, LimitInv, ConnectionLimit, MaxConnections

LEMMA LimitNext == TypeOK /\ LimitInv /\ [Next]_vars => LimitInv'
  <1> SUFFICES ASSUME TypeOK, LimitInv, [Next]_vars PROVE LimitInv'
    OBVIOUS
  <1>1. CASE UNCHANGED conns
    BY <1>1 DEF LimitInv, ConnectionLimit, MaxConnections
  <1>2. CASE ~UNCHANGED conns
    <2>1. \/ \E c \in Conn : Connect(c) \/ ConnStep(c)
          \/ Shutdown
      BY <1>2
      DEF Next, vars, PumpStep, Receive, Disconnect, Send, SendFails, Unblock,
          PublishedDirectly, Get, Published, DrainTimeout, PutPill, Stopped,
          Idle
    <2>2. QED
      BY <2>1, LimitConn, LimitShutdown
  <1>3. QED
    BY <1>1, <1>2

(* At any time the connections being served are exactly those registered,  *)
(* and no more than max_connections (ws_relay of app.py).                  *)
THEOREM ConnectionsLimited == Spec => []ConnectionLimit
  <1>1. Spec => [](TypeOK /\ LimitInv)
    BY TypeInit, TypeNext, LimitInit, LimitNext, PTL DEF Spec
  <1>2. LimitInv => ConnectionLimit
    BY DEF LimitInv
  <1>3. QED
    BY <1>1, <1>2, PTL

-----------------------------------------------------------------------------
(* Draining.  An item that was in the queue when stop() began is ahead of  *)
(* every pill, so it leaves the queue before any worker ends; until then   *)
(* some worker is left to publish it.                                      *)
AheadOfPills(it) ==
    \E n \in 1..Len(queue) :
        /\ queue[n] = it
        /\ \A m \in 1..n : queue[m] # None

InHand(it) == it \in published \/ \E w \in Worker : worker[w] = it

NoneEnded == \A w \in Worker : worker[w] # Ended

NoPills == \A n \in 1..Len(queue) : queue[n] # None

DrainInv ==
    /\ life \in {"up", "drain"} => accepted = {} /\ NoPills /\ NoneEnded
    /\ \A it \in accepted : InHand(it) \/ (AheadOfPills(it) /\ NoneEnded)
    /\ life = "down" => \A w \in Worker : worker[w] = Ended

LEMMA DrainInit == Init => DrainInv
  BY MarkAssumption DEF Init, DrainInv, NoPills, NoneEnded

(* A put at the end of the queue.                                          *)
LEMMA PutDrain ==
  ASSUME TypeOK, DrainInv, NEW e \in Queued, queue' = Append(queue, e),
         e # None \/ life = "stop", UNCHANGED <<worker, published, life, accepted>>
  PROVE  DrainInv'
  <1>1. /\ Len(queue') = Len(queue) + 1
        /\ \A n \in 1..Len(queue) : queue'[n] = queue[n]
        /\ queue'[Len(queue) + 1] = e
        /\ Len(queue) \in Nat
    BY DEF TypeOK
  <1>2. \A it : AheadOfPills(it) => AheadOfPills(it)'
    BY <1>1 DEF AheadOfPills
  <1>3. NoPills /\ e # None => NoPills'
    BY <1>1 DEF NoPills
  <1>4. QED
    BY <1>2, <1>3 DEF DrainInv, InHand, NoneEnded

LEMMA GetDrain ==
  ASSUME TypeOK, DrainInv, NEW w \in Worker, Get(w)
  PROVE  DrainInv'
  <1>1. /\ queue # <<>> /\ queue' = Tail(queue) /\ worker[w] = None
        /\ UNCHANGED <<published, life, accepted>>
    BY DEF Get
  <1>2. /\ Len(queue) \in Nat /\ Len(queue) > 0 /\ Head(queue) = queue[1]
        /\ Len(queue') = Len(queue) - 1
        /\ \A n \in 1..Len(queue') : queue'[n] = queue[n + 1]
    BY <1>1 DEF TypeOK
  <1>3. \A v \in Worker \ {w} : worker'[v] = worker[v]
    BY DEF Get, TypeOK
  <1>4. accepted \subseteq Item /\ None \notin Item
    BY MarkAssumption DEF TypeOK
  <1>5. \A it \in accepted : InHand(it) => InHand(it)'
    BY <1>1, <1>3, <1>4 DEF InHand
  <1>6. life # "down"
    BY <1>1, MarkAssumption DEF DrainInv
  <1>7. CASE queue[1] = None
    <2>1. \A it : ~AheadOfPills(it)
      BY <1>2, <1>7 DEF AheadOfPills
    <2>2. life \notin {"up", "drain"}
      BY <1>2, <1>7 DEF DrainInv, NoPills
    <2>3. QED
      BY <1>1, <1>5, <1>6, <2>1, <2>2 DEF DrainInv
  <1>8. CASE queue[1] # None
    <2>1. worker'[w] = queue[1] /\ queue[1] \in Item
      BY <1>1, <1>2, <1>8 DEF Get, TypeOK, Queued
    <2>2. NoneEnded => NoneEnded'
      BY <1>3, <2>1, MarkAssumption DEF NoneEnded
    <2>3. ASSUME NEW it, AheadOfPills(it)
          PROVE  InHand(it)' \/ AheadOfPills(it)'
      <3>1. PICK n \in 1..Len(queue) :
               queue[n] = it /\ \A m \in 1..n : queue[m] # None
        BY <2>3 DEF AheadOfPills
      <3>2. CASE n = 1
        BY <2>1, <3>1, <3>2 DEF InHand
      <3>3. CASE n # 1
        <4>1. n - 1 \in 1..Len(queue') /\ queue'[n - 1] = it
          BY <1>2, <3>1, <3>3
        <4>2. \A m \in 1..(n - 1) : queue'[m] # None
          BY <1>2, <3>1, <3>3
        <4>3. QED
          BY <4>1, <4>2 DEF AheadOfPills
      <3>4. QED
        BY <3>2, <3>3
    <2>4. NoPills => NoPills'
      BY <1>2 DEF NoPills
    <2>5. QED
      BY <1>1, <1>5, <1>6, <2>2, <2>3, <2>4 DEF DrainInv
  <1>9. QED
    BY <1>7, <1>8

LEMMA PublishedDrain ==
  ASSUME TypeOK, DrainInv, NEW w \in Worker, Published(w)
  PROVE  DrainInv'
  <1>1. /\ worker[w] \in Item
        /\ published' = published \cup {worker[w]}
        /\ worker'[w] = None
        /\ \A v \in Worker \ {w} : worker'[v] = worker[v]
        /\ UNCHANGED <<queue, life, accepted>>
    BY DEF Published, TypeOK
  <1>2. \A it : InHand(it) => InHand(it)'
    BY <1>1 DEF InHand
  <1>3. NoneEnded => NoneEnded'
    BY <1>1, MarkAssumption DEF NoneEnded
  <1>4. life # "down"
    BY <1>1, MarkAssumption DEF DrainInv
  <1>5. NoPills' = NoPills /\ \A it : AheadOfPills(it)' = AheadOfPills(it)
    BY <1>1 DEF NoPills, AheadOfPills
  <1>6. QED
    BY <1>1, <1>2, <1>3, <1>4, <1>5 DEF DrainInv

LEMMA StopDrain ==
  ASSUME TypeOK, DrainInv, life \in {"up", "drain"}, StopBegins,
         UNCHANGED <<queue, worker, published>>
  PROVE  DrainInv'
  <1>1. /\ life' = "stop"
        /\ accepted' = Items(queue) \cup Held \cup published
        /\ NoPills /\ NoneEnded
    BY DEF StopBegins, DrainInv
  <1>2. \A it \in Items(queue) : AheadOfPills(it)
    <2>1. DOMAIN queue = 1..Len(queue)
      BY DEF TypeOK
    <2>2. ASSUME NEW n \in 1..Len(queue)
          PROVE  AheadOfPills(queue[n])
      BY <1>1, <2>2 DEF NoPills, AheadOfPills, TypeOK
    <2>3. QED
      BY <2>1, <2>2 DEF Items
  <1>3. \A it \in Held \cup published : InHand(it)
    BY DEF Held, InHand
  <1>4. /\ \A it : AheadOfPills(it)' = AheadOfPills(it)
        /\ \A it : InHand(it)' = InHand(it)
        /\ NoneEnded' = NoneEnded
    BY DEF AheadOfPills, InHand, NoneEnded
  <1>5. QED
    BY <1>1, <1>2, <1>3, <1>4 DEF DrainInv

LEMMA DrainNext == TypeOK /\ DrainInv /\ [Next]_vars => DrainInv'
  <1> SUFFICES ASSUME TypeOK, DrainInv, [Next]_vars PROVE DrainInv'
    OBVIOUS
  <1>1. CASE UNCHANGED <<queue, worker, published, life, accepted>>
    BY <1>1 DEF DrainInv, InHand, AheadOfPills, NoPills, NoneEnded
  <1>2. ASSUME NEW p \in Pump, PumpStep(p) PROVE DrainInv'
    <2>1. item(p) \in Queued /\ item(p) # None
      BY ItemType, MarkAssumption DEF Queued
    <2>2. CASE PublishedDirectly(p)
      <3>1. /\ published \subseteq published'
            /\ UNCHANGED <<queue, worker, life, accepted>>
        BY <2>2 DEF PublishedDirectly
      <3>2. QED
        BY <3>1 DEF DrainInv, InHand, AheadOfPills, NoPills, NoneEnded
    <2>3. CASE queue' = Append(queue, item(p)) /\ (Send(p) \/ Unblock(p))
      <3>1. UNCHANGED <<worker, published, life, accepted>>
        BY <2>3 DEF Send, Unblock
      <3>2. QED
        BY <2>1, <2>3, <3>1, PutDrain
    <2>4. CASE /\ ~PublishedDirectly(p)
               /\ ~(queue' = Append(queue, item(p)) /\ (Send(p) \/ Unblock(p)))
      <3>1. UNCHANGED <<queue, worker, published, life, accepted>>
        BY <1>2, <2>4 DEF PumpStep, Receive, Disconnect, Send, SendFails, Unblock
      <3>2. QED
        BY <1>1, <3>1
    <2>5. QED
      BY <2>2, <2>3, <2>4
  <1>3. ASSUME NEW c \in Conn, Connect(c) \/ ConnStep(c) PROVE DrainInv'
    <2>1. UNCHANGED <<queue, worker, published, life, accepted>>
      BY <1>3
      DEF Connect, ConnStep, AuthReturns, MetadataPublished, UpstreamConnected,
          PumpEnds, LifetimeExpires, SummaryPublished, UpstreamClosed,
          ClientClosed
    <2>2. QED
      BY <1>1, <2>1
  <1>4. CASE Shutdown
    <2>1. CASE StopBegins
      BY <1>4, <2>1, StopDrain DEF Shutdown
    <2>2. CASE ~StopBegins
      <3>1. /\ life = "up" /\ life' = "drain"
            /\ UNCHANGED <<queue, worker, published, accepted>>
        BY <1>4, <2>2 DEF Shutdown
      <3>2. QED
        BY <3>1 DEF DrainInv, InHand, AheadOfPills, NoPills, NoneEnded
    <2>3. QED
      BY <2>1, <2>2
  <1>5. CASE DrainTimeout
    BY <1>5, StopDrain DEF DrainTimeout
  <1>6. CASE PutPill
    <2>1. None \in Queued
      BY DEF Queued
    <2>2. QED
      BY <1>6, <2>1, PutDrain DEF PutPill
  <1>7. CASE Stopped
    BY <1>7 DEF Stopped, DrainInv, InHand, AheadOfPills, NoPills, NoneEnded
  <1>8. CASE Idle \/ UNCHANGED vars
    BY <1>1, <1>8 DEF Idle, vars
  <1>9. QED
    BY <1>2, <1>3, <1>4, <1>5, <1>6, <1>7, <1>8, GetDrain, PublishedDrain
    DEF Next

(* When LogQueue.stop returns, every item that was queued or being         *)
(* published when it was called has been published, whatever the pumps     *)
(* still put into the queue meanwhile.                                     *)
THEOREM QueueDrained == Spec => []DrainedBeforeStop
  <1>1. Spec => [](TypeOK /\ DrainInv)
    BY TypeInit, TypeNext, DrainInit, DrainNext, PTL DEF Spec
  <1>2. TypeOK /\ DrainInv => DrainedBeforeStop
    <2> SUFFICES ASSUME TypeOK, DrainInv, life = "down", NEW it \in accepted
                 PROVE  it \in published
      BY DEF DrainedBeforeStop
    <2>1. \A w \in Worker : worker[w] = Ended
      BY DEF DrainInv
    <2>2. ~NoneEnded
      BY <2>1, RelayAssumption DEF NoneEnded
    <2>3. it # Ended
      BY MarkAssumption DEF TypeOK
    <2>4. QED
      BY <2>1, <2>2, <2>3 DEF DrainInv, InHand
  <1>3. QED
    BY <1>1, <1>2, PTL
=============================================================================
