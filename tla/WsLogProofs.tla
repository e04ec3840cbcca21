----------------------------- MODULE WsLogProofs -----------------------------
(***************************************************************************)
(* Proofs about the relay's log: every counted message is in exactly one   *)
(* place between its put and its publication, the counts of a connection   *)
(* that ended normally are final, and the queue with its workers and pills *)
(* implements AuditLog.  They hold for any connections, workers, queue     *)
(* size and number of messages.                                            *)
(***************************************************************************)
EXTENDS WsRelayProofs

USE DEF Serving, conns, pumps, log, down

-----------------------------------------------------------------------------
(* Where an item can be.  The items of the queue as a set:                 *)
LEMMA AppendItems ==
  ASSUME NEW q \in Seq(Queued), NEW e \in Queued
  PROVE  Items(Append(q, e)) = Items(q) \cup ({e} \ {None})
  <1>1. /\ DOMAIN q = 1..Len(q)
        /\ DOMAIN Append(q, e) = 1..(Len(q) + 1)
        /\ Len(q) \in Nat
        /\ \A n \in 1..Len(q) : Append(q, e)[n] = q[n]
        /\ Append(q, e)[Len(q) + 1] = e
    OBVIOUS
  <1>2. \A n \in 1..(Len(q) + 1) : n \in 1..Len(q) \/ n = Len(q) + 1
    BY <1>1
  <1>3. \A x : x \in Items(Append(q, e)) <=> x \in Items(q) \cup ({e} \ {None})
    BY <1>1, <1>2 DEF Items
  <1>4. QED
    BY <1>3

LEMMA TailItems ==
  ASSUME NEW q \in Seq(Queued), q # <<>>
  PROVE  Items(q) = Items(Tail(q)) \cup ({Head(q)} \ {None})
  <1>1. /\ DOMAIN q = 1..Len(q)
        /\ DOMAIN Tail(q) = 1..(Len(q) - 1)
        /\ Len(q) \in Nat \ {0}
        /\ Head(q) = q[1]
        /\ \A n \in 1..(Len(q) - 1) : Tail(q)[n] = q[n + 1]
    OBVIOUS
  <1>2. ASSUME NEW n \in 1..Len(q), q[n] # None
        PROVE  q[n] \in Items(Tail(q)) \cup ({Head(q)} \ {None})
    <2>1. CASE n = 1
      BY <1>1, <1>2, <2>1
    <2>2. CASE n # 1
      <3>1. n - 1 \in 1..(Len(q) - 1) /\ Tail(q)[n - 1] = q[n]
        BY <1>1, <2>2
      <3>2. QED
        BY <1>1, <1>2, <3>1 DEF Items
    <2>3. QED
      BY <2>1, <2>2
  <1>3. ASSUME NEW n \in 1..(Len(q) - 1), Tail(q)[n] # None
        PROVE  Tail(q)[n] \in Items(q)
    <2>1. n + 1 \in 1..Len(q) /\ Tail(q)[n] = q[n + 1]
      BY <1>1
    <2>2. QED
      BY <1>1, <1>3, <2>1 DEF Items
  <1>4. Head(q) # None => Head(q) \in Items(q)
    <2>1. 1 \in 1..Len(q)
      BY <1>1
    <2>2. QED
      BY <1>1, <2>1 DEF Items
  <1>5. /\ \A x \in Items(q) : \E n \in 1..Len(q) : q[n] = x /\ x # None
        /\ \A x \in Items(Tail(q)) :
              \E n \in 1..(Len(q) - 1) : Tail(q)[n] = x /\ x # None
    BY <1>1 DEF Items
  <1>6. \A x : x \in Items(q) <=> x \in Items(Tail(q)) \cup ({Head(q)} \ {None})
    BY <1>2, <1>3, <1>4, <1>5
  <1>7. QED
    BY <1>6

-----------------------------------------------------------------------------
(* Each place holds an item once: positions and workers.                   *)
OncePlace ==
    /\ \A m, n \in 1..Len(queue) :
          queue[m] = queue[n] /\ queue[m] # None => m = n
    /\ \A v, w \in Worker : worker[v] = worker[w] /\ worker[v] \in Item => v = w

(* An item is in one place only, and there once.                           *)
Once ==
    /\ OncePlace
    /\ Items(queue) \cap Held = {}
    /\ (Items(queue) \cup Held) \cap published = {}

(* The items somewhere are those the pumps have counted.                   *)
Known ==
    \A it \in Item :
        it \in Items(queue) \cup Held \cup published
            <=> it[3] < index[<<it[1], it[2]>>]

(* A pump has forwarded what it has counted, and one message more while it *)
(* is between the two; a pump that was cancelled may have been there.      *)
Counted ==
    \A p \in Pump :
        /\ pump[p] \in {"none", "receive", "send"} => sent[p] = index[p]
        /\ pump[p] \in {"blocked", "publish"} => sent[p] = index[p] + 1
        /\ index[p] <= sent[p] /\ sent[p] <= index[p] + 1
        /\ pc[p[1]] \in {"new", "auth", "metadata", "connect"}
              => pump[p] = "none"

(* A pump that publishes directly has found no log.                        *)
DirectInv == \A p \in Pump : pump[p] = "publish" => life = "down"

AccountInv == Counted /\ Once /\ Known /\ DirectInv

LEMMA AccountInit == Init => AccountInv
  <1> SUFFICES ASSUME Init PROVE AccountInv
    OBVIOUS
  <1>1. Items(queue) = {} /\ Held = {} /\ published = {} /\ Len(queue) = 0
    BY MarkAssumption DEF Init, Items, Held
  <1>2. Once
    BY <1>1, MarkAssumption DEF Init, Once, OncePlace
  <1>3. Known
    <2>1. ASSUME NEW it \in Item
          PROVE  ~(it[3] < index[<<it[1], it[2]>>])
      BY DEF Init, Item, Pump
    <2>2. QED
      BY <1>1, <2>1 DEF Known
  <1>4. Counted
    BY DEF Init, Counted
  <1>5. DirectInv
    BY DEF Init, DirectInv
  <1>6. QED
    BY <1>2, <1>3, <1>4, <1>5 DEF AccountInv

(* The counters.                                                           *)
LEMMA CountedConn ==
  ASSUME TypeOK, Counted, NEW c \in Conn, Connect(c) \/ ConnStep(c)
  PROVE  Counted'
  <1>0. /\ pc \in [Conn -> Serving \cup {"new", "done"}]
        /\ pump \in [Pump -> PumpStates]
        /\ sent \in [Pump -> Nat] /\ index \in [Pump -> Nat]
    BY DEF TypeOK
  <1>1. CASE PumpEnds(c)
    <2>1. /\ pc' = [pc EXCEPT ![c] = "summary"]
          /\ pump' = [p \in Pump |-> IF p[1] = c THEN "ended" ELSE pump[p]]
          /\ index' = index
          /\ \A p \in Pump :
                \/ sent'[p] = sent[p]
                \/ p[1] = c /\ pump[p] = "send" /\ sent'[p] = sent[p] + 1
      BY <1>0, <1>1 DEF PumpEnds, RelayReturns
    <2>2. QED
      BY <1>0, <2>1 DEF Counted, Pump
  <1>2. CASE UpstreamConnected(c)
    <2>1. /\ pc[c] = "connect" /\ sent' = sent /\ index' = index
          /\ \/ /\ pc' = [pc EXCEPT ![c] = "relay"]
                /\ pump' = [p \in Pump |-> IF p[1] = c THEN "receive" ELSE pump[p]]
             \/ pc' = [pc EXCEPT ![c] = "done"] /\ pump' = pump
      BY <1>2 DEF UpstreamConnected, Leave
    <2>2. QED
      BY <1>0, <2>1 DEF Counted, Pump
  <1>3. CASE ~PumpEnds(c) /\ ~UpstreamConnected(c)
    <2>1. /\ pump' = pump /\ sent' = sent /\ index' = index
          /\ \E next \in Serving \cup {"done"} : pc' = [pc EXCEPT ![c] = next]
          /\ pc[c] \notin {"new", "auth", "metadata"} =>
                pc'[c] \notin {"new", "auth", "metadata", "connect"}
      BY <1>0, <1>3
      DEF Connect, ConnStep, AuthReturns, MetadataPublished, LifetimeExpires,
          RelayReturns, SummaryPublished, UpstreamClosed, ClientClosed, Leave
    <2>2. QED
      BY <1>0, <2>1 DEF Counted, Pump
  <1>4. QED
    BY <1>1, <1>2, <1>3

LEMMA CountedPump ==
  ASSUME TypeOK, Counted, NEW p \in Pump, PumpStep(p)
  PROVE  Counted'
  <1>0. /\ pump \in [Pump -> PumpStates]
        /\ sent \in [Pump -> Nat] /\ index \in [Pump -> Nat]
    BY DEF TypeOK
  <1>1. pc' = pc
    BY DEF PumpStep, Receive, Disconnect, Send, SendFails, Unblock,
           PublishedDirectly
  <1>2. pump[p] # "none"
    BY DEF PumpStep, Receive, Disconnect, Send, SendFails, Unblock,
           PublishedDirectly
  <1>3. \/ /\ pump[p] \in {"receive", "send"} /\ sent' = sent /\ index' = index
           /\ \E x \in {"send", "ended"} : pump' = [pump EXCEPT ![p] = x]
        \/ /\ pump[p] = "send" /\ index' = index
           /\ sent' = [sent EXCEPT ![p] = sent[p] + 1]
           /\ \E x \in {"blocked", "publish"} : pump' = [pump EXCEPT ![p] = x]
        \/ /\ pump[p] = "send"
           /\ sent' = [sent EXCEPT ![p] = sent[p] + 1] /\ Logged(p)
        \/ /\ pump[p] \in {"blocked", "publish"} /\ sent' = sent /\ Logged(p)
    BY DEF PumpStep, Receive, Disconnect, Send, SendFails, Unblock,
           PublishedDirectly
  <1>4. QED
    BY <1>0, <1>1, <1>2, <1>3 DEF Counted, Logged

LEMMA CountedNext == TypeOK /\ Counted /\ [Next]_vars => Counted'
  <1> SUFFICES ASSUME TypeOK, Counted, [Next]_vars PROVE Counted'
    OBVIOUS
  <1>1. CASE UNCHANGED <<pc, pumps>>
    BY <1>1 DEF Counted
  <1>2. CASE Shutdown
    <2>1. /\ UNCHANGED pumps
          /\ \A c \in Conn : pc'[c] = pc[c] \/ pc'[c] \in {"summary", "done"}
      BY <1>2 DEF Shutdown, CancelAll
    <2>2. QED
      BY <2>1 DEF Counted, Pump
  <1>3. ASSUME NEW w \in Worker, Get(w) \/ Published(w)
        PROVE  UNCHANGED <<pc, pumps>>
    BY <1>3 DEF Get, Published
  <1>4. CASE DrainTimeout \/ PutPill \/ Stopped \/ Idle \/ UNCHANGED vars
    BY <1>1, <1>4 DEF DrainTimeout, PutPill, Stopped, Idle, vars
  <1>5. QED
    BY <1>1, <1>2, <1>3, <1>4, CountedConn, CountedPump DEF Next

-----------------------------------------------------------------------------
(* The places.  Each step of the relay does one of five things to them.    *)
Untouched == UNCHANGED <<Items(queue), Held, published, index>>

PutStep(p) ==
    /\ Items(queue)' = Items(queue) \cup {item(p)}
    /\ index' = [index EXCEPT ![p] = index[p] + 1]
    /\ UNCHANGED <<Held, published>>

GetStep(it) ==
    /\ it \in Items(queue)
    /\ Items(queue)' = Items(queue) \ {it}
    /\ Held' = Held \cup {it}
    /\ UNCHANGED <<published, index>>

PublishStep(it) ==
    /\ it \in Held
    /\ Held' = Held \ {it}
    /\ published' = published \cup {it}
    /\ UNCHANGED <<Items(queue), index>>

DirectStep(p) ==
    /\ life = "down"
    /\ published' = published \cup {item(p)}
    /\ index' = [index EXCEPT ![p] = index[p] + 1]
    /\ UNCHANGED <<Items(queue), Held>>

LEMMA DirectNext == TypeOK /\ DirectInv /\ [Next]_vars => DirectInv'
  <1> SUFFICES ASSUME TypeOK, DirectInv, [Next]_vars PROVE DirectInv'
    OBVIOUS
  <1>1. life = "down" => life' = "down"
    BY DEF Next, Connect, ConnStep, AuthReturns, MetadataPublished,
           UpstreamConnected, PumpEnds, LifetimeExpires, SummaryPublished,
           UpstreamClosed, ClientClosed, PumpStep, Receive, Disconnect, Send,
           SendFails, Unblock, PublishedDirectly, Get, Published, Shutdown,
           DrainTimeout, PutPill, Stopped, Idle, vars
  <1>2. \A p \in Pump : pump'[p] = "publish" => pump[p] = "publish" \/ life = "down"
    <2>1. ASSUME NEW p \in Pump, PumpStep(p), NEW q \in Pump,
                 pump'[q] = "publish", pump[q] # "publish"
          PROVE  life = "down"
      BY <2>1 DEF PumpStep, Receive, Disconnect, Send, SendFails, Unblock,
             PublishedDirectly, Logged, TypeOK
    <2>2. ASSUME NEW c \in Conn, Connect(c) \/ ConnStep(c), NEW q \in Pump,
                 pump'[q] = "publish"
          PROVE  pump[q] = "publish"
      BY <2>2 DEF Connect, ConnStep, AuthReturns, MetadataPublished,
           UpstreamConnected, PumpEnds, LifetimeExpires, SummaryPublished,
           UpstreamClosed, ClientClosed
    <2>3. CASE UNCHANGED pump
      BY <2>3
    <2>4. QED
      BY <2>1, <2>2, <2>3
      DEF Next, Get, Published, Shutdown, DrainTimeout, PutPill, Stopped, Idle, vars
  <1>3. QED
    BY <1>1, <1>2 DEF DirectInv

LEMMA GetMoves ==
  ASSUME TypeOK, Once, NEW w \in Worker, Get(w)
  PROVE  Untouched \/ \E it \in Item : GetStep(it)
  <1>1. /\ queue \in Seq(Queued) /\ queue # <<>> /\ queue' = Tail(queue)
        /\ worker[w] = None /\ UNCHANGED <<published, index>>
        /\ Head(queue) \in Queued
    BY DEF Get, TypeOK
  <1>2. Items(queue) = Items(queue') \cup ({Head(queue)} \ {None})
    BY <1>1, TailItems
  <1>3. CASE Head(queue) = None
    <2>1. worker' = [worker EXCEPT ![w] = Ended]
      BY <1>3 DEF Get
    <2>2. Held' = Held
      BY <1>1, <2>1, MarkAssumption DEF Held, TypeOK
    <2>3. Items(queue)' = Items(queue)
      BY <1>2, <1>3 DEF Items
    <2>4. QED
      BY <1>1, <2>2, <2>3 DEF Untouched
  <1>4. CASE Head(queue) # None
    <2>1. /\ worker' = [worker EXCEPT ![w] = Head(queue)]
          /\ Head(queue) \in Item
      BY <1>1, <1>4 DEF Get, Queued
    <2>2. Held' = Held \cup {Head(queue)}
      BY <1>1, <2>1, MarkAssumption DEF Held, TypeOK
    <2>3. Head(queue) \notin Items(queue')
      <3>1. /\ DOMAIN queue' = 1..(Len(queue) - 1) /\ Len(queue) \in Nat \ {0}
            /\ Head(queue) = queue[1]
            /\ \A n \in 1..(Len(queue) - 1) : queue'[n] = queue[n + 1]
        BY <1>1
      <3>2. \A n \in 1..(Len(queue) - 1) :
               n + 1 \in 1..Len(queue) /\ n + 1 # 1 /\ 1 \in 1..Len(queue)
        BY <3>1
      <3>3. \A n \in 1..(Len(queue) - 1) : queue'[n] # queue[1]
        BY <1>4, <3>1, <3>2 DEF Once, OncePlace
      <3>4. QED
        BY <3>1, <3>3 DEF Items
    <2>4. /\ Head(queue) \in Items(queue)
          /\ Items(queue') = Items(queue) \ {Head(queue)}
      BY <1>2, <1>4, <2>3
    <2>5. QED
      BY <1>1, <2>1, <2>2, <2>4 DEF GetStep, Items
  <1>5. QED
    BY <1>3, <1>4

LEMMA PublishedMoves ==
  ASSUME TypeOK, Once, NEW w \in Worker, Published(w)
  PROVE  \E it \in Item : PublishStep(it)
  <1>1. /\ worker[w] \in Item /\ worker' = [worker EXCEPT ![w] = None]
        /\ published' = published \cup {worker[w]}
        /\ UNCHANGED <<queue, index>>
    BY DEF Published
  <1>2. Held' = Held \ {worker[w]} /\ worker[w] \in Held
    BY <1>1, MarkAssumption DEF Held, TypeOK, Once, OncePlace
  <1>3. QED
    BY <1>1, <1>2 DEF PublishStep, Items

LEMMA PutMoves ==
  ASSUME TypeOK, NEW p \in Pump, Send(p) \/ Unblock(p),
         queue' = Append(queue, item(p)), Logged(p)
  PROVE  PutStep(p)
  <1>1. item(p) \in Queued /\ item(p) # None
    BY ItemType, MarkAssumption DEF Queued
  <1>2. Items(queue') = Items(queue) \cup {item(p)}
    BY <1>1, AppendItems DEF TypeOK
  <1>3. UNCHANGED <<worker, published>>
    BY DEF Send, Unblock
  <1>4. QED
    BY <1>2, <1>3 DEF PutStep, Items, Held, Logged

(* A put may come after the log was stopped, by a pump that was waiting    *)
(* for room: it stays in the queue for ever.                               *)
LEMMA Moves ==
  ASSUME TypeOK, Once, DirectInv, [Next]_vars
  PROVE  \/ Untouched
         \/ \E p \in Pump : PutStep(p) \/ DirectStep(p)
         \/ \E it \in Item : GetStep(it) \/ PublishStep(it)
  <1>1. CASE UNCHANGED <<queue, worker, published, index>>
    BY <1>1 DEF Untouched, Items, Held
  <1>2. CASE PutPill
    <2>1. /\ queue' = Append(queue, None) /\ None \in Queued
          /\ UNCHANGED <<worker, published, index>>
      BY <1>2 DEF PutPill, Queued
    <2>2. Items(queue') = Items(queue)
      BY <2>1, AppendItems DEF TypeOK
    <2>3. QED
      BY <2>1, <2>2 DEF Untouched, Items, Held
  <1>3. ASSUME NEW p \in Pump, PumpStep(p)
        PROVE  \/ PutStep(p) \/ DirectStep(p)
               \/ UNCHANGED <<queue, worker, published, index>>
    <2>1. CASE PublishedDirectly(p)
      BY <2>1 DEF PublishedDirectly, DirectInv, DirectStep, Logged, Items, Held
    <2>2. CASE Send(p)
      BY <2>2, PutMoves DEF Send
    <2>3. CASE Unblock(p)
      BY <2>3, PutMoves DEF Unblock
    <2>4. QED
      BY <1>3, <2>1, <2>2, <2>3 DEF PumpStep, Receive, Disconnect, SendFails
  <1>4. ASSUME NEW c \in Conn, Connect(c) \/ ConnStep(c)
        PROVE  UNCHANGED <<queue, worker, published, index>>
    BY <1>4
    DEF Connect, ConnStep, AuthReturns, MetadataPublished, UpstreamConnected,
        PumpEnds, LifetimeExpires, SummaryPublished, UpstreamClosed, ClientClosed
  <1>5. CASE Shutdown \/ DrainTimeout \/ Stopped \/ Idle \/ UNCHANGED vars
    BY <1>1, <1>5 DEF Shutdown, DrainTimeout, Stopped, Idle, vars
  <1>6. QED
    BY <1>1, <1>2, <1>3, <1>4, <1>5, GetMoves, PublishedMoves DEF Next

(* The next item of a pump is nowhere yet.                                 *)
LEMMA NextItemIsNew ==
  ASSUME TypeOK, Known, NEW p \in Pump
  PROVE  item(p) \in Item \ (Items(queue) \cup Held \cup published)
  <1>1. item(p) \in Item
    BY ItemType
  <1>2. item(p)[3] = index[p] /\ <<item(p)[1], item(p)[2]>> = p
    BY DEF item, Pump
  <1>3. index[p] \in Nat
    BY DEF TypeOK
  <1>4. ~(item(p)[3] < index[<<item(p)[1], item(p)[2]>>])
    BY <1>2, <1>3
  <1>5. QED
    BY <1>1, <1>4 DEF Known

(* Counting one message more makes exactly that item known.                *)
LEMMA KnownGrows ==
  ASSUME TypeOK, Known, NEW p \in Pump,
         index' = [index EXCEPT ![p] = index[p] + 1],
         (Items(queue) \cup Held \cup published)'
             = (Items(queue) \cup Held \cup published) \cup {item(p)}
  PROVE  Known'
  <1> SUFFICES ASSUME NEW it \in Item
               PROVE  it \in (Items(queue) \cup Held \cup published)'
                         <=> it[3] < index'[<<it[1], it[2]>>]
    BY DEF Known
  <1>1. /\ it[3] \in Nat /\ <<it[1], it[2]>> \in Pump
        /\ it = <<it[1], it[2], it[3]>>
    BY DEF Item, Pump
  <1>2. it \in Items(queue) \cup Held \cup published
            <=> it[3] < index[<<it[1], it[2]>>]
    BY DEF Known
  <1>3. index \in [Pump -> Nat]
    BY DEF TypeOK
  <1>4. it = item(p) <=> <<it[1], it[2]>> = p /\ it[3] = index[p]
    BY <1>1 DEF item, Pump
  <1>5. CASE <<it[1], it[2]>> = p
    <2>1. index'[<<it[1], it[2]>>] = index[p] + 1 /\ index[p] \in Nat
      BY <1>3, <1>5
    <2>2. it[3] < index[p] + 1 <=> it[3] < index[p] \/ it[3] = index[p]
      BY <1>1, <2>1
    <2>3. QED
      BY <1>2, <1>4, <1>5, <2>1, <2>2
  <1>6. CASE <<it[1], it[2]>> # p
    <2>1. index'[<<it[1], it[2]>>] = index[<<it[1], it[2]>>]
      BY <1>1, <1>3, <1>6
    <2>2. QED
      BY <1>2, <1>4, <1>6, <2>1
  <1>7. QED
    BY <1>5, <1>6

(* Each place keeps holding an item once.                                  *)
LEMMA PutOnce ==
  ASSUME TypeOK, OncePlace, NEW e \in Queued, e \notin Items(queue),
         queue' = Append(queue, e), UNCHANGED worker
  PROVE  OncePlace'
  <1>1. /\ Len(queue) \in Nat /\ Len(queue') = Len(queue) + 1
        /\ \A n \in 1..Len(queue) : queue'[n] = queue[n]
        /\ queue'[Len(queue) + 1] = e /\ DOMAIN queue = 1..Len(queue)
    BY DEF TypeOK
  <1>2. \A n \in 1..Len(queue) : queue[n] # None => queue[n] # e
    BY <1>1 DEF Items
  <1>3. \A n \in 1..Len(queue') : n \in 1..Len(queue) \/ n = Len(queue) + 1
    BY <1>1
  <1>4. \A m, n \in 1..Len(queue') :
           queue'[m] = queue'[n] /\ queue'[m] # None => m = n
    BY <1>1, <1>2, <1>3 DEF OncePlace
  <1>5. QED
    BY <1>4 DEF OncePlace

LEMMA GetOnce ==
  ASSUME TypeOK, OncePlace, Items(queue) \cap Held = {}, NEW w \in Worker, Get(w)
  PROVE  OncePlace'
  <1>1. /\ queue # <<>> /\ queue' = Tail(queue) /\ worker[w] = None
        /\ worker' = [worker EXCEPT ![w] =
              IF Head(queue) = None THEN Ended ELSE Head(queue)]
    BY DEF Get
  <1>2. /\ Len(queue) \in Nat \ {0} /\ Head(queue) = queue[1]
        /\ Len(queue') = Len(queue) - 1
        /\ DOMAIN queue = 1..Len(queue)
        /\ \A n \in 1..Len(queue') : queue'[n] = queue[n + 1]
    BY <1>1 DEF TypeOK
  <1>3. \A n \in 1..Len(queue') : n + 1 \in 1..Len(queue)
    BY <1>2
  <1>4. \A m, n \in 1..Len(queue') :
           queue'[m] = queue'[n] /\ queue'[m] # None => m + 1 = n + 1
    BY <1>2, <1>3 DEF OncePlace
  <1>5. \A m, n \in 1..Len(queue') :
           queue'[m] = queue'[n] /\ queue'[m] # None => m = n
    BY <1>2, <1>4
  <1>6. \A v \in Worker \ {w} : worker'[v] = worker[v]
    BY <1>1 DEF TypeOK
  <1>7. worker'[w] \in Item => \A v \in Worker : worker[v] # worker'[w]
    <2> SUFFICES ASSUME worker'[w] \in Item
                 PROVE  worker'[w] \notin Held
      BY DEF Held
    <2>1. worker'[w] = queue[1] /\ queue[1] # None
      BY <1>1, <1>2, MarkAssumption DEF TypeOK
    <2>2. queue[1] \in Items(queue)
      BY <1>2, <2>1 DEF Items
    <2>3. QED
      BY <2>1, <2>2
  <1>8. \A v, x \in Worker :
           worker'[v] = worker'[x] /\ worker'[v] \in Item => v = x
    BY <1>6, <1>7 DEF OncePlace
  <1>9. QED
    BY <1>5, <1>8 DEF OncePlace

LEMMA OncePlaceNext ==
  ASSUME TypeOK, Once, Known, [Next]_vars
  PROVE  OncePlace'
  <1>0. OncePlace
    BY DEF Once
  <1>1. CASE UNCHANGED <<queue, worker>>
    BY <1>0, <1>1 DEF OncePlace
  <1>2. CASE PutPill
    <2>1. None \in Queued /\ None \notin Items(queue)
      BY DEF Queued, Items
    <2>2. QED
      BY <1>0, <1>2, <2>1, PutOnce DEF PutPill
  <1>3. ASSUME NEW p \in Pump, PumpStep(p) PROVE OncePlace'
    <2>1. item(p) \in Queued /\ item(p) \notin Items(queue)
      BY NextItemIsNew DEF Queued
    <2>2. \/ UNCHANGED <<queue, worker>>
          \/ queue' = Append(queue, item(p)) /\ UNCHANGED worker
      BY <1>3 DEF PumpStep, Receive, Disconnect, Send, SendFails, Unblock,
                  PublishedDirectly
    <2>3. QED
      BY <1>0, <1>1, <2>1, <2>2, PutOnce
  <1>4. ASSUME NEW c \in Conn, Connect(c) \/ ConnStep(c)
        PROVE  UNCHANGED <<queue, worker>>
    BY <1>4
    DEF Connect, ConnStep, AuthReturns, MetadataPublished, UpstreamConnected,
        PumpEnds, LifetimeExpires, SummaryPublished, UpstreamClosed, ClientClosed
  <1>5. ASSUME NEW w \in Worker, Published(w) PROVE OncePlace'
    <2>1. queue' = queue /\ worker' = [worker EXCEPT ![w] = None]
      BY <1>5 DEF Published
    <2>2. QED
      BY <1>0, <2>1, MarkAssumption DEF OncePlace, TypeOK
  <1>6. ASSUME NEW w \in Worker, Get(w) PROVE OncePlace'
    BY <1>0, <1>6, GetOnce DEF Once
  <1>7. CASE Shutdown \/ DrainTimeout \/ Stopped \/ Idle \/ UNCHANGED vars
    BY <1>1, <1>7 DEF Shutdown, DrainTimeout, Stopped, Idle, vars
  <1>8. QED
    BY <1>1, <1>2, <1>3, <1>4, <1>5, <1>6, <1>7 DEF Next

LEMMA PlacesNext ==
  ASSUME TypeOK, Once, Known, DirectInv, [Next]_vars
  PROVE  Once' /\ Known'
  <1>0. OncePlace'
    BY OncePlaceNext
  <1>1. CASE Untouched
    BY <1>0, <1>1 DEF Untouched, Once, OncePlace, Known
  <1>2. ASSUME NEW p \in Pump, PutStep(p) \/ DirectStep(p)
        PROVE  Once' /\ Known'
    <2>1. item(p) \in Item \ (Items(queue) \cup Held \cup published)
      BY NextItemIsNew
    <2>2. Known'
      BY <1>2, KnownGrows DEF PutStep, DirectStep
    <2>3. QED
      BY <1>0, <1>2, <2>1, <2>2 DEF Once, OncePlace, PutStep, DirectStep
  <1>3. ASSUME NEW it \in Item, GetStep(it) \/ PublishStep(it)
        PROVE  Once' /\ Known'
    <2>1. Known'
      BY <1>3 DEF Known, GetStep, PublishStep
    <2>2. QED
      BY <1>0, <1>3, <2>1 DEF Once, OncePlace, GetStep, PublishStep
  <1>4. QED
    BY <1>1, <1>2, <1>3, Moves

LEMMA AccountNext == TypeOK /\ AccountInv /\ [Next]_vars => AccountInv'
  BY CountedNext, DirectNext, PlacesNext DEF AccountInv

LEMMA Accounts == Spec => [](TypeOK /\ AccountInv)
  BY TypeInit, TypeNext, AccountInit, AccountNext, PTL DEF Spec

(* The copies of an item add up to one when it is in one place, once.      *)
LEMMA OneCopy ==
  ASSUME TypeOK, Once, NEW it \in Items(queue) \cup Held \cup published
  PROVE  Cardinality({n \in DOMAIN queue : queue[n] = it})
             + Cardinality({w \in Worker : worker[w] = it})
             + (IF it \in published THEN 1 ELSE 0) = 1
  <1> DEFINE Q == {n \in DOMAIN queue : queue[n] = it}
             W == {w \in Worker : worker[w] = it}
  <1>0. DOMAIN queue = 1..Len(queue) /\ it \in Item /\ it # None
    BY MarkAssumption DEF TypeOK, Items, Held, Queued
  <1>1. it \notin Items(queue) => Cardinality(Q) = 0
    <2>1. it \notin Items(queue) => Q = {}
      BY <1>0 DEF Items
    <2>2. QED
      BY <2>1, FS_EmptySet
  <1>2. it \notin Held => Cardinality(W) = 0
    <2>1. it \notin Held => W = {}
      BY <1>0 DEF Held
    <2>2. QED
      BY <2>1, FS_EmptySet
  <1>3. it \in Items(queue) => Cardinality(Q) = 1
    <2> SUFFICES ASSUME it \in Items(queue) PROVE Cardinality(Q) = 1
      OBVIOUS
    <2>1. PICK n \in 1..Len(queue) : queue[n] = it
      BY <1>0 DEF Items
    <2>2. Q = {n}
      BY <1>0, <2>1 DEF Once, OncePlace
    <2>3. QED
      BY <2>2, FS_Singleton
  <1>4. it \in Held => Cardinality(W) = 1
    <2> SUFFICES ASSUME it \in Held PROVE Cardinality(W) = 1
      OBVIOUS
    <2>1. PICK w \in Worker : worker[w] = it
      BY DEF Held
    <2>2. W = {w}
      BY <1>0, <2>1 DEF Once, OncePlace
    <2>3. QED
      BY <2>2, FS_Singleton
  <1> HIDE DEF Q, W
  <1>5. /\ it \in Items(queue) => it \notin Held /\ it \notin published
        /\ it \in Held => it \notin published
    BY DEF Once
  <1>6. Cardinality(Q) + Cardinality(W) + (IF it \in published THEN 1 ELSE 0) = 1
    BY <1>1, <1>2, <1>3, <1>4, <1>5
  <1>7. QED
    BY <1>6 DEF Q, W

(* Every message that a pump has counted is in exactly one place, however  *)
(* pumps, workers, cancellation and the shutdown interleave, and no pump   *)
(* is more than one message behind its peer (relay/handler.py and          *)
(* relay/logger.py).                                                       *)
THEOREM MessagesAccounted == Spec => []MessageAccounting
  <1>1. TypeOK /\ AccountInv => MessageAccounting
    <2> SUFFICES ASSUME TypeOK, AccountInv, NEW p \in Pump
                 PROVE  /\ index[p] <= sent[p] /\ sent[p] <= index[p] + 1
                        /\ \A i \in 0..(index[p] - 1) :
                              <<p[1], p[2], i>> \in Items(queue) \cup Held \cup published
      BY OneCopy DEF MessageAccounting, AccountInv
    <2>1. index[p] <= sent[p] /\ sent[p] <= index[p] + 1
      BY DEF AccountInv, Counted
    <2>2. ASSUME NEW i \in 0..(index[p] - 1)
          PROVE  <<p[1], p[2], i>> \in Items(queue) \cup Held \cup published
      <3>1. index[p] \in Nat
        BY DEF TypeOK
      <3>2. i \in Nat /\ i < index[p]
        BY <3>1
      <3>3. <<p[1], p[2], i>> \in Item /\ <<p[1], p[2]>> = p
        BY <3>2 DEF Item, Pump
      <3>4. QED
        BY <3>2, <3>3 DEF AccountInv, Known
    <2>3. QED
      BY <2>1, <2>2
  <1>2. QED
    BY <1>1, Accounts, PTL

-----------------------------------------------------------------------------
(* A connection closed normally has passed _relay, and its pumps ended.    *)
FinalInv ==
    /\ NormalCloseIsFinal
    /\ \A c \in Conn : code[c] = 1000 =>
          pc[c] \in {"summary", "close_upstream", "close_client", "done"}

LEMMA FinalConn ==
  ASSUME TypeOK, FinalInv, NEW c \in Conn, Connect(c) \/ ConnStep(c)
  PROVE  FinalInv'
  <1>0. /\ pc \in [Conn -> Serving \cup {"new", "done"}]
        /\ code \in [Conn -> CloseCodes]
        /\ pump \in [Pump -> PumpStates]
        /\ index \in [Pump -> Nat] /\ summary \in [Pump -> Nat]
    BY DEF TypeOK
  <1>1. index' = index
    BY DEF Connect, ConnStep, AuthReturns, MetadataPublished, UpstreamConnected,
        PumpEnds, LifetimeExpires, SummaryPublished, UpstreamClosed, ClientClosed
  <1>2. CASE PumpEnds(c)
    BY <1>0, <1>1, <1>2 DEF PumpEnds, RelayReturns, FinalInv, NormalCloseIsFinal, Pump
  <1>3. CASE LifetimeExpires(c)
    BY <1>0, <1>1, <1>3
    DEF LifetimeExpires, RelayReturns, FinalInv, NormalCloseIsFinal, Pump
  <1>4. CASE UpstreamConnected(c)
    <2>1. /\ pc[c] = "connect" /\ code[c] # 1000 /\ code'[c] # 1000
          /\ \A d \in Conn \ {c} : code'[d] = code[d] /\ pc'[d] = pc[d]
          /\ \A p \in Pump : p[1] # c => pump'[p] = pump[p]
          /\ summary' = summary
      BY <1>0, <1>4 DEF UpstreamConnected, Leave, FinalInv
    <2>2. QED
      BY <1>0, <1>1, <2>1 DEF FinalInv, NormalCloseIsFinal, Pump
  <1>5. CASE ~PumpEnds(c) /\ ~LifetimeExpires(c) /\ ~UpstreamConnected(c)
    <2>1. /\ pump' = pump /\ summary' = summary
          /\ \A d \in Conn \ {c} : code'[d] = code[d] /\ pc'[d] = pc[d]
          /\ \/ code'[c] # 1000
             \/ /\ code'[c] = code[c]
                /\ pc[c] \in {"summary", "close_upstream", "close_client"}
                /\ pc'[c] \in {"close_upstream", "close_client", "done"}
      BY <1>0, <1>5
      DEF Connect, ConnStep, AuthReturns, MetadataPublished, SummaryPublished,
          UpstreamClosed, ClientClosed, Leave, FinalInv
    <2>2. QED
      BY <1>0, <1>1, <2>1 DEF FinalInv, NormalCloseIsFinal, Pump
  <1>6. QED
    BY <1>2, <1>3, <1>4, <1>5

LEMMA FinalPump ==
  ASSUME TypeOK, FinalInv, NEW p \in Pump, PumpStep(p)
  PROVE  FinalInv'
  <1>1. /\ UNCHANGED <<pc, code, summary>> /\ pump[p] # "ended"
        /\ \A q \in Pump \ {p} : pump'[q] = pump[q] /\ index'[q] = index[q]
    BY DEF PumpStep, Receive, Disconnect, Send, SendFails, Unblock,
           PublishedDirectly, Logged, TypeOK
  <1>2. code[p[1]] # 1000
    BY <1>1 DEF FinalInv, NormalCloseIsFinal
  <1>3. QED
    BY <1>1, <1>2 DEF FinalInv, NormalCloseIsFinal

LEMMA FinalNext == TypeOK /\ FinalInv /\ [Next]_vars => FinalInv'
  <1> SUFFICES ASSUME TypeOK, FinalInv, [Next]_vars PROVE FinalInv'
    OBVIOUS
  <1>1. CASE UNCHANGED <<pc, code, summary, pumps>>
    BY <1>1 DEF FinalInv, NormalCloseIsFinal
  <1>2. CASE Shutdown
    <2>1. CASE UNCHANGED conns
      BY <1>1, <1>2, <2>1 DEF Shutdown
    <2>2. CASE CancelAll
      <3>1. /\ UNCHANGED <<pump, index>>
            /\ \A c \in Conn :
                  \/ code'[c] = 1001
                  \/ code'[c] = code[c] /\ (pc'[c] = pc[c] \/ pc'[c] = "done")
            /\ \A p \in Pump :
                  summary'[p] = summary[p] \/ summary'[p] = index[p]
        BY <1>2, <2>2 DEF Shutdown, CancelAll
      <3>2. QED
        BY <3>1 DEF FinalInv, NormalCloseIsFinal, Pump
    <2>3. QED
      BY <1>2, <2>1, <2>2 DEF Shutdown
  <1>3. ASSUME NEW w \in Worker, Get(w) \/ Published(w)
        PROVE  UNCHANGED <<pc, code, summary, pumps>>
    BY <1>3 DEF Get, Published
  <1>4. CASE DrainTimeout \/ PutPill \/ Stopped \/ Idle \/ UNCHANGED vars
    BY <1>1, <1>4 DEF DrainTimeout, PutPill, Stopped, Idle, vars
  <1>5. QED
    BY <1>1, <1>2, <1>3, <1>4, FinalConn, FinalPump DEF Next

(* When _relay has returned because a pump ended, neither pump runs on and *)
(* the counts that log_ws_summary publishes stay the true ones, also when  *)
(* the shutdown cancels the connection afterwards (relay/handler.py).      *)
THEOREM SummariesAreFinal == Spec => []NormalCloseIsFinal
  <1>1. Init => FinalInv
    BY DEF Init, FinalInv, NormalCloseIsFinal, Pump
  <1>2. FinalInv => NormalCloseIsFinal
    BY DEF FinalInv
  <1>3. QED
    BY <1>1, <1>2, TypeInit, TypeNext, FinalNext, PTL DEF Spec

-----------------------------------------------------------------------------
(* The refinement.                                                         *)
LEMMA LogInit == Init => Log!Init
  <1> SUFFICES ASSUME Init PROVE Log!Init
    OBVIOUS
  <1>1. Items(queue) = {} /\ Held = {}
    BY MarkAssumption DEF Init, Items, Held
  <1>2. QED
    BY <1>1 DEF Init, Log!Init

LEMMA LogStop ==
  ASSUME life \in {"up", "drain"}, StopBegins, UNCHANGED <<queue, worker, published>>
  PROVE  Log!Stop
  BY DEF StopBegins, Items, Held, Log!Stop

(* stop() returns when every worker has ended: what was put before it is   *)
(* published by then.                                                      *)
LEMMA LogClose ==
  ASSUME TypeOK, DrainInv, Stopped
  PROVE  Log!Close
  <1>1. /\ life = "stop" /\ life' = "down" /\ UNCHANGED <<queue, worker, published, accepted>>
        /\ \A w \in Worker : worker[w] = Ended
    BY DEF Stopped
  <1>2. ~NoneEnded
    BY <1>1, RelayAssumption DEF NoneEnded
  <1>3. accepted \subseteq published
    BY <1>1, <1>2, MarkAssumption DEF DrainInv, InHand, TypeOK
  <1>4. QED
    BY <1>1, <1>3 DEF Items, Held, Log!Close

(* Every other step moves at most one item.                                *)
LEMMA LogMove ==
  ASSUME TypeOK, AccountInv, [Next]_vars, UNCHANGED <<life, accepted>>
  PROVE  [Log!Next]_Log!vars
  <1>1. CASE Untouched
    BY <1>1 DEF Untouched, Log!vars
  <1>2. ASSUME NEW p \in Pump, PutStep(p)
        PROVE  Log!Next
    <2>1. item(p) \in Item \ (Items(queue) \cup Held \cup published)
      BY NextItemIsNew DEF AccountInv
    <2>2. Log!Put(item(p)) /\ item(p) \in (Items(queue) \cup Held)'
      BY <1>2, <2>1 DEF PutStep, Log!Put
    <2>3. QED
      BY <2>2 DEF Log!Next
  <1>3. ASSUME NEW p \in Pump, DirectStep(p)
        PROVE  Log!Next
    <2>1. item(p) \in Item \ (Items(queue) \cup Held \cup published)
      BY NextItemIsNew DEF AccountInv
    <2>2. Log!PublishDirectly(item(p)) /\ item(p) \in published'
      BY <1>3, <2>1 DEF DirectStep, Log!PublishDirectly
    <2>3. QED
      BY <2>2 DEF Log!Next
  <1>4. ASSUME NEW it \in Item, GetStep(it)
        PROVE  UNCHANGED Log!vars
    BY <1>4 DEF GetStep, Log!vars
  <1>5. ASSUME NEW it \in Item, PublishStep(it)
        PROVE  Log!Next
    <2>1. it \notin Items(queue)
      BY <1>5 DEF PublishStep, AccountInv, Once
    <2>2. Log!Publish(it) /\ it \in Items(queue) \cup Held
      BY <1>5, <2>1 DEF PublishStep, Log!Publish
    <2>3. QED
      BY <2>2 DEF Log!Next
  <1>6. QED
    BY <1>1, <1>2, <1>3, <1>4, <1>5, Moves DEF AccountInv

LEMMA LogNext ==
  TypeOK /\ AccountInv /\ DrainInv /\ [Next]_vars => [Log!Next]_Log!vars
  <1> SUFFICES ASSUME TypeOK, AccountInv, DrainInv, [Next]_vars
               PROVE  [Log!Next]_Log!vars
    OBVIOUS
  <1>1. CASE UNCHANGED <<life, accepted>>
    BY <1>1, LogMove
  <1>2. CASE Shutdown
    <2>1. CASE StopBegins
      BY <1>2, <2>1, LogStop DEF Shutdown, Log!Next
    <2>2. CASE ~StopBegins
      <3>1. /\ life = "up" /\ life' = "drain"
            /\ UNCHANGED <<queue, worker, published, accepted>>
        BY <1>2, <2>2 DEF Shutdown
      <3>2. QED
        BY <3>1 DEF Items, Held, Log!vars
    <2>3. QED
      BY <2>1, <2>2
  <1>3. CASE DrainTimeout
    BY <1>3, LogStop DEF DrainTimeout, Log!Next
  <1>4. CASE Stopped
    BY <1>4, LogClose DEF Log!Next
  <1>5. CASE ~UNCHANGED <<life, accepted>>
    <2>1. Shutdown \/ DrainTimeout \/ Stopped
      BY <1>5
      DEF Next, vars, Connect, ConnStep, AuthReturns, MetadataPublished,
          UpstreamConnected, PumpEnds, LifetimeExpires, SummaryPublished,
          UpstreamClosed, ClientClosed, PumpStep, Receive, Disconnect, Send,
          SendFails, Unblock, PublishedDirectly, Get, Published, PutPill, Idle
    <2>2. QED
      BY <1>2, <1>3, <1>4, <2>1
  <1>6. QED
    BY <1>1, <1>5

(* The bounded queue, its workers and the poison pills implement AuditLog  *)
(* (relay/logger.py): an item is pending from its put to its publication,  *)
(* is published once, and stop() returns only when what was put before it  *)
(* is published.                                                           *)
THEOREM QueueImplementsLog == Spec => Log!Spec
  <1>1. Spec => [](TypeOK /\ AccountInv /\ DrainInv)
    BY TypeInit, TypeNext, AccountInit, AccountNext, DrainInit, DrainNext, PTL
    DEF Spec
  <1>2. QED
    BY <1>1, LogInit, LogNext, PTL DEF Spec, Log!Spec
=============================================================================
