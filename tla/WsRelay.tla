------------------------------- MODULE WsRelay -------------------------------
(***************************************************************************)
(* The WebSocket relay of one backend process: the ws_relay endpoint and   *)
(* the lifespan handler (app.py), handle_ws_connection and the two pump    *)
(* tasks of _relay (relay/handler.py), and the log queue with its workers  *)
(* (relay/logger.py).                                                      *)
(*                                                                         *)
(* A task runs without interruption from one await that suspends it to the *)
(* next: a put on a queue that is not full does not suspend, so "blocked"  *)
(* is a state of a pump only while the queue is full.  Task.cancel() takes *)
(* effect at the await the task is suspended in, one loop iteration later, *)
(* which is modelled as the same step.  Messages are identified by pump    *)
(* and index; their contents and the chunks they are published in are left *)
(* out.  The lifespan handler may start with any connections open.         *)
(***************************************************************************)
EXTENDS Integers, Sequences, FiniteSets

CONSTANTS Conn,          \* the WebSocket connections, each opened at most once
          Worker,        \* the workers of the log queue
          QueueSize,     \* LogQueue max_queue_size
          MaxMessages,   \* bound: messages that a pump receives
          None,          \* the poison pill; an idle worker
          Ended          \* a worker whose loop has ended

ASSUME RelayAssumption ==
    /\ IsFiniteSet(Worker) /\ Worker # {}
    /\ QueueSize \in Nat \ {0}
    /\ MaxMessages \in Nat

(* start_log_queue(num_workers = config.relay.max_connections).            *)
MaxConnections == Cardinality(Worker)

Dir  == {"client_to_upstream", "upstream_to_client"}
Pump == Conn \X Dir

(* _LogItem, and whatever the queue holds.                                 *)
Item   == Conn \X Dir \X Nat
Queued == Item \cup {None}

ASSUME MarkAssumption == None \notin Item /\ Ended \notin Item /\ None # Ended

VARIABLES
    pc,         \* where the task of each connection is suspended
    active,     \* _active_ws_connections
    code,       \* the close code chosen for the client (0: none)
    upstream,   \* the upstream connection
    pump,       \* where each pump task is suspended
    sent,       \* messages each pump has forwarded
    index,      \* client_msg_index and upstream_msg_index
    summary,    \* the counts _relay returned, those log_ws_summary publishes
    queue,      \* LogQueue._queue
    worker,     \* the item each worker is publishing
    published,  \* the items whose publication was carried out
    life,       \* progress of the lifespan handler
    pills,      \* poison pills stop() has put
    accepted    \* the items in the queue or beyond when stop() began

conns == <<pc, active, code, upstream, summary>>
pumps == <<pump, sent, index>>
log   == <<queue, worker, published>>
down  == <<life, pills, accepted>>
vars  == <<conns, pumps, log, down>>

Serving == {"auth", "metadata", "connect", "relay", "summary",
            "close_upstream", "close_client"}

CloseCodes == {0, 1000, 1001, 1011, 1013, 4001, 4003}

PumpStates == {"none", "receive", "send", "blocked", "publish", "ended"}

item(p) == <<p[1], p[2], index[p]>>

Init ==
    /\ pc = [c \in Conn |-> "new"]
    /\ active = {}
    /\ code = [c \in Conn |-> 0]
    /\ upstream = [c \in Conn |-> "none"]
    /\ pump = [p \in Pump |-> "none"]
    /\ sent = [p \in Pump |-> 0]
    /\ index = [p \in Pump |-> 0]
    /\ summary = [p \in Pump |-> 0]
    /\ queue = <<>>
    /\ worker = [w \in Worker |-> None]
    /\ published = {}
    /\ life = "up"
    /\ pills = 0
    /\ accepted = {}

-----------------------------------------------------------------------------
(* Definitions named "mutated" are a later definition with a plausible     *)
(* bug, kept to show that the properties would notice it.                  *)
mutated_Leave(c, close) ==
    /\ pc' = [pc EXCEPT ![c] = "done"]
    /\ code' = [code EXCEPT ![c] = close]
    /\ UNCHANGED active

(* The connection's task leaves ws_relay: the finally clause removes it    *)
(* from the active set, and the server closes the client's connection.     *)
Leave(c, close) ==
    /\ pc' = [pc EXCEPT ![c] = "done"]
    /\ active' = active \ {c}
    /\ code' = [code EXCEPT ![c] = close]

mutated_Connect(c) ==
    /\ pc[c] = "new"
    /\ life = "up"
    /\ \/ Cardinality(active) > MaxConnections /\ Leave(c, 1013)
       \/ /\ Cardinality(active) <= MaxConnections
          /\ pc' = [pc EXCEPT ![c] = "auth"]
          /\ active' = active \cup {c}
          /\ UNCHANGED code
    /\ UNCHANGED <<upstream, summary, pumps, log, down>>

(* ws_relay: the limit is tested and the task registered without an await  *)
(* in between; an upgrade without a usable target is refused.              *)
Connect(c) ==
    /\ pc[c] = "new"
    /\ life = "up"
    /\ \/ /\ Cardinality(active) >= MaxConnections
          /\ Leave(c, 1013)
       \/ /\ Cardinality(active) < MaxConnections
          /\ pc' = [pc EXCEPT ![c] = "auth"]
          /\ active' = active \cup {c}
          /\ UNCHANGED code
       \/ /\ Cardinality(active) < MaxConnections
          /\ Leave(c, 1011)
    /\ UNCHANGED <<upstream, summary, pumps, log, down>>

(* authenticate_ws: see AuthService.                                       *)
AuthReturns(c) ==
    /\ pc[c] = "auth"
    /\ \/ /\ pc' = [pc EXCEPT ![c] = "metadata"]
          /\ UNCHANGED <<active, code>>
       \/ \E close \in {1013, 4001, 4003} : Leave(c, close)
    /\ UNCHANGED <<upstream, summary, pumps, log, down>>

(* accept, which fails if the client has gone, log_ws_headers and          *)
(* publish_metadata, whose errors are swallowed.                           *)
MetadataPublished(c) ==
    /\ pc[c] = "metadata"
    /\ \/ /\ pc' = [pc EXCEPT ![c] = "connect"]
          /\ UNCHANGED <<active, code>>
       \/ Leave(c, 0)
    /\ UNCHANGED <<upstream, summary, pumps, log, down>>

(* _connect_upstream, then _relay starts its two tasks.                    *)
UpstreamConnected(c) ==
    /\ pc[c] = "connect"
    /\ \/ /\ pc' = [pc EXCEPT ![c] = "relay"]
          /\ upstream' = [upstream EXCEPT ![c] = "open"]
          /\ pump' = [p \in Pump |-> IF p[1] = c THEN "receive" ELSE pump[p]]
          /\ UNCHANGED <<active, code>>
       \/ /\ Leave(c, 1011)
          /\ UNCHANGED <<upstream, pump>>
    /\ UNCHANGED <<sent, index, summary, log, down>>

(* _relay returns its counters and the close code.                         *)
RelayReturns(c, close) ==
    /\ pc' = [pc EXCEPT ![c] = "summary"]
    /\ code' = [code EXCEPT ![c] = close]
    /\ summary' = [p \in Pump |-> IF p[1] = c THEN index[p] ELSE summary[p]]
    /\ UNCHANGED <<active, upstream>>

mutated_PumpEnds(c) ==
    /\ pc[c] = "relay"
    /\ \E d \in Dir : pump[<<c, d>>] = "ended"
    /\ RelayReturns(c, 1000)
    /\ UNCHANGED <<pumps, log, down>>

(* asyncio.wait returns once a pump has ended; the other is cancelled and  *)
(* awaited.  A cancelled send may have gone out already.                   *)
PumpEnds(c) ==
    /\ pc[c] = "relay"
    /\ \E d \in Dir : pump[<<c, d>>] = "ended"
    /\ RelayReturns(c, 1000)
    /\ pump' = [p \in Pump |-> IF p[1] = c THEN "ended" ELSE pump[p]]
    /\ sent' \in {sent, [p \in Pump |->
                     IF p[1] = c /\ pump[p] = "send" THEN sent[p] + 1 ELSE sent[p]]}
    /\ UNCHANGED <<index, log, down>>

(* max_connection_lifetime: asyncio.wait is cancelled, the pumps are not.  *)
LifetimeExpires(c) ==
    /\ pc[c] = "relay"
    /\ RelayReturns(c, 1001)
    /\ UNCHANGED <<pumps, log, down>>

(* log_ws_summary, upstream.close() and websocket.close(), errors          *)
(* swallowed.                                                              *)
SummaryPublished(c) ==
    /\ pc[c] = "summary"
    /\ pc' = [pc EXCEPT ![c] = "close_upstream"]
    /\ UNCHANGED <<active, code, upstream, summary, pumps, log, down>>

UpstreamClosed(c) ==
    /\ pc[c] = "close_upstream"
    /\ pc' = [pc EXCEPT ![c] = "close_client"]
    /\ upstream' = [upstream EXCEPT ![c] = "closed"]
    /\ UNCHANGED <<active, code, summary, pumps, log, down>>

ClientClosed(c) ==
    /\ pc[c] = "close_client"
    /\ Leave(c, code[c])
    /\ UNCHANGED <<upstream, summary, pumps, log, down>>

-----------------------------------------------------------------------------
(* The pump tasks.                                                         *)
Receive(p) ==
    /\ pump[p] = "receive"
    /\ sent[p] < MaxMessages
    /\ pump' = [pump EXCEPT ![p] = "send"]
    /\ UNCHANGED <<sent, index, conns, log, down>>

mutated_Disconnect(p) == pump[p] = "receive" /\ UNCHANGED vars

(* The peer disconnects, or has been disconnected by the handler.          *)
Disconnect(p) ==
    /\ pump[p] = "receive"
    /\ pump' = [pump EXCEPT ![p] = "ended"]
    /\ UNCHANGED <<sent, index, conns, log, down>>

(* enqueue_log has returned.                                               *)
Logged(p) ==
    /\ pump' = [pump EXCEPT ![p] = "receive"]
    /\ index' = [index EXCEPT ![p] = index[p] + 1]

mutated_Full == Len(queue) > QueueSize

Full == Len(queue) >= QueueSize

(* The other side takes the message; then enqueue_log, which publishes     *)
(* directly when there is no queue and waits when the queue is full.       *)
Send(p) ==
    /\ pump[p] = "send"
    /\ \/ p[2] = "client_to_upstream" /\ upstream[p[1]] = "open"
       \/ p[2] = "upstream_to_client" /\ pc[p[1]] # "done"
    /\ sent' = [sent EXCEPT ![p] = sent[p] + 1]
    /\ \/ /\ life # "down" /\ ~Full
          /\ queue' = Append(queue, item(p))
          /\ Logged(p)
       \/ /\ life # "down" /\ Full
          /\ pump' = [pump EXCEPT ![p] = "blocked"]
          /\ UNCHANGED <<queue, index>>
       \/ /\ life = "down"
          /\ pump' = [pump EXCEPT ![p] = "publish"]
          /\ UNCHANGED <<queue, index>>
    /\ UNCHANGED <<worker, published, conns, down>>

(* The other side is gone, or fails: the pump's except clauses end it.     *)
SendFails(p) ==
    /\ pump[p] = "send"
    /\ pump' = [pump EXCEPT ![p] = "ended"]
    /\ UNCHANGED <<sent, index, conns, log, down>>

mutated_Unblock(p) ==
    /\ pump[p] = "blocked"
    /\ ~Full
    /\ Logged(p)
    /\ UNCHANGED <<sent, queue, worker, published, conns, down>>

(* A put that waited for room.                                             *)
Unblock(p) ==
    /\ pump[p] = "blocked"
    /\ ~Full
    /\ queue' = Append(queue, item(p))
    /\ Logged(p)
    /\ UNCHANGED <<sent, worker, published, conns, down>>

PublishedDirectly(p) ==
    /\ pump[p] = "publish"
    /\ published' = published \cup {item(p)}
    /\ Logged(p)
    /\ UNCHANGED <<sent, queue, worker, conns, down>>

-----------------------------------------------------------------------------
(* LogQueue._worker.                                                       *)
Get(w) ==
    /\ worker[w] = None
    /\ queue # <<>>
    /\ queue' = Tail(queue)
    /\ worker' = [worker EXCEPT ![w] =
          IF Head(queue) = None THEN Ended ELSE Head(queue)]
    /\ UNCHANGED <<published, conns, pumps, down>>

(* A message whose publication failed is queued again, although it may     *)
(* have been stored.                                                       *)
mutated_Published(w) ==
    /\ worker[w] \in Item
    /\ ~Full
    /\ published' = published \cup {worker[w]}
    /\ queue' = Append(queue, worker[w])
    /\ worker' = [worker EXCEPT ![w] = None]
    /\ UNCHANGED <<conns, pumps, down>>

(* _publish_message returns, having swallowed what Kinesis raised.         *)
Published(w) ==
    /\ worker[w] \in Item
    /\ published' = published \cup {worker[w]}
    /\ worker' = [worker EXCEPT ![w] = None]
    /\ UNCHANGED <<queue, conns, pumps, down>>

-----------------------------------------------------------------------------
(* The lifespan handler after the server has stopped.                      *)
Items(q) == {q[i] : i \in DOMAIN q} \ {None}

Held == {worker[w] : w \in Worker} \cap Item

(* stop_log_queue calls stop().                                            *)
StopBegins ==
    /\ life' = "stop"
    /\ accepted' = Items(queue) \cup Held \cup published
    /\ UNCHANGED pills

(* Cancellation reaches a connection wherever it waits: _relay turns it    *)
(* into a normal return, everything else lets it through, so that nothing  *)
(* after the summary is closed by the handler.                             *)
CancelAll ==
    LET relaying == {c \in active : pc[c] = "relay"}
    IN /\ pc' = [c \in Conn |-> IF c \in relaying THEN "summary"
                                ELSE IF c \in active THEN "done" ELSE pc[c]]
       /\ code' = [c \in Conn |-> IF c \in relaying THEN 1001 ELSE code[c]]
       /\ summary' = [p \in Pump |-> IF p[1] \in relaying THEN index[p]
                                                          ELSE summary[p]]
       /\ active' = relaying
       /\ UNCHANGED upstream

Shutdown ==
    /\ life = "up"
    /\ \/ /\ active # {}
          /\ CancelAll
          /\ life' = "drain"
          /\ UNCHANGED <<pills, accepted>>
       \/ /\ active = {}
          /\ StopBegins
          /\ UNCHANGED conns
    /\ UNCHANGED <<pumps, log>>

(* drain_timeout is slept through, whether or not connections remain.      *)
DrainTimeout ==
    /\ life = "drain"
    /\ StopBegins
    /\ UNCHANGED <<conns, pumps, log>>

mutated_PutPill ==
    /\ life = "stop"
    /\ pills < Cardinality(Worker)
    /\ ~Full
    /\ queue' = <<None>> \o queue
    /\ pills' = pills + 1
    /\ UNCHANGED <<worker, published, life, accepted, conns, pumps>>

PutPill ==
    /\ life = "stop"
    /\ pills < Cardinality(Worker)
    /\ ~Full
    /\ queue' = Append(queue, None)
    /\ pills' = pills + 1
    /\ UNCHANGED <<worker, published, life, accepted, conns, pumps>>

(* gather returns; _log_queue = None.                                      *)
Stopped ==
    /\ life = "stop"
    /\ pills = Cardinality(Worker)
    /\ \A w \in Worker : worker[w] = Ended
    /\ life' = "down"
    /\ UNCHANGED <<pills, accepted, conns, pumps, log>>

Idle ==
    /\ life = "down"
    /\ UNCHANGED vars

ConnStep(c) ==
    \/ AuthReturns(c) \/ MetadataPublished(c) \/ UpstreamConnected(c)
    \/ PumpEnds(c) \/ LifetimeExpires(c)
    \/ SummaryPublished(c) \/ UpstreamClosed(c) \/ ClientClosed(c)

PumpStep(p) ==
    \/ Receive(p) \/ Disconnect(p) \/ Send(p) \/ SendFails(p)
    \/ Unblock(p) \/ PublishedDirectly(p)

Next ==
    \/ \E c \in Conn : Connect(c) \/ ConnStep(c)
    \/ \E p \in Pump : PumpStep(p)
    \/ \E w \in Worker : Get(w) \/ Published(w)
    \/ Shutdown \/ DrainTimeout \/ PutPill \/ Stopped
    \/ Idle

Spec == Init /\ [][Next]_vars

-----------------------------------------------------------------------------
(* Fairness.  The calls a connection's own task and the workers await come *)
(* back (Kinesis calls and the upstream handshake have client timeouts), a *)
(* pump whose peer has been closed notices, a send returns or fails, and   *)
(* the loop runs what is runnable.  Peers need not send, nor disconnect.   *)
PeerClosed(p) ==
    \/ p[2] = "client_to_upstream" /\ pc[p[1]] = "done"
    \/ p[2] = "upstream_to_client" /\ upstream[p[1]] = "closed"

Fairness ==
    /\ \A c \in Conn : WF_vars(ConnStep(c))
    /\ \A p \in Pump : /\ WF_vars(PeerClosed(p) /\ Disconnect(p))
                       /\ WF_vars(Send(p) \/ SendFails(p))
                       /\ WF_vars(Unblock(p))
                       /\ WF_vars(PublishedDirectly(p))
    /\ \A w \in Worker : WF_vars(Get(w)) /\ WF_vars(Published(w))
    /\ WF_vars(DrainTimeout) /\ WF_vars(PutPill) /\ WF_vars(Stopped)

FairSpec == Spec /\ Fairness

-----------------------------------------------------------------------------
(* Types of the state of app.py's connection set, the relay's tasks and    *)
(* the log queue; the queue never exceeds its size.                        *)
TypeOK ==
    /\ pc \in [Conn -> Serving \cup {"new", "done"}]
    /\ active \subseteq Conn
    /\ code \in [Conn -> CloseCodes]
    /\ upstream \in [Conn -> {"none", "open", "closed"}]
    /\ pump \in [Pump -> PumpStates]
    /\ sent \in [Pump -> Nat]
    /\ index \in [Pump -> Nat]
    /\ summary \in [Pump -> Nat]
    /\ queue \in Seq(Queued)
    /\ Len(queue) <= QueueSize
    /\ worker \in [Worker -> Queued \cup {Ended}]
    /\ published \subseteq Item
    /\ life \in {"up", "drain", "stop", "down"}
    /\ pills \in 0..Cardinality(Worker)
    /\ accepted \subseteq Item

(* max_connections holds although connections authenticate, and may be     *)
(* cancelled, between their registration and their end: the set holds      *)
(* exactly the connections being served (ws_relay).                        *)
ConnectionLimit ==
    /\ active = {c \in Conn : pc[c] \in Serving}
    /\ Cardinality(active) <= MaxConnections

(* Every message counted by a pump has been published, is being published  *)
(* or is queued, in exactly one of these places, and no pump is more than  *)
(* one message behind (client_msg_index, enqueue_log, _worker).            *)
MessageAccounting ==
    \A p \in Pump :
        /\ index[p] <= sent[p] /\ sent[p] <= index[p] + 1
        /\ \A i \in 0..(index[p] - 1) :
              LET it == <<p[1], p[2], i>>
              IN Cardinality({n \in DOMAIN queue : queue[n] = it})
                 + Cardinality({w \in Worker : worker[w] = it})
                 + (IF it \in published THEN 1 ELSE 0) = 1

(* "Drain the queue and shut down workers" (LogQueue.stop): the items put  *)
(* before stop() began have been published when it returns, however the    *)
(* late items of pumps still running fall among the pills.                 *)
DrainedBeforeStop == life = "down" => accepted \subseteq published

(* When _relay returns because a pump ended (close code 1000), neither     *)
(* pump runs on, and the summary's counts are final: one message at most   *)
(* per direction was forwarded without being counted.                      *)
NormalCloseIsFinal ==
    \A p \in Pump : code[p[1]] = 1000 =>
        /\ pump[p] = "ended"
        /\ summary[p] = index[p]

(* The bounded queue, its workers and the pills together are the log that  *)
(* AuditLog describes: no item is dropped between put and publication or   *)
(* published twice, although late puts fall among the pills; and stop()    *)
(* returns, there being a pill for every worker however full the queue is  *)
(* (LogQueue.enqueue, _worker and stop).                                   *)
Log == INSTANCE AuditLog WITH
    pending   <- Items(queue) \cup Held,
    published <- published,
    status    <- [up |-> "open", drain |-> "open", stop |-> "draining",
                  down |-> "closed"][life],
    owed      <- accepted

ImplementsAuditLog == Log!Spec /\ Log!Closes

(* Every connection that is served ends and frees its place.               *)
ConnectionEnds == \A c \in Conn : c \in active ~> c \notin active

(* The pumps of a connection that was closed on both sides end too, also   *)
(* those that outlived _relay at the lifetime limit, unless the log queue  *)
(* was stopped under them.                                                 *)
PumpsEnd ==
    \A c \in Conn : pc[c] = "done" /\ upstream[c] = "closed" ~>
        \/ \A d \in Dir : pump[<<c, d>>] = "ended"
        \/ life = "down"

-----------------------------------------------------------------------------
(* A statement of the documents that the code does not keep.               *)

(* "All traffic is logged to Kinesis" (README); enqueue "applies           *)
(* backpressure to the relay loop rather than dropping log data"           *)
(* (logger.py): what a pump forwarded is logged, or the pump is about to.  *)
AllTrafficLogged ==
    \A p \in Pump : sent[p] > index[p] => pump[p] \in {"blocked", "publish"}
=============================================================================
