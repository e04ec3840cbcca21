------------------------------- MODULE AuditLog -------------------------------
(***************************************************************************)
(* What the relay's log queue promises (relay/logger.py), without queue,   *)
(* workers and pills: an item that was put is pending until it is          *)
(* published, it is published once, and stopping the log publishes what    *)
(* was put before.  An item put later may stay pending for ever.           *)
(***************************************************************************)
VARIABLES
    pending,    \* items put and not yet published
    published,  \* items published
    status,     \* "open", "draining" while stop() runs, "closed"
    owed        \* the items that stop() has to see published

vars == <<pending, published, status, owed>>

Init ==
    /\ pending = {}
    /\ published = {}
    /\ status = "open"
    /\ owed = {}

(* An item is put once: neither again while it is pending nor afterwards.  *)
Put(i) ==
    /\ i \notin pending \cup published
    /\ pending' = pending \cup {i}
    /\ UNCHANGED <<published, status, owed>>

Publish(i) ==
    /\ i \in pending
    /\ pending' = pending \ {i}
    /\ published' = published \cup {i}
    /\ UNCHANGED <<status, owed>>

(* Without a log an item is published by whoever has it.                   *)
PublishDirectly(i) ==
    /\ status = "closed"
    /\ i \notin pending \cup published
    /\ published' = published \cup {i}
    /\ UNCHANGED <<pending, status, owed>>

Stop ==
    /\ status = "open"
    /\ status' = "draining"
    /\ owed' = pending \cup published
    /\ UNCHANGED <<pending, published>>

Close ==
    /\ status = "draining"
    /\ owed \subseteq published
    /\ status' = "closed"
    /\ UNCHANGED <<pending, published, owed>>

(* The items are whatever is put: an item that is put is pending then, one *)
(* that is published directly is published then.                           *)
Next ==
    \/ \E i \in pending' : Put(i)
    \/ \E i \in pending : Publish(i)
    \/ \E i \in published' : PublishDirectly(i)
    \/ Stop \/ Close

Spec == Init /\ [][Next]_vars

(* Stopping the log comes to an end.                                       *)
Closes == status = "draining" ~> status = "closed"
=============================================================================
