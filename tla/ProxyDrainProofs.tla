-------------------------- MODULE ProxyDrainProofs --------------------------
(***************************************************************************)
(* Proofs about ProxyDrain, for any connections, drain time, delays and    *)
(* stop timeout that satisfy its assumptions.                              *)
(***************************************************************************)
EXTENDS ProxyDrain, FiniteSetTheorems, TLAPS

USE DEF script, traffic, server, Timed

(* A reading is a count, and 0 means that nothing is owed.                 *)
LEMMA ReadingCounts ==
  ASSUME TypeOK
  PROVE  /\ active_work \in Nat
         /\ active_work = 0 => Owed = {}
  <1>1. /\ Plain \in SUBSET Conn
        /\ Upgraded \in SUBSET Conn
        /\ audit \in SUBSET Conn
    BY DEF TypeOK, Plain, Upgraded
  <1>2. IsFiniteSet(Plain) /\ IsFiniteSet(Upgraded) /\ IsFiniteSet(audit)
    BY <1>1, ConnAssumption, FS_Subset
  <1>3. /\ Cardinality(Plain) \in Nat
        /\ Cardinality(Upgraded) \in Nat
        /\ Cardinality(audit) \in Nat
    BY <1>2, FS_CardinalityType
  <1>4. /\ active_work \in Nat
        /\ active_work = 0 => Cardinality(Plain) = 0 /\ Cardinality(audit) = 0
    BY <1>3 DEF active_work
  <1>5. QED
    BY <1>2, <1>4, FS_EmptySet DEF Owed

LEMMA TypeInit == Init => TypeOK
  <1>1. (conn = [c \in Conn |-> "none"]) =>
           conn \in [Conn -> {"none", "idle", "busy", "upgraded", "closed"}]
    OBVIOUS
  <1>2. Init => /\ blind \in BOOLEAN /\ reaped \in BOOLEAN
                /\ draining \in BOOLEAN /\ lost \in BOOLEAN
    BY Zenon DEF Init
  <1>3. QED
    BY <1>1, <1>2 DEF Init, TypeOK

LEMMA EndedType ==
  ASSUME TypeOK, Ended
  PROVE  reaped' \in BOOLEAN
  BY Zenon DEF TypeOK, Ended

LEMMA TypeTraffic ==
  ASSUME TypeOK, Traffic
  PROVE  TypeOK'
  <1>1. PICK c \in Conn :
           \/ Connect(c) \/ Request(c) \/ Upgrade(c) \/ Disconnect(c)
           \/ Forward(c) \/ Respond(c) \/ AuditDone(c)
    BY DEF Traffic
  <1>2. /\ conn' \in [Conn -> {"none", "idle", "busy", "upgraded", "closed"}]
        /\ audit' \subseteq Conn
    BY <1>1 DEF TypeOK, Connect, Request, Upgrade, Disconnect, Forward,
                Respond, AuditDone, Become
  <1>3. UNCHANGED <<now, script, server, pins>>
    BY <1>1 DEF Connect, Request, Upgrade, Disconnect, Forward, Respond,
                AuditDone, Become
  <1>4. QED
    BY <1>2, <1>3 DEF TypeOK

LEMMA TypeNext == TypeOK /\ [Next]_vars => TypeOK'
  <1> SUFFICES ASSUME TypeOK, [Next]_vars
               PROVE  TypeOK'
    OBVIOUS
  <1> USE DrainAssumption
  <1>1. CASE Traffic
    BY <1>1, TypeTraffic
  <1>2. CASE EnvoyExits
    BY <1>2 DEF TypeOK, EnvoyExits
  <1>3. CASE EnvoyCrashes
    BY <1>3 DEF TypeOK, EnvoyCrashes
  <1>4. CASE Terminate
    BY <1>4 DEF TypeOK, Terminate, Run
  <1>5. CASE DrainPosted
    <2>1. draining' \in BOOLEAN
      BY <1>5, Zenon DEF TypeOK, DrainPosted
    <2>2. reaped' \in BOOLEAN
      BY <1>5, EndedType DEF DrainPosted
    <2>3. QED
      BY <1>5, <2>1, <2>2 DEF TypeOK, DrainPosted, Run
  <1>6. CASE Read
    <2>1. cx' \in Nat
      BY <1>6, ReadingCounts DEF Read
    <2>2. pc' \in {"sleep", "post_quit"} /\ due' \in Nat
      BY <1>6 DEF TypeOK, Read, Run
    <2>3. blind' \in BOOLEAN
      BY <1>6, Zenon DEF Read
    <2>4. reaped' \in BOOLEAN
      BY <1>6, EndedType DEF Read
    <2>5. QED
      BY <1>6, <2>1, <2>2, <2>3, <2>4 DEF TypeOK, Read
  <1>7. CASE Slept
    <2>1. reaped' \in BOOLEAN
      BY <1>7, EndedType DEF Slept
    <2>2. QED
      BY <1>7, <2>1 DEF TypeOK, Slept, Run
  <1>8. CASE QuitServed
    BY <1>8 DEF TypeOK, QuitServed, Quits
  <1>9. CASE QuitReturns
    <2>1. reaped' \in BOOLEAN
      BY <1>9, EndedType DEF QuitReturns
    <2>2. QED
      BY <1>9, <2>1 DEF TypeOK, QuitReturns, Run
  <1>10. CASE QuitFails
    <2>1. reaped' \in BOOLEAN
      BY <1>10, EndedType DEF QuitFails
    <2>2. lost' \in BOOLEAN
      BY <1>10, Zenon DEF TypeOK, QuitFails, Quits
    <2>3. /\ envoy' \in {"running", "quitting", "gone", "crashed"}
          /\ exit_due' \in Nat
          /\ UNCHANGED <<code, draining>>
      BY <1>10 DEF TypeOK, QuitFails, Quits
    <2>4. QED
      BY <1>10, <2>1, <2>2, <2>3 DEF TypeOK, QuitFails, Run
  <1>11. CASE Recheck
    BY <1>11 DEF TypeOK, Recheck
  <1>12. CASE WaitReturns
    BY <1>12 DEF TypeOK, WaitReturns
  <1>13. CASE Tick
    BY <1>13 DEF TypeOK, Tick
  <1>14. CASE UNCHANGED vars
    BY <1>14 DEF TypeOK, vars
  <1>15. QED
    BY <1>1, <1>2, <1>3, <1>4, <1>5, <1>6, <1>7, <1>8, <1>9, <1>10, <1>11,
       <1>12, <1>13, <1>14 DEF Next, Handler, Stopped

(* The script's variables and Envoy's state have their types, for any      *)
(* number of connections.                                                  *)
THEOREM DrainTypes == Spec => []TypeOK
  BY TypeInit, TypeNext, PTL DEF Spec

-----------------------------------------------------------------------------
(* Where the clock can be while the script does what it does: each command *)
(* ends in its time, and each is begun at a time that follows from how the *)
(* one before it ended.                                                    *)
Schedule ==
    /\ pc = "wait" => now = 0 /\ deadline = 0
    /\ pc \in Timed => now <= due
    /\ pc = "post_drain" => due <= AdminDelay
    /\ pc \notin {"wait", "post_drain"} => deadline <= AdminDelay + DrainTime
    /\ pc = "read" => due <= deadline + AdminDelay
    /\ pc = "sleep" => due <= deadline
    /\ pc \in {"post_quit", "quit_back"} => due <= deadline + 2 * AdminDelay
    /\ pc = "recheck" => now <= deadline + 2 * AdminDelay

(* Once told to, Envoy exits in its time, and the script waits for it only *)
(* when it has been told.                                                  *)
ExitSchedule ==
    /\ envoy \in {"quitting", "gone"} =>
          pc \in {"quit_back", "recheck", "wait_again", "exited"}
    /\ envoy = "quitting" =>
          /\ exit_due <= deadline + 2 * AdminDelay + ExitTime
          /\ pc # "exited" => now <= exit_due
    /\ pc \in {"quit_back", "recheck", "wait_again"} => envoy # "running"
    /\ pc = "wait_again" => now <= deadline + 2 * AdminDelay + ExitTime
    /\ reaped => Gone
    /\ pc = "exited" => Gone /\ (exit_code = code \/ reaped)
    /\ pc = "wait" => ~reaped

Timely == TypeOK /\ Schedule /\ ExitSchedule

LEMMA TimelyInit == Init => Timely
  BY TypeInit DEF Init, Timely, Schedule, ExitSchedule

LEMMA TrafficTimely ==
  ASSUME Schedule, ExitSchedule, Traffic
  PROVE  Schedule' /\ ExitSchedule'
  <1>1. UNCHANGED <<now, script, server>>
    BY DEF Traffic, Connect, Request, Upgrade, Disconnect, Forward, Respond,
           AuditDone, Become
  <1>2. QED
    BY <1>1 DEF Schedule, ExitSchedule, Gone

LEMMA TimelyNext == Timely /\ [Next]_vars => Timely'
  <1> SUFFICES ASSUME Timely, [Next]_vars
               PROVE  Schedule' /\ ExitSchedule'
    BY TypeNext DEF Timely
  <1> USE DrainAssumption DEF Timely
  <1>0. /\ now \in Nat /\ due \in Nat /\ deadline \in Nat /\ exit_due \in Nat
        /\ envoy \in {"running", "quitting", "gone", "crashed"}
        /\ reaped \in BOOLEAN
    BY DEF TypeOK
  <1>1. CASE Traffic
    BY <1>1, TrafficTimely
  <1>2. CASE EnvoyExits
    BY <1>0, <1>2 DEF EnvoyExits, Schedule, ExitSchedule, Gone
  <1>3. CASE EnvoyCrashes
    BY <1>0, <1>3 DEF EnvoyCrashes, Serving, Schedule, ExitSchedule, Gone
  <1>4. CASE Terminate
    BY <1>0, <1>4 DEF Terminate, Run, Schedule, ExitSchedule, Gone
  <1>5. CASE DrainPosted
    BY <1>0, <1>5 DEF DrainPosted, Run, Ended, Schedule, ExitSchedule, Gone
  <1>6. CASE Read
    <2>1. cx' \in Nat
      BY <1>6, TypeNext DEF TypeOK
    <2>2. CASE Draining(cx')
      BY <1>0, <1>6, <2>1, <2>2
      DEF Read, Draining, Run, Ended, Schedule, ExitSchedule, Gone
    <2>3. CASE ~Draining(cx')
      BY <1>0, <1>6, <2>3
      DEF Read, Run, Ended, Schedule, ExitSchedule, Gone
    <2>4. QED
      BY <2>2, <2>3
  <1>7. CASE Slept
    BY <1>0, <1>7 DEF Slept, Run, Ended, Schedule, ExitSchedule, Gone
  <1>8. CASE QuitServed
    BY <1>0, <1>8 DEF QuitServed, Quits, Serving, Schedule, ExitSchedule, Gone
  <1>9. CASE QuitReturns
    BY <1>0, <1>9 DEF QuitReturns, Run, Ended, Schedule, ExitSchedule, Gone
  <1>10. CASE QuitFails
    BY <1>0, <1>10
    DEF QuitFails, Quits, Serving, Run, Ended, Schedule, ExitSchedule, Gone
  <1>11. CASE Recheck
    BY <1>0, <1>11 DEF Recheck, Schedule, ExitSchedule, Gone
  <1>12. CASE WaitReturns
    BY <1>0, <1>12 DEF WaitReturns, Schedule, ExitSchedule, Gone
  <1>13. CASE Tick
    BY <1>0, <1>13 DEF Tick, Schedule, ExitSchedule, Gone
  <1>14. CASE UNCHANGED vars
    BY <1>14 DEF vars, Schedule, ExitSchedule, Gone
  <1>15. QED
    BY <1>1, <1>2, <1>3, <1>4, <1>5, <1>6, <1>7, <1>8, <1>9, <1>10, <1>11,
       <1>12, <1>13, <1>14 DEF Next, Handler, Stopped

(* The container ends before SIGKILL whenever stopTimeout exceeds the      *)
(* drain time, three calls of the admin port and Envoy's exit, whatever    *)
(* the traffic and whether or not the admin port answers.                  *)
THEOREM DrainFits == Spec => []NeverKilled
  <1>1. Timely => NeverKilled
    BY DrainAssumption
    DEF Timely, TypeOK, Schedule, ExitSchedule, NeverKilled
  <1>2. QED
    BY <1>1, TimelyInit, TimelyNext, PTL DEF Spec

(* The script never ends before Envoy, and ends with its status unless the *)
(* shell collected Envoy in the handler.                                   *)
THEOREM ScriptWaits == Spec => []ScriptOutlivesEnvoy
  <1>1. Timely => ScriptOutlivesEnvoy
    BY DEF Timely, ExitSchedule, ScriptOutlivesEnvoy
  <1>2. QED
    BY <1>1, TimelyInit, TimelyNext, PTL DEF Spec

-----------------------------------------------------------------------------
(* Why the reading that ends the loop can be acted upon: a true 0 stays 0, *)
(* as nothing connects any more, and a positive one is late.  Nothing is   *)
(* lost before Envoy ends, and no reading follows.                         *)
QuitInv ==
    /\ (pc = "post_quit" /\ Serving /\ ~blind) =>
          \/ Owed = {}
          \/ cx > 0 /\ now >= deadline
    /\ lost => ~Serving
    /\ CleanQuit
    /\ envoy = "quitting" => pc # "post_quit"

LEMMA QuitInit == Init => QuitInv
  BY DEF Init, QuitInv, CleanQuit

(* Traffic after SIGTERM makes nothing owed that was not.                  *)
LEMMA NothingNewOwed ==
  ASSUME TypeOK, Traffic, pc # "wait", Owed = {}
  PROVE  Owed' = {}
  <1>1. PICK c \in Conn :
           \/ Connect(c) \/ Request(c) \/ Upgrade(c) \/ Disconnect(c)
           \/ Forward(c) \/ Respond(c) \/ AuditDone(c)
    BY DEF Traffic
  <1>2. audit = {} /\ \A d \in Conn : conn[d] \notin {"idle", "busy"}
    BY DEF Owed, Plain
  <1>3. Disconnect(c) /\ audit' = {} /\ conn' = [conn EXCEPT ![c] = "closed"]
    BY <1>1, <1>2 DEF Connect, Request, Upgrade, Disconnect, Forward, Respond,
                      AuditDone, Become
  <1>4. \A d \in Conn : conn'[d] \notin {"idle", "busy"}
    BY <1>2, <1>3 DEF TypeOK
  <1>5. QED
    BY <1>3, <1>4 DEF Owed, Plain

LEMMA QuitNext == Timely /\ QuitInv /\ [Next]_vars => QuitInv'
  <1> SUFFICES ASSUME Timely, QuitInv, [Next]_vars
               PROVE  QuitInv'
    OBVIOUS
  <1> USE DrainAssumption
  <1>0. /\ TypeOK
        /\ now \in Nat /\ deadline \in Nat /\ cx \in Nat
        /\ envoy \in {"running", "quitting", "gone", "crashed"}
        /\ lost \in BOOLEAN /\ blind \in BOOLEAN
        /\ pc = "post_quit" => envoy # "quitting"
        /\ pc \in {"wait_again", "quit_back", "recheck"} => envoy # "running"
    BY DEF Timely, TypeOK, ExitSchedule
  <1>1. CASE Traffic
    <2>1. UNCHANGED <<now, script, server>>
      BY <1>1 DEF Traffic, Connect, Request, Upgrade, Disconnect, Forward,
                  Respond, AuditDone, Become
    <2>2. pc = "post_quit" /\ Owed = {} => Owed' = {}
      BY <1>0, <1>1, NothingNewOwed
    <2>3. QED
      BY <2>1, <2>2 DEF QuitInv, Serving, CleanQuit
  <1>2. CASE EnvoyExits
    BY <1>0, <1>2 DEF EnvoyExits, QuitInv, Serving, CleanQuit
  <1>3. CASE EnvoyCrashes
    BY <1>0, <1>3 DEF EnvoyCrashes, QuitInv, Serving, CleanQuit
  <1>4. CASE Terminate
    BY <1>0, <1>4 DEF Terminate, Run, QuitInv, Serving, CleanQuit
  <1>5. CASE DrainPosted
    BY <1>0, <1>5 DEF DrainPosted, Run, QuitInv, Serving, CleanQuit,
                      Timely, ExitSchedule
  <1>6. CASE Read
    <2>1. /\ cx' \in Nat
          /\ (~blind' /\ cx' = 0) => Owed = {}
          /\ UNCHANGED <<now, deadline, server, conn, audit>>
      BY <1>0, <1>6, ReadingCounts DEF Read
    <2>2. Owed' = Owed
      BY <2>1 DEF Owed, Plain
    <2>3. lost => envoy = "crashed"
      BY <1>0, <1>6 DEF Read, Timely, ExitSchedule, QuitInv, Serving
    <2>4. pc' \in {"sleep", "post_quit"}
      BY <1>6 DEF Read, Run
    <2>5. pc' = "post_quit" => ~(now < deadline /\ cx' > 0)
      BY <1>6 DEF Read, Run, Draining
    <2>6. (pc' = "post_quit" /\ ~blind') =>
             \/ Owed' = {}
             \/ cx' > 0 /\ now' >= deadline'
      BY <1>0, <2>1, <2>2, <2>5
    <2>7. envoy' # "quitting"
      BY <1>0, <1>6, <2>1 DEF Read, Timely, ExitSchedule
    <2>8. lost' => envoy' = "crashed"
      BY <2>1, <2>3
    <2>9. QED
      BY <2>6, <2>7, <2>8 DEF QuitInv, Serving, CleanQuit
  <1>7. CASE Slept
    BY <1>0, <1>7 DEF Slept, Run, QuitInv, Serving, CleanQuit
  <1>8. CASE QuitServed
    BY <1>0, <1>8 DEF QuitServed, Quits, QuitInv, Serving, CleanQuit
  <1>9. CASE QuitReturns
    BY <1>0, <1>9 DEF QuitReturns, Run, QuitInv, Serving, CleanQuit
  <1>10. CASE QuitFails
    BY <1>0, <1>10 DEF QuitFails, Quits, Run, QuitInv, Serving, CleanQuit
  <1>11. CASE Recheck
    BY <1>0, <1>11 DEF Recheck, QuitInv, Serving, CleanQuit
  <1>12. CASE WaitReturns
    BY <1>0, <1>12 DEF WaitReturns, QuitInv, Serving, CleanQuit
  <1>13. CASE Tick
    <2>1. UNCHANGED Owed
      BY <1>13 DEF Tick, Owed, Plain
    <2>2. QED
      BY <1>0, <1>13, <2>1 DEF Tick, QuitInv, Serving, CleanQuit
  <1>14. CASE UNCHANGED vars
    <2>1. UNCHANGED Owed
      BY <1>14 DEF vars, Owed, Plain
    <2>2. QED
      BY <1>14, <2>1 DEF vars, QuitInv, Serving, CleanQuit
  <1>15. QED
    BY <1>1, <1>2, <1>3, <1>4, <1>5, <1>6, <1>7, <1>8, <1>9, <1>10, <1>11,
       <1>12, <1>13, <1>14 DEF Next, Handler, Stopped

(* Envoy is stopped under plain connections or audit calls only if it      *)
(* could not be asked, or the drain's time was up, or it crashed.          *)
THEOREM QuitIsClean == Spec => []CleanQuit
  <1>1. QuitInv => CleanQuit
    BY DEF QuitInv
  <1>2. QED
    BY <1>1, TimelyInit, TimelyNext, QuitInit, QuitNext, PTL DEF Spec
=============================================================================
