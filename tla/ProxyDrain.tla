----------------------------- MODULE ProxyDrain -----------------------------
(***************************************************************************)
(* The end of the proxy container (proxy/entrypoint.sh): the script that   *)
(* waits for Envoy and, on SIGTERM, drains it through its admin port, asks *)
(* it to quit and hands its exit code on, before ECS sends SIGKILL.        *)
(*                                                                         *)
(* Envoy is external: connections with their requests and upgrades, the    *)
(* Lua filter's audit calls, and an admin port that answers or fails       *)
(* within AdminDelay seconds.  The script names no timeout for wget, so    *)
(* AdminDelay is an assumption about Envoy, not a limit in the code.  The  *)
(* load balancer sends no new connection after SIGTERM, as the script      *)
(* says.  The clock starts at SIGTERM, in the whole seconds of date +%s.   *)
(***************************************************************************)
EXTENDS Integers, FiniteSets

CONSTANTS Conn,         \* client connections
          DrainTime,    \* DRAIN_TIME_S
          AdminDelay,   \* the longest call of the admin port
          ExitTime,     \* the longest Envoy takes to exit once told to
          StopTimeout   \* the stopTimeout of ECS: then comes SIGKILL

(* What "DRAIN_TIME_S must stay under the ECS stopTimeout" has to mean.    *)
ASSUME DrainAssumption ==
    /\ DrainTime \in Nat /\ AdminDelay \in Nat
    /\ ExitTime \in Nat /\ StopTimeout \in Nat
    /\ DrainTime + 3 * AdminDelay + ExitTime < StopTimeout

ASSUME ConnAssumption == IsFiniteSet(Conn)

VARIABLES
    now,        \* seconds since SIGTERM
    pc,         \* what the script is doing
    due,        \* when the command it runs must have ended
    deadline,
    cx,         \* the last reading of active_work
    blind,      \* that reading was of an admin port that did not answer
    reaped,     \* the shell has collected Envoy, in passing
    exit_code,  \* EXIT_CODE
    envoy,      \* "running", "quitting", "gone", or "crashed"
    code,       \* Envoy's exit status
    exit_due,   \* when a quitting Envoy must have exited
    draining,   \* Envoy is draining its listeners
    conn,       \* each connection
    audit,      \* connections with audit calls in flight
    pins,       \* Envoy counts the upstream half of an upgraded connection
    lost        \* Envoy ended with a connection or an audit call in hand

script == <<pc, due, deadline, cx, blind, reaped, exit_code>>
traffic == <<conn, audit, pins>>
server == <<envoy, code, exit_due, draining, lost>>
vars == <<now, script, server, traffic>>

Gone == envoy \in {"gone", "crashed"}

(* The commands of drain_and_quit that take time.                          *)
Timed == {"post_drain", "read", "sleep", "post_quit", "quit_back"}

Init ==
    /\ now = 0
    /\ pc = "wait"
    /\ due = 0
    /\ deadline = 0
    /\ cx = 0
    /\ blind = FALSE
    /\ reaped = FALSE
    /\ exit_code = "none"
    /\ envoy = "running"
    /\ code = "none"
    /\ exit_due = 0
    /\ draining = FALSE
    /\ conn = [c \in Conn |-> "none"]
    /\ audit = {}
    /\ pins \in BOOLEAN
    /\ lost = FALSE

-----------------------------------------------------------------------------
(* Envoy's traffic.  A response ends its connection while Envoy drains.    *)
(* The Lua filter posts audit records when it forwards a request and when  *)
(* the response has passed; it leaves upgrades alone.                      *)
Serving == envoy = "running"

Become(c, from, to) ==
    /\ Serving
    /\ conn[c] \in from
    /\ conn' = [conn EXCEPT ![c] = to]
    /\ UNCHANGED <<now, script, server, pins>>

Connect(c) == pc = "wait" /\ Become(c, {"none"}, "idle") /\ UNCHANGED audit

Request(c) == Become(c, {"idle"}, "busy") /\ UNCHANGED audit

Upgrade(c) == Become(c, {"busy"}, "upgraded") /\ UNCHANGED audit

Disconnect(c) ==
    Become(c, {"idle", "busy", "upgraded"}, "closed") /\ UNCHANGED audit

Forward(c) ==
    /\ Serving
    /\ conn[c] = "busy"
    /\ audit' = audit \cup {c}
    /\ UNCHANGED <<now, script, server, conn, pins>>

Respond(c) ==
    /\ Become(c, {"busy"}, IF draining THEN "closed" ELSE "idle")
    /\ audit' = audit \cup {c}

AuditDone(c) ==
    /\ Serving
    /\ c \in audit
    /\ audit' = audit \ {c}
    /\ UNCHANGED <<now, script, server, conn, pins>>

Traffic ==
    \E c \in Conn : \/ Connect(c) \/ Request(c) \/ Upgrade(c) \/ Disconnect(c)
                    \/ Forward(c) \/ Respond(c) \/ AuditDone(c)

(* Connections that are not upgraded: downstream_cx_active less            *)
(* downstream_cx_upgrades_active.                                          *)
Plain == {c \in Conn : conn[c] \in {"idle", "busy"}}
Upgraded == {c \in Conn : conn[c] = "upgraded"}

(* What Envoy must not be stopped under.                                   *)
Owed == Plain \cup audit

Quits ==
    /\ envoy' = "quitting"
    /\ exit_due' = now + ExitTime
    /\ lost' = (Owed # {})
    /\ UNCHANGED <<code, draining>>

(* Envoy has ended its shutdown; one under audit calls may crash.          *)
EnvoyExits ==
    /\ envoy = "quitting"
    /\ envoy' = "gone"
    /\ \E s \in {"clean"} \cup (IF lost THEN {"error"} ELSE {}) : code' = s
    /\ UNCHANGED <<now, script, exit_due, draining, lost, traffic>>

EnvoyCrashes ==
    /\ Serving
    /\ envoy' = "crashed"
    /\ code' = "error"
    /\ lost' = (Owed # {})
    /\ UNCHANGED <<now, script, exit_due, draining, traffic>>

-----------------------------------------------------------------------------
(* Definitions named "mutated" are a later definition with a plausible     *)
(* bug, kept to show that the properties would notice it.                  *)

(* The audit calls are left out.                                           *)
mutated_active_work == Cardinality(Plain)

(* Upgraded connections are subtracted twice and nothing stops at 0.       *)
mutated_active_work_negative == Cardinality(Plain) - Cardinality(Upgraded)

(* active_work when the admin port answers: the connections that are not   *)
(* upgraded, and the upstream requests, audit calls among them.            *)
active_work ==
    Cardinality(Plain) + Cardinality(audit)
        + (IF pins THEN Cardinality(Upgraded) ELSE 0)

(* The script runs its next command, for at most so many seconds.          *)
Run(next, seconds) ==
    /\ pc' = next
    /\ due' = now + seconds

(* A command of the handler has ended: the shell was waiting for any of    *)
(* its children, and may have collected Envoy with it.                     *)
Ended ==
    \/ UNCHANGED reaped
    \/ Gone /\ reaped' = TRUE

(* SIGTERM or SIGINT interrupts wait; drain_and_quit ignores further ones. *)
Terminate ==
    /\ pc = "wait"
    /\ Run("post_drain", AdminDelay)
    /\ UNCHANGED <<now, deadline, cx, blind, reaped, exit_code, server, traffic>>

(* /drain_listeners is carried out or not, nobody asks.                    *)
DrainPosted ==
    /\ pc = "post_drain"
    /\ \/ Serving /\ draining' = TRUE
       \/ UNCHANGED draining
    /\ deadline' = now + DrainTime
    /\ Run("read", AdminDelay)
    /\ Ended
    /\ UNCHANGED <<now, cx, blind, exit_code, envoy, code, exit_due, lost,
                   traffic>>

(* The condition of the loop.                                              *)
Draining(work) == now < deadline /\ work > 0

(* active_work is read, or reads 0 because the admin port does not answer. *)
Read ==
    /\ pc = "read"
    /\ \/ Serving /\ cx' = active_work /\ blind' = FALSE
       \/ cx' = 0 /\ blind' = TRUE
    /\ IF Draining(cx') THEN Run("sleep", 1) ELSE Run("post_quit", AdminDelay)
    /\ Ended
    /\ UNCHANGED <<now, deadline, exit_code, server, traffic>>

Slept ==
    /\ pc = "sleep"
    /\ now >= due
    /\ Run("read", AdminDelay)
    /\ Ended
    /\ UNCHANGED <<now, deadline, cx, blind, exit_code, server, traffic>>

(* Envoy takes /quitquitquit; wget ends some time later.                   *)
QuitServed ==
    /\ pc = "post_quit"
    /\ Serving
    /\ Quits
    /\ pc' = "quit_back"
    /\ UNCHANGED <<now, due, deadline, cx, blind, reaped, exit_code, traffic>>

QuitReturns ==
    /\ pc = "quit_back"
    /\ Run("recheck", 0)
    /\ Ended
    /\ UNCHANGED <<now, deadline, cx, blind, exit_code, server, traffic>>

(* No kill when the admin port does not answer.                            *)
mutated_QuitFails ==
    /\ pc = "post_quit"
    /\ Run("recheck", 0)
    /\ Ended
    /\ UNCHANGED <<now, deadline, cx, blind, exit_code, server, traffic>>

(* The admin port does not answer: kill -TERM, if Envoy is there.          *)
QuitFails ==
    /\ pc = "post_quit"
    /\ IF Serving THEN Quits ELSE UNCHANGED server
    /\ Run("recheck", 0)
    /\ Ended
    /\ UNCHANGED <<now, deadline, cx, blind, exit_code, traffic>>

(* The script does not wait for Envoy again.                               *)
mutated_Recheck ==
    /\ pc = "recheck"
    /\ pc' = "exited"
    /\ exit_code' = "143"
    /\ UNCHANGED <<now, due, deadline, cx, blind, reaped, server, traffic>>

(* wait has returned 143.  kill -0 finds Envoy, also as a zombie, unless   *)
(* the shell has collected it.                                             *)
Recheck ==
    /\ pc = "recheck"
    /\ pc' = IF reaped THEN "exited" ELSE "wait_again"
    /\ exit_code' = "143"
    /\ UNCHANGED <<now, due, deadline, cx, blind, reaped, server, traffic>>

(* wait returns Envoy's status, and kill -0 finds it no more.              *)
WaitReturns ==
    /\ pc \in {"wait", "wait_again"}
    /\ Gone
    /\ pc' = "exited"
    /\ exit_code' = code
    /\ UNCHANGED <<now, due, deadline, cx, blind, reaped, server, traffic>>

(* Nothing that is due stays undone while the clock moves.  At StopTimeout *)
(* SIGKILL ends the container, and the model.                              *)
Tick ==
    /\ pc \in Timed \cup {"wait_again"}
    /\ pc \in Timed => now < due
    /\ envoy = "quitting" => now < exit_due
    /\ pc = "wait_again" => ~Gone
    /\ now < StopTimeout
    /\ now' = now + 1
    /\ UNCHANGED <<script, server, traffic>>

Stopped == pc = "exited" /\ UNCHANGED vars

Handler ==
    \/ DrainPosted \/ Read \/ Slept \/ QuitServed \/ QuitReturns \/ QuitFails

Next ==
    \/ Traffic \/ EnvoyExits \/ EnvoyCrashes
    \/ Terminate \/ Handler \/ Recheck \/ WaitReturns
    \/ Tick \/ Stopped

Spec == Init /\ [][Next]_vars

-----------------------------------------------------------------------------
(* Types of the script's variables and of Envoy's state.                   *)
TypeOK ==
    /\ now \in Nat
    /\ pc \in Timed \cup {"wait", "recheck", "wait_again", "exited"}
    /\ due \in Nat
    /\ deadline \in Nat
    /\ cx \in Nat
    /\ blind \in BOOLEAN
    /\ reaped \in BOOLEAN
    /\ exit_code \in {"none", "clean", "error", "143"}
    /\ envoy \in {"running", "quitting", "gone", "crashed"}
    /\ code \in {"none", "clean", "error"}
    /\ exit_due \in Nat
    /\ draining \in BOOLEAN
    /\ conn \in [Conn -> {"none", "idle", "busy", "upgraded", "closed"}]
    /\ audit \subseteq Conn
    /\ pins \in BOOLEAN
    /\ lost \in BOOLEAN

(* Envoy is stopped under a plain connection or an audit call only when    *)
(* the admin port did not answer the last reading, or the drain's time was *)
(* up with work still to do, or Envoy crashed by itself: a reading of 0    *)
(* stays true until /quitquitquit (active_work, drain_and_quit).           *)
CleanQuit ==
    lost => \/ blind
            \/ cx > 0 /\ now >= deadline
            \/ envoy = "crashed"

(* The container ends by itself before SIGKILL, with DRAIN_TIME_S, three   *)
(* calls of the admin port and Envoy's exit inside stopTimeout, whether    *)
(* the admin port answers or not (drain_and_quit and its fallback).        *)
NeverKilled == pc # "exited" => now < StopTimeout

(* The script ends after Envoy has and with its status, unless the shell   *)
(* collected Envoy while it was in the handler (the loop around wait).     *)
ScriptOutlivesEnvoy ==
    pc = "exited" => Gone /\ (exit_code = code \/ reaped)
=============================================================================
