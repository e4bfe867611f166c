----------------------------- MODULE GateServer -----------------------------
(***************************************************************************)
(* GatewayServer::run_with_shutdown (conrogate-gateway/src/server.rs): the *)
(* accept loop, the permit every connection task takes, the connection     *)
(* tasks in their JoinSet, the WebSocket tunnels that HyperServiceBridge   *)
(* spawns outside of it, and the shutdown: stop accepting, sleep for the   *)
(* grace period, notify the tunnels, abort the tasks, join them.           *)
(*                                                                         *)
(* A connection task may be cancelled wherever it awaits.  What a request  *)
(* does on its connection is RequestPath; here a connection is served      *)
(* until it ends, times out, switches protocols or is cancelled.           *)
(***************************************************************************)
EXTENDS Naturals, Sequences, FiniteSets, SequencesExt

CONSTANTS
    Conns,          \* connections clients may open
    MaxConnections, \* permits of the static semaphore
    AdaptiveLimit   \* initial limit of the adaptive controller

ASSUME GateServerAssumption ==
    /\ IsFiniteSet(Conns)
    /\ MaxConnections \in Nat \ {0}
    /\ AdaptiveLimit \in Nat \ {0}

VARIABLES
    mode,       \* "plain", "tls" (terminate) or "passthrough"
    adaptive,   \* adaptive_concurrency is configured
    phase,      \* how far run_with_shutdown is
    signalled,  \* the shutdown future is ready
    task,       \* connection task
    tunnel,     \* the WebSocket task a connection has spawned
    sem,        \* free permits
    queue       \* tasks waiting in Semaphore::acquire, first come first served

conf == <<mode, adaptive>>
vars == <<conf, phase, signalled, task, tunnel, sem, queue>>

(* The limit of the adaptive controller stays at its initial value:        *)
(* nothing in the gateway calls record_latency.                            *)
Capacity == IF adaptive THEN AdaptiveLimit ELSE MaxConnections

(* A task in "granted" was handed a permit and has not run since.  A       *)
(* tunnel is "upgrading" until on_upgrade resolves, "ready" until its task *)
(* runs again, "open" once it waits on ws_shutdown, "told" when notified.  *)
Tasks == {"none", "spawned", "queued", "granted", "handshake", "serving", "switching", "done"}
Holding == {"granted", "handshake", "serving", "switching"}
Tunnels == {"none", "upgrading", "ready", "open", "told", "closed"}

TypeOK ==
    /\ mode \in {"plain", "tls", "passthrough"}
    /\ adaptive \in BOOLEAN
    /\ phase \in {"accept", "drain", "notified", "closing", "closed", "failed"}
    /\ signalled \in BOOLEAN
    /\ task \in [Conns -> Tasks]
    /\ tunnel \in [Conns -> Tunnels]
    /\ sem \in 0..Capacity
    /\ queue \in Seq(Conns)

Init ==
    /\ mode \in {"plain", "tls", "passthrough"}
    /\ adaptive \in BOOLEAN
    /\ phase = "accept"
    /\ signalled = FALSE
    /\ task = [c \in Conns |-> "none"]
    /\ tunnel = [c \in Conns |-> "none"]
    /\ sem = Capacity
    /\ queue = <<>>

----------------------------------------------------------------------------
(* listener.accept: the task is spawned in the JoinSet. *)
Accept(c) ==
    /\ phase = "accept"
    /\ task[c] = "none"
    /\ task' = [task EXCEPT ![c] = "spawned"]
    /\ UNCHANGED <<conf, phase, signalled, tunnel, sem, queue>>

(* An error of accept leaves run_with_shutdown at once; the JoinSet is     *)
(* dropped, which aborts its tasks.                                        *)
AcceptFails ==
    /\ phase = "accept"
    /\ phase' = "failed"
    /\ UNCHANGED <<conf, signalled, task, tunnel, sem, queue>>

(* The caller's shutdown future becomes ready. *)
Signal ==
    /\ ~signalled
    /\ signalled' = TRUE
    /\ UNCHANGED <<conf, phase, task, tunnel, sem, queue>>

StopAccepting ==
    /\ phase = "accept" /\ signalled
    /\ phase' = "drain"
    /\ UNCHANGED <<conf, signalled, task, tunnel, sem, queue>>

NotifyOne ==
    IF \A c \in Conns : tunnel[c] # "open" THEN tunnel
    ELSE [tunnel EXCEPT ![CHOOSE c \in Conns : tunnel[c] = "open"] = "told"]

(* notify_waiters reaches the tunnels that wait at this moment. *)
NotifyWaiters == [c \in Conns |-> IF tunnel[c] = "open" THEN "told" ELSE tunnel[c]]

(* The grace period is over. *)
DrainExpires ==
    /\ phase = "drain"
    /\ phase' = "notified"
    /\ tunnel' = NotifyWaiters
    /\ UNCHANGED <<conf, signalled, task, sem, queue>>

(* JoinSet::shutdown aborts every task ... *)
AbortAll ==
    /\ phase = "notified"
    /\ phase' = "closing"
    /\ UNCHANGED <<conf, signalled, task, tunnel, sem, queue>>

(* ... and joins them. *)
Joined ==
    /\ phase = "closing"
    /\ \A c \in Conns : task[c] \in {"none", "done"}
    /\ phase' = "closed"
    /\ UNCHANGED <<conf, signalled, task, tunnel, sem, queue>>

----------------------------------------------------------------------------
(* The task's next place once it has its permit. *)
Admitted == IF mode = "plain" THEN "serving" ELSE "handshake"

(* AdaptiveConcurrencyImpl::try_acquire: a permit, or the task is over. *)
TryAcquire(c) ==
    /\ adaptive /\ task[c] = "spawned"
    /\ \/ sem > 0 /\ sem' = sem - 1 /\ task' = [task EXCEPT ![c] = Admitted]
       \/ sem = 0 /\ task' = [task EXCEPT ![c] = "done"] /\ UNCHANGED sem
    /\ UNCHANGED <<conf, phase, signalled, tunnel, queue>>

(* Semaphore::acquire, then forget: the permit is the ConcurrencyPermit's. *)
Acquire(c) ==
    /\ ~adaptive /\ task[c] = "spawned"
    /\ \/ sem > 0 /\ sem' = sem - 1 /\ task' = [task EXCEPT ![c] = Admitted] /\ UNCHANGED queue
       \/ /\ sem = 0
          /\ task' = [task EXCEPT ![c] = "queued"]
          /\ queue' = Append(queue, c)
          /\ UNCHANGED sem
    /\ UNCHANGED <<conf, phase, signalled, tunnel>>

Wake(c) ==
    /\ task[c] = "granted"
    /\ task' = [task EXCEPT ![c] = Admitted]
    /\ UNCHANGED <<conf, phase, signalled, tunnel, sem, queue>>

ReleaseForgotten(c) ==
    /\ task' = [task EXCEPT ![c] = "done"]
    /\ UNCHANGED <<sem, queue>>

(* The task ends and drops its ConcurrencyPermit: add_permits hands the    *)
(* permit to the first waiter, if there is one.                            *)
Release(c) ==
    \/ /\ queue # <<>>
       /\ task' = [task EXCEPT ![c] = "done", ![Head(queue)] = "granted"]
       /\ queue' = Tail(queue)
       /\ UNCHANGED sem
    \/ /\ queue = <<>>
       /\ task' = [task EXCEPT ![c] = "done"]
       /\ sem' = sem + 1
       /\ UNCHANGED queue

(* on_upgrade fails when the connection ends before it was upgraded. *)
TunnelOfEnded(c) ==
    IF tunnel[c] = "upgrading" THEN [tunnel EXCEPT ![c] = "closed"] ELSE tunnel

(* The TLS handshake, or the first bytes that are peeked for an SNI. *)
Handshake(c) ==
    /\ task[c] = "handshake"
    /\ \/ task' = [task EXCEPT ![c] = "serving"] /\ UNCHANGED <<sem, queue>>
       \/ mode = "tls" /\ Release(c)
    /\ UNCHANGED <<conf, phase, signalled, tunnel>>

(* The peer closes, an error ends the connection, a TCP tunnel ends. *)
Ends(c) ==
    /\ task[c] \in {"serving", "switching"}
    /\ Release(c)
    /\ tunnel' = TunnelOfEnded(c)
    /\ UNCHANGED <<conf, phase, signalled>>

(* The timeout around an HTTP connection runs from its start. *)
IdleTimeout(c) == mode # "passthrough" /\ Ends(c)

(* process answers 101 and spawns the tunnel's task. *)
SwitchProtocols(c) ==
    /\ mode # "passthrough" /\ task[c] = "serving"
    /\ task' = [task EXCEPT ![c] = "switching"]
    /\ tunnel' = [tunnel EXCEPT ![c] = "upgrading"]
    /\ UNCHANGED <<conf, phase, signalled, sem, queue>>

(* hyper hands the connection over and its task ends: the tunnel holds no  *)
(* permit.  Connections behind TLS are served without upgrades.            *)
Upgraded(c) ==
    /\ task[c] = "switching"
    /\ Release(c)
    /\ tunnel' = [tunnel EXCEPT ![c] = IF mode = "plain" THEN "ready" ELSE "closed"]
    /\ UNCHANGED <<conf, phase, signalled>>

TunnelStarts(c) ==
    /\ tunnel[c] = "ready"
    /\ tunnel' = [tunnel EXCEPT ![c] = "open"]
    /\ UNCHANGED <<conf, phase, signalled, task, sem, queue>>

(* forward_websocket returns. *)
TunnelEnds(c) ==
    /\ tunnel[c] = "open"
    /\ tunnel' = [tunnel EXCEPT ![c] = "closed"]
    /\ UNCHANGED <<conf, phase, signalled, task, sem, queue>>

(* The select sees the notification. *)
TunnelTold(c) ==
    /\ tunnel[c] = "told"
    /\ tunnel' = [tunnel EXCEPT ![c] = "closed"]
    /\ UNCHANGED <<conf, phase, signalled, task, sem, queue>>

CancelKeepsGrant(c) ==
    /\ phase \in {"closing", "failed"}
    /\ task[c] \in {"spawned", "queued"} \cup Holding
    /\ \/ task[c] \in Holding \ {"granted"} /\ Release(c)
       \/ /\ task[c] \in {"spawned", "queued", "granted"}
          /\ task' = [task EXCEPT ![c] = "done"]
          /\ queue' = Remove(queue, c)
          /\ UNCHANGED sem
    /\ tunnel' = TunnelOfEnded(c)
    /\ UNCHANGED <<conf, phase, signalled>>

(* An aborted task is dropped where it awaits: it leaves the queue, or     *)
(* gives its permit back, one it was only granted included.                *)
Cancel(c) ==
    /\ phase \in {"closing", "failed"}
    /\ task[c] \in {"spawned", "queued"} \cup Holding
    /\ \/ task[c] \in Holding /\ Release(c)
       \/ /\ task[c] \in {"spawned", "queued"}
          /\ task' = [task EXCEPT ![c] = "done"]
          /\ queue' = Remove(queue, c)
          /\ UNCHANGED sem
    /\ tunnel' = TunnelOfEnded(c)
    /\ UNCHANGED <<conf, phase, signalled>>

----------------------------------------------------------------------------
ConnStep(c) ==
    \/ Accept(c) \/ TryAcquire(c) \/ Acquire(c) \/ Wake(c) \/ Handshake(c)
    \/ Ends(c) \/ IdleTimeout(c) \/ SwitchProtocols(c) \/ Upgraded(c)
    \/ TunnelStarts(c) \/ TunnelEnds(c) \/ TunnelTold(c) \/ Cancel(c)

ServerStep == AcceptFails \/ StopAccepting \/ DrainExpires \/ AbortAll \/ Joined

GateStep == ServerStep \/ \E c \in Conns : ConnStep(c)

Next == Signal \/ GateStep

Spec == Init /\ [][Next]_vars

(* Timers fire and runnable tasks run.  Nothing is assumed of peers: not   *)
(* that a handshake ends, that a connection is closed or that a tunnel is. *)
Fairness ==
    /\ WF_vars(StopAccepting) /\ WF_vars(DrainExpires) /\ WF_vars(AbortAll) /\ WF_vars(Joined)
    /\ \A c \in Conns :
        /\ WF_vars(TryAcquire(c)) /\ WF_vars(Acquire(c)) /\ WF_vars(Wake(c))
        /\ WF_vars(IdleTimeout(c)) /\ WF_vars(TunnelStarts(c)) /\ WF_vars(TunnelTold(c))
        /\ WF_vars(Cancel(c))

FairSpec == Spec /\ Fairness

----------------------------------------------------------------------------
(* No permit is lost or made up, whatever tasks are cancelled and wherever *)
(* they are: the free ones and the held ones are the configured number,    *)
(* and nobody waits while one is free.                                     *)
PermitsConserved ==
    /\ TypeOK
    /\ sem + Cardinality({c \in Conns : task[c] \in Holding}) = Capacity
    /\ queue # <<>> => sem = 0
    /\ ToSet(queue) = {c \in Conns : task[c] = "queued"}

(* The shutdown ends, also when peers never close their connections: what  *)
(* the grace period leaves is aborted.  When it says that all connections  *)
(* are closed, no task is left, every permit is back and no tunnel still   *)
(* waits for its upgrade; and a tunnel that was open when it began is      *)
(* closed by it, though it is no task of the JoinSet.                      *)
ShutdownCompletes ==
    /\ phase = "drain" ~> phase = "closed"
    /\ [](phase = "closed" =>
             /\ \A c \in Conns : task[c] \in {"none", "done"} /\ tunnel[c] # "upgrading"
             /\ sem = Capacity)
    /\ \A c \in Conns : (phase = "drain" /\ tunnel[c] = "open") ~> tunnel[c] = "closed"

(* A connection that waits for a permit gets one, or is cancelled: the     *)
(* timeout bounds every connection before it.  (A handshake is under no    *)
(* timeout: with TLS this would depend on the peers.)                      *)
WaiterServed ==
    \A c \in Conns : (mode = "plain" /\ task[c] = "queued") ~> task[c] # "queued"
============================================================================
