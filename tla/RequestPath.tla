---------------------------- MODULE RequestPath ----------------------------
(***************************************************************************)
(* The forwarding paths of HTTP (conrogate-protocol/src/http.rs: handle,   *)
(* handle_stream, preflight, record_outcome, finalize_response) and of TCP *)
(* tunnels (tcp.rs: handle) over the upstream selector                     *)
(* (conrogate-gateway/src/pool.rs) and the LeastConnections balancer       *)
(* (conrogate-balancer/src/least_conn.rs), while hot reload swaps the      *)
(* upstream's configuration under the requests.                            *)
(*                                                                         *)
(* One action per await of the handler.  The answers of the components a   *)
(* request asks on its way (blacklist, route table, plugins, rate limiter, *)
(* circuit breaker, retry budget, upstream) are any answer they can give:  *)
(* those components have modules of their own.                             *)
(***************************************************************************)
EXTENDS Integers, FiniteSets

CONSTANTS
    Requests,
    Nodes,          \* nodes the upstream may list, by address
    Kinds,          \* kinds of requests that arrive, a subset of AllKinds
    Upstreams,      \* what hot reload may load for the upstream
    MaxRetries,     \* max_retries, set from RETRY_MAX_ATTEMPTS
    NoNode

(* An idempotent request, one that is not, one that is not on a route with *)
(* allow_retry_non_idempotent, one whose body is streamed, a WebSocket     *)
(* upgrade, and a connection to be tunnelled.                              *)
AllKinds == {"get", "post", "post_retry", "stream", "upgrade", "tcp"}
Algorithms == {"least_connections", "other"}
Upstream == [algorithm : Algorithms, enabled : SUBSET Nodes]

(* The upstream id is not in the loaded map. *)
Gone == [algorithm |-> "gone", enabled |-> {}]

ASSUME PathAssumption ==
    /\ IsFiniteSet(Requests)
    /\ Kinds \subseteq AllKinds
    /\ Upstreams \subseteq Upstream \cup {Gone}
    /\ MaxRetries \in Nat
    /\ NoNode \notin Nodes

VARIABLES
    upstream,       \* the upstream's entry in the selector's map
    connections,    \* LeastConnections' counts of this upstream, absent = 0
    pc, kind,
    node,           \* the node select_upstream returned
    attempts,       \* requests sent to the node
    result,         \* proxy_result
    charges,        \* calls of record_request and granted try_consume
    reports,        \* calls of record_result
    metrics,        \* calls of record_metric
    ended,          \* history: how the request ended
    counted,        \* history: select counted the request on its node
    leaked,         \* history: counted requests that ended without a decrement
    reloaded        \* history: hot reload has changed the upstream

balancer == <<upstream, connections, reloaded>>
sending == <<attempts, result, charges>>
seen == <<reports, metrics>>
holding == <<node, counted, leaked>>
vars == <<balancer, pc, kind, sending, seen, ended, holding>>

Label == {"new", "plugins", "rate_limit", "select", "breaker", "forward", "backoff",
          "report", "release", "finalize", "tunnel", "done"}
Results == {"none", "ok", "5xx", "unreachable", "bad"}
Endings == {"none", "blocked", "no_route", "terminated", "limited", "no_upstream", "open",
            "bad_uri", "failed", "plugin_error", "served", "upgraded", "aborted"}

TypeOK ==
    /\ upstream \in Upstream \cup {Gone}
    /\ connections \in [Nodes -> Nat]
    /\ pc \in [Requests -> Label]
    /\ kind \in [Requests -> AllKinds]
    /\ node \in [Requests -> Nodes \cup {NoNode}]
    /\ attempts \in [Requests -> Nat]
    /\ result \in [Requests -> Results]
    /\ charges \in [Requests -> Nat]
    /\ reports \in [Requests -> Nat]
    /\ metrics \in [Requests -> Nat]
    /\ ended \in [Requests -> Endings]
    /\ counted \in [Requests -> BOOLEAN]
    /\ leaked \in [Nodes -> Nat]
    /\ reloaded \in BOOLEAN

Init ==
    /\ upstream \in Upstreams
    /\ connections = [n \in Nodes |-> 0]
    /\ pc = [r \in Requests |-> "new"]
    /\ kind \in [Requests -> Kinds]
    /\ node = [r \in Requests |-> NoNode]
    /\ attempts = [r \in Requests |-> 0]
    /\ result = [r \in Requests |-> "none"]
    /\ charges = [r \in Requests |-> 0]
    /\ reports = [r \in Requests |-> 0]
    /\ metrics = [r \in Requests |-> 0]
    /\ ended = [r \in Requests |-> "none"]
    /\ counted = [r \in Requests |-> FALSE]
    /\ leaked = [n \in Nodes |-> 0]
    /\ reloaded = FALSE

----------------------------------------------------------------------------
Buffered(r) == kind[r] \in {"get", "post", "post_retry"}
can_retry(r) == kind[r] \in {"get", "post_retry"}

Goto(r, from, to) == pc[r] = from /\ pc' = [pc EXCEPT ![r] = to]

(* The handler returns: its locals are gone, and with them the only        *)
(* knowledge of which node was counted for it.                             *)
End(r, how, m) ==
    /\ pc' = [pc EXCEPT ![r] = "done"]
    /\ ended' = [ended EXCEPT ![r] = how]
    /\ metrics' = [metrics EXCEPT ![r] = @ + m]
    /\ leaked' = IF counted[r] THEN [leaked EXCEPT ![node[r]] = @ + 1] ELSE leaked
    /\ counted' = [counted EXCEPT ![r] = FALSE]
    /\ node' = [node EXCEPT ![r] = NoNode]
    /\ attempts' = [attempts EXCEPT ![r] = 0]
    /\ result' = [result EXCEPT ![r] = "none"]
    /\ charges' = [charges EXCEPT ![r] = 0]
    /\ UNCHANGED <<balancer, kind, reports>>

(* It goes on. *)
Proceed(r, from, to) ==
    /\ Goto(r, from, to)
    /\ UNCHANGED <<balancer, kind, sending, seen, ended, holding>>

(* The blacklist answers and the route is looked up. *)
Arrive(r) ==
    /\ kind[r] # "tcp" /\ pc[r] = "new"
    /\ \/ End(r, "blocked", 0)
       \/ End(r, "no_route", 0)
       \/ Proceed(r, "new", "plugins")

(* before_request may terminate the request or fail. *)
BeforeRequest(r) ==
    /\ kind[r] # "tcp" /\ pc[r] = "plugins"
    /\ \/ End(r, "terminated", 0)
       \/ End(r, "plugin_error", 0)
       \/ Proceed(r, "plugins", "rate_limit")

CheckRateLimit(r) ==
    /\ kind[r] # "tcp" /\ pc[r] = "rate_limit"
    /\ \/ End(r, "limited", 1)
       \/ Proceed(r, "rate_limit", "select")

----------------------------------------------------------------------------
(* A tunnel asks the same components, and what keeps it from being         *)
(* established is counted; the errors of on_connect and select_upstream    *)
(* are passed on uncounted.                                                *)
RejectTunnel(r, how) == kind[r] = "tcp" /\ End(r, how, 1)

TunnelArrives(r) ==
    /\ kind[r] = "tcp" /\ pc[r] = "new"
    /\ \/ RejectTunnel(r, "blocked")
       \/ RejectTunnel(r, "no_route")
       \/ Proceed(r, "new", "plugins")

OnConnect(r) ==
    /\ kind[r] = "tcp" /\ pc[r] = "plugins"
    /\ \/ RejectTunnel(r, "terminated")
       \/ End(r, "plugin_error", 0)
       \/ Proceed(r, "plugins", "rate_limit")

(* The limits of the route and of new connections to the listener. *)
CheckTunnelLimits(r) ==
    /\ kind[r] = "tcp" /\ pc[r] = "rate_limit"
    /\ \/ RejectTunnel(r, "limited")
       \/ Proceed(r, "rate_limit", "select")

----------------------------------------------------------------------------
(* select_upstream.  Of the nodes with the fewest connections the first in *)
(* the list is taken; the list has no fixed order.                         *)
LeastSelected(n) ==
    [m \in Nodes |-> IF m \notin upstream.enabled THEN 0
                     ELSE IF m = n THEN connections[m] + 1 ELSE connections[m]]

Fewest(n) == \A m \in upstream.enabled : connections[n] <= connections[m]

Select(r, n) ==
    /\ n \in upstream.enabled
    /\ Goto(r, "select", "breaker")
    /\ node' = [node EXCEPT ![r] = n]
    /\ \/ /\ upstream.algorithm = "least_connections"
          /\ Fewest(n)
          /\ connections' = LeastSelected(n)
          /\ counted' = [counted EXCEPT ![r] = TRUE]
       \/ /\ upstream.algorithm = "other"
          /\ UNCHANGED <<connections, counted>>
    /\ UNCHANGED <<upstream, reloaded, kind, sending, seen, ended, leaked>>

SelectFails(r) ==
    /\ pc[r] = "select"
    /\ upstream.enabled = {}
    /\ End(r, "no_upstream", 0)

----------------------------------------------------------------------------
(* check_circuit_breaker; what preflight does with the answer; and the     *)
(* handler up to its first attempt, which a buffered request records in    *)
(* the retry budget.                                                       *)
BreakerRejects(r) ==
    /\ pc[r] = "breaker"
    /\ End(r, "open", 1)

BadUri(r) ==
    /\ pc[r] = "breaker"
    /\ kind[r] \notin {"upgrade", "tcp"}
    /\ End(r, "bad_uri", 0)

BreakerAllows(r) ==
    /\ kind[r] \notin {"upgrade", "tcp"}
    /\ Goto(r, "breaker", "forward")
    /\ charges' = [charges EXCEPT ![r] = @ + (IF Buffered(r) THEN 1 ELSE 0)]
    /\ UNCHANGED <<balancer, kind, attempts, result, seen, ended, holding>>

EstablishTunnel(r) ==
    /\ kind[r] = "tcp"
    /\ Proceed(r, "breaker", "forward")

(* The upgrade is answered with 101 and record_ws_metric; the tunnel then  *)
(* lives in a task of its own.                                             *)
Upgrade(r) ==
    /\ kind[r] = "upgrade"
    /\ Goto(r, "breaker", "tunnel")
    /\ metrics' = [metrics EXCEPT ![r] = @ + 1]
    /\ UNCHANGED <<balancer, kind, sending, reports, ended, holding>>

TunnelEnds(r) ==
    /\ pc[r] = "tunnel"
    /\ End(r, "upgraded", 0)

----------------------------------------------------------------------------
(* forward_tcp: the name is resolved, the node connected to, and bytes     *)
(* copied until both sides have closed; the first error ends it.           *)
TunnelResults == {"ok", "unreachable"}

(* One attempt.  A 5xx answer, a timeout and a failed connection are       *)
(* retried.  Mutant: whatever the method.                                  *)
RetryableAlways(r, res) == res \in {"5xx", "unreachable"} /\ Buffered(r)
Retryable(r, res) == res \in {"5xx", "unreachable"} /\ can_retry(r)

Forward(r, res) ==
    /\ kind[r] = "tcp" => res \in TunnelResults
    /\ Goto(r, "forward", IF Retryable(r, res) /\ attempts[r] < MaxRetries
                          THEN "backoff" ELSE "report")
    /\ attempts' = [attempts EXCEPT ![r] = @ + 1]
    /\ result' = [result EXCEPT ![r] = res]
    /\ UNCHANGED <<balancer, kind, charges, seen, ended, holding>>

RetryGranted(r) ==
    /\ Goto(r, "backoff", "forward")
    /\ charges' = [charges EXCEPT ![r] = @ + 1]
    /\ UNCHANGED <<balancer, kind, attempts, result, seen, ended, holding>>

RetryRefused(r) == Proceed(r, "backoff", "report")

----------------------------------------------------------------------------
(* record_outcome: record_result, then release_node.  Mutant: every attempt *)
(* is recorded.                                                            *)
RecordResultPerAttempt(r) ==
    /\ Goto(r, "report", "release")
    /\ reports' = [reports EXCEPT ![r] = @ + attempts[r]]
    /\ UNCHANGED <<balancer, kind, sending, metrics, ended, holding>>

RecordResult(r) ==
    /\ Goto(r, "report", "release")
    /\ reports' = [reports EXCEPT ![r] = @ + 1]
    /\ UNCHANGED <<balancer, kind, sending, metrics, ended, holding>>

(* Mutant: the last connection is not given back. *)
DecrementedAboveOne(n) == [connections EXCEPT ![n] = IF @ > 1 THEN @ - 1 ELSE @]
Decremented(n) == [connections EXCEPT ![n] = IF @ > 0 THEN @ - 1 ELSE 0]

(* release_node asks for the algorithm loaded now, not the one that        *)
(* selected the node.                                                      *)
ReleaseNode(r) ==
    /\ Goto(r, "release", "finalize")
    /\ \/ /\ upstream.algorithm = "least_connections"
          /\ connections' = Decremented(node[r])
          /\ UNCHANGED leaked
       \/ /\ upstream.algorithm # "least_connections"
          /\ leaked' = IF counted[r] THEN [leaked EXCEPT ![node[r]] = @ + 1] ELSE leaked
          /\ UNCHANGED connections
    /\ counted' = [counted EXCEPT ![r] = FALSE]
    /\ UNCHANGED <<upstream, reloaded, kind, sending, seen, ended, node>>

(* A transport error is counted and returned; an answer goes through       *)
(* after_response, which may fail, and is then counted.                    *)
Finalize(r) ==
    /\ kind[r] # "tcp" /\ pc[r] = "finalize"
    /\ \/ result[r] \in {"unreachable", "bad"} /\ End(r, "failed", 1)
       \/ result[r] \in {"ok", "5xx"} /\ (End(r, "served", 1) \/ End(r, "plugin_error", 0))

(* A tunnel is counted whatever its result; on_disconnect cannot change    *)
(* that.                                                                   *)
Disconnect(r) ==
    /\ kind[r] = "tcp" /\ pc[r] = "finalize"
    /\ End(r, IF result[r] = "ok" THEN "served" ELSE "failed", 1)

----------------------------------------------------------------------------
(* The connection goes away (client, idle timeout, shutdown) and the       *)
(* handler's future is dropped at an await.                                *)
Abort(r) ==
    /\ pc[r] \notin {"new", "tunnel", "done"}
    /\ End(r, "aborted", 0)

(* Hot reload replaces the selector's map. *)
LoadUpstreams(u) ==
    /\ u # upstream
    /\ upstream' = u
    /\ reloaded' = TRUE
    /\ UNCHANGED <<connections, pc, kind, sending, seen, ended, holding>>

HandlerStep(r) ==
    \/ Arrive(r) \/ BeforeRequest(r) \/ CheckRateLimit(r)
    \/ TunnelArrives(r) \/ OnConnect(r) \/ CheckTunnelLimits(r)
    \/ EstablishTunnel(r) \/ Disconnect(r)
    \/ \E n \in Nodes : Select(r, n)
    \/ SelectFails(r)
    \/ BreakerRejects(r) \/ BadUri(r) \/ BreakerAllows(r) \/ Upgrade(r)
    \/ \E res \in Results \ {"none"} : Forward(r, res)
    \/ RetryGranted(r) \/ RetryRefused(r)
    \/ RecordResult(r) \/ ReleaseNode(r) \/ Finalize(r)

(* Every request is over and nothing more is reloaded. *)
AllDone == (\A r \in Requests : pc[r] = "done") /\ UNCHANGED vars

Next ==
    \/ \E r \in Requests : HandlerStep(r) \/ TunnelEnds(r) \/ Abort(r)
    \/ \E u \in Upstreams : LoadUpstreams(u)
    \/ AllDone

Spec == Init /\ [][Next]_vars

----------------------------------------------------------------------------
Holding(n) == {r \in Requests : counted[r] /\ node[r] = n}

(* LeastConnections never believes a node busier than the requests on it   *)
(* and those that left without release_node, through reloads that remove   *)
(* nodes, bring them back, change the algorithm or remove the upstream     *)
(* while requests are on their way; and without a reload it is exact.      *)
CountsAccounted ==
    \A n \in Nodes :
        /\ connections[n] <= Cardinality(Holding(n)) + leaked[n]
        /\ ~reloaded => connections[n] = Cardinality(Holding(n)) + leaked[n]

(* The retry loop: only requests that may be retried are sent twice, no    *)
(* request is sent more than 1 + max_retries times, and every attempt of a *)
(* buffered request has been charged to the retry budget.                  *)
AttemptsJustified ==
    \A r \in Requests :
        /\ attempts[r] > 1 => can_retry(r)
        /\ attempts[r] <= MaxRetries + 1
        /\ Buffered(r) => attempts[r] <= charges[r]

(* However many attempts it took, the breaker hears of a request once,     *)
(* before its end, and exactly when it was sent; and it is counted in the  *)
(* metrics once, the failures that have no response included ("若不在此记录   *)
(* 错误请求在指标中完全不可观测", record_terminal_metric); of a tunnel also   *)
(* what kept it from being established ("不记录则失败完全不可观测",            *)
(* record_pre_tunnel_failure).                                             *)
ObservedOnce ==
    \A r \in Requests :
        /\ reports[r] <= 1 /\ metrics[r] <= 1
        /\ ended[r] \in {"served", "failed"} => reports[r] = 1
        /\ reports[r] = 1 /\ ended[r] = "none" => attempts[r] >= 1
        /\ ended[r] \in {"served", "failed", "limited", "open", "upgraded"} => metrics[r] = 1
        /\ kind[r] = "tcp" /\ ended[r] \in {"blocked", "no_route", "terminated"} => metrics[r] = 1
============================================================================
