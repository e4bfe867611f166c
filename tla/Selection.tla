----------------------------- MODULE Selection -----------------------------
(***************************************************************************)
(* The choice of an upstream node: UpstreamSelectorImpl::select_upstream   *)
(* of conrogate-gateway/src/pool.rs, the passive health checker it filters *)
(* with (health.rs), and the balancers of conrogate-balancer other than    *)
(* LeastConnections, whose counts are in RequestPath.  One balancer of     *)
(* each kind serves every upstream of the process.                         *)
(*                                                                         *)
(* Each select runs under the balancer's mutex or on one atomic; only      *)
(* ConsistentHash lets go of its lock, while it builds a ring.  The filter *)
(* keeps Healthy nodes and drops Degraded and Unhealthy ones alike, so of  *)
(* a node's health the model has whether it is `failing`.                  *)
(***************************************************************************)
EXTENDS Integers, FiniteSets, Sequences, SequencesExt, FiniteSetsExt, Functions

CONSTANTS
    Requests, Upstreams, Nodes,
    Keys, NoKey,        \* the affinity key (client IP) of a request
    Algorithms,         \* a subset of AllAlgorithms
    NodesOf,            \* the nodes of each upstream, in the order first loaded
    Address,            \* the address of each node
    Weightings,         \* the weights the nodes may have
    Flaky,              \* nodes a request to which may fail
    VNodes,             \* virtual nodes of the heaviest node
    Hashes,             \* possible hash functions: [node |-> .., key |-> ..]
    MAX_STATES,
    Cycle,              \* bound: the counter is kept modulo a multiple of every list length
    MaxReloads          \* bound: changes of the node lists

AllAlgorithms == {"round_robin", "weighted_round_robin", "consistent_hash"}

ASSUME SelectionAssumption ==
    /\ Algorithms \subseteq AllAlgorithms
    /\ NoKey \notin Keys
    /\ VNodes \in Nat \ {0} /\ MAX_STATES \in Nat \ {0}
    /\ \A u \in Upstreams : \A k \in 1..Len(NodesOf[u]) : Cycle % k = 0
    /\ \A u \in Upstreams : IsInjective([i \in DOMAIN NodesOf[u] |-> Address[NodesOf[u][i]]])

VARIABLES
    algorithm, weight, hash,    \* the configuration
    nodes,          \* node list of each upstream (disabled nodes included)
    enabled,
    failing,        \* nodes with an entry in the passive checker's states
    counter,        \* of RoundRobin
    states,         \* of WeightedRoundRobin: signature -> current weights
    cache,          \* of ConsistentHash: <<>> or <<[signature, ring]>>
    flight,         \* each request: idle, building a ring, or at its node
    reloads,
    debt,           \* history: per upstream and node set, how far each node is behind its share
    lastSet,        \* history: the node set of the last selection of each upstream
    used,           \* history: signatures each upstream has used
    steady,         \* history: upstreams whose balancer state nothing else has touched
    placed          \* history: where each key of each upstream last went, and among which nodes

config == <<algorithm, weight, hash>>
balancers == <<counter, states, cache>>
histories == <<debt, lastSet, used, steady, placed>>
vars == <<config, nodes, enabled, failing, balancers, flight, reloads, histories>>

Idle == [stage |-> "idle"]
EmptyFunction == [x \in {} |-> 0]
Enabled(list) == SelectSeq(list, LAMBDA n : n \in enabled)

Init ==
    /\ algorithm \in Algorithms
    /\ weight \in (IF algorithm = "round_robin" THEN {CHOOSE w \in Weightings : TRUE} ELSE Weightings)
    /\ hash \in (IF algorithm = "consistent_hash" THEN Hashes ELSE {CHOOSE h \in Hashes : TRUE})
    /\ nodes = NodesOf
    /\ enabled = Nodes
    /\ failing = {}
    /\ counter = 0 /\ states = EmptyFunction /\ cache = <<>>
    /\ flight = [r \in Requests |-> Idle]
    /\ reloads = 0
    /\ debt = [u \in Upstreams |-> EmptyFunction]
    /\ lastSet = [u \in Upstreams |-> {}]
    /\ used = [u \in Upstreams |-> {}]
    /\ steady = Upstreams
    /\ placed = [u \in Upstreams |-> EmptyFunction]

----------------------------------------------------------------------------
(* select_upstream: the healthy enabled nodes, or all if there is none.    *)
(* Mutant: the filter is left out.                                         *)
Healthy(n) == n \notin failing
filter_healthy(list) == SelectSeq(list, LAMBDA n : n \in enabled /\ Healthy(n))
Unfiltered(u) == nodes[u]
Schedulable(u) == IF filter_healthy(nodes[u]) = <<>> THEN nodes[u] ELSE filter_healthy(nodes[u])

(* What a balancer picks from: the enabled nodes, for the weighted one     *)
(* those with a positive weight.                                           *)
Candidates(u) ==
    SelectSeq(Enabled(Schedulable(u)), LAMBDA n : algorithm = "weighted_round_robin" => weight[n] > 0)

(* Bookkeeping of the history variables at a selection. *)
Share(n) == IF algorithm = "weighted_round_robin" THEN weight[n] ELSE 1
TotalShare(s) == MapThenSumSet(Share, s)
DebtOf(u, s) ==
    IF s \in DOMAIN debt[u] /\ (algorithm = "weighted_round_robin" \/ lastSet[u] = s)
    THEN debt[u][s] ELSE [n \in s |-> 0]
Charged(u, s, chosen) ==
    [n \in s |-> DebtOf(u, s)[n] + Share(n) - (IF n = chosen THEN TotalShare(s) ELSE 0)]

Disturbed(u, sig) ==
    {v \in Upstreams :
        \/ v # u /\ (algorithm = "round_robin" \/ sig \in used[v])
        \/ v = u /\ algorithm = "weighted_round_robin" /\ \E x \in Upstreams \ {u} : sig \in used[x]}

Goes(r, u, list, key, chosen, sig, cleared) ==
    LET s == Range(list)
        kept(v) == IF cleared \/ v \notin steady' THEN EmptyFunction ELSE debt[v]
    IN
    /\ flight' = [flight EXCEPT ![r] = [stage |-> "at", node |-> chosen]]
    /\ lastSet' = IF algorithm # "round_robin" THEN lastSet ELSE [lastSet EXCEPT ![u] = s]
    /\ used' = IF algorithm # "weighted_round_robin" THEN used ELSE [used EXCEPT ![u] = @ \cup {sig}]
    /\ steady' = steady \ Disturbed(u, sig)
    /\ debt' = IF algorithm = "consistent_hash" THEN debt
               ELSE [v \in Upstreams |->
                       IF v = u /\ v \in steady' THEN (s :> Charged(u, s, chosen)) @@ kept(v)
                       ELSE kept(v)]
    /\ placed' = IF key = NoKey \/ algorithm # "consistent_hash" THEN placed
                 ELSE [placed EXCEPT ![u] = (key :> [node |-> chosen, among |-> s]) @@ @]
    /\ UNCHANGED <<config, nodes, enabled, failing, reloads>>

----------------------------------------------------------------------------
Advanced == (counter + 1) % Cycle

RoundRobin(r, u) ==
    LET list == Candidates(u) IN
    /\ algorithm = "round_robin" /\ flight[r] = Idle /\ list # <<>>
    /\ counter' = Advanced
    /\ Goes(r, u, list, NoKey, list[1 + (counter % Len(list))], {}, FALSE)
    /\ UNCHANGED <<states, cache>>

(* Smooth weighted round robin.  The last of several greatest weights is   *)
(* taken.  Mutant: the chosen node pays its own weight only.               *)
Signature(list) == {<<Address[n], weight[n]>> : n \in Range(list)}
FeeOwn(list, n) == weight[n]
Fee(list, n) == TotalShare(Range(list))
Raised(list, current) == [i \in DOMAIN list |-> current[i] + weight[list[i]]]
MaxIndex(ws) == Max({i \in DOMAIN ws : \A j \in DOMAIN ws : ws[j] <= ws[i]})
Paid(list, current) ==
    LET ws == Raised(list, current)
        i == MaxIndex(ws)
    IN  [ws EXCEPT ![i] = @ - Fee(list, list[i])]

(* The table of states is cleared when it is full. *)
Full(sig) == Cardinality(DOMAIN states) >= MAX_STATES /\ sig \notin DOMAIN states

WeightedRoundRobin(r, u) ==
    LET list == Candidates(u)
        sig == Signature(list)
        cleared == Full(sig)
        kept == IF cleared THEN EmptyFunction ELSE states
        current == IF sig \in DOMAIN kept THEN kept[sig] ELSE [i \in DOMAIN list |-> 0]
    IN  /\ algorithm = "weighted_round_robin" /\ flight[r] = Idle /\ list # <<>>
        /\ states' = (sig :> Paid(list, current)) @@ kept
        /\ Goes(r, u, list, NoKey, list[MaxIndex(Raised(list, current))], sig, cleared)
        /\ UNCHANGED <<counter, cache>>

----------------------------------------------------------------------------
(* The ring maps positions to places in the node list.  Mutant: virtual    *)
(* nodes are hashed by place, not by node.                                 *)
Weight1(n) == Max({weight[n], 1})
VNodeCount(list, n) ==
    Max({1, (VNodes * Weight1(n)) \div Max({Weight1(m) : m \in Range(list)})})
PositionByPlace(list, i, v) == hash.node[<<NodesOf[CHOOSE u \in Upstreams : TRUE][i], v>>]
Position(list, i, v) == hash.node[<<list[i], v>>]
Occupied(list, i) == {Position(list, i, v) : v \in 0..VNodeCount(list, list[i]) - 1}
build_ring(list) ==
    [p \in UNION {Occupied(list, i) : i \in DOMAIN list} |->
        Max({i \in DOMAIN list : p \in Occupied(list, i)})]

Lookup(ring, key) ==
    LET after == {p \in DOMAIN ring : p >= hash.key[key]}
    IN  ring[Min(IF after = {} THEN DOMAIN ring ELSE after)]

HashSignature(list) == {<<n, Address[n], weight[n]>> : n \in Range(list)}
Cached(sig) == cache # <<>> /\ cache[1].signature = sig

HashStart(r, u, key) ==
    LET list == Candidates(u)
        sig == HashSignature(list)
    IN  /\ algorithm = "consistent_hash" /\ flight[r] = Idle /\ list # <<>>
        /\ \/ /\ key = NoKey
              /\ Goes(r, u, list, NoKey, Head(list), {}, FALSE)
           \/ /\ key # NoKey /\ Cached(sig)
              /\ Goes(r, u, list, key, list[Lookup(cache[1].ring, key)], sig, FALSE)
           \/ /\ key # NoKey /\ ~Cached(sig)
              /\ flight' = [flight EXCEPT ![r] = [stage |-> "building", upstream |-> u,
                                                  list |-> list, key |-> key]]
              /\ UNCHANGED <<config, nodes, enabled, failing, reloads, histories>>
        /\ UNCHANGED balancers

(* The ring is built without the lock, and stored unless another request   *)
(* has stored one for the same signature; that one is then used.           *)
HashFinish(r) ==
    LET f == flight[r]
        sig == HashSignature(f.list)
    IN  /\ f.stage = "building"
        /\ cache' = IF Cached(sig) THEN cache ELSE <<[signature |-> sig, ring |-> build_ring(f.list)]>>
        /\ Goes(r, f.upstream, f.list, f.key, f.list[Lookup(cache'[1].ring, f.key)], sig, FALSE)
        /\ UNCHANGED <<counter, states>>

(* The upstream has no node to offer: the balancer returns an error. *)
SelectFails(r, u) ==
    /\ flight[r] = Idle /\ Candidates(u) = <<>>
    /\ UNCHANGED vars

Select(r, u) ==
    \/ RoundRobin(r, u) \/ WeightedRoundRobin(r, u)
    \/ \E key \in Keys \cup {NoKey} : HashStart(r, u, key)
    \/ SelectFails(r, u)

----------------------------------------------------------------------------
(* record_result: mark_success drops the entry of the node, mark_failure   *)
(* makes one.                                                              *)
Ends(r) ==
    /\ flight' = [flight EXCEPT ![r] = Idle]
    /\ UNCHANGED <<config, nodes, enabled, balancers, reloads, histories>>

Success(r) == flight[r].stage = "at" /\ failing' = failing \ {flight[r].node} /\ Ends(r)
Failure(r) ==
    /\ flight[r].stage = "at" /\ flight[r].node \in Flaky
    /\ failing' = failing \cup {flight[r].node} /\ Ends(r)

(* load_upstreams replaces the lists: in another order (the query has no   *)
(* ORDER BY), or with another set of enabled nodes.                        *)
Reload(u) ==
    /\ reloads < MaxReloads
    /\ reloads' = reloads + 1
    /\ \/ /\ nodes' = [nodes EXCEPT ![u] = Reverse(@)]
          /\ steady' = steady \ {u} /\ debt' = [debt EXCEPT ![u] = EmptyFunction]
          /\ UNCHANGED enabled
       \/ \E n \in Range(nodes[u]) :
            enabled' = (enabled \ {n}) \cup ({n} \ enabled) /\ UNCHANGED <<nodes, steady, debt>>
    /\ UNCHANGED <<config, failing, balancers, flight, lastSet, used, placed>>

Next ==
    \/ \E r \in Requests, u \in Upstreams : Select(r, u)
    \/ \E r \in Requests : HashFinish(r) \/ Success(r) \/ Failure(r)
    \/ \E u \in Upstreams : Reload(u)

Spec == Init /\ [][Next]_vars

----------------------------------------------------------------------------
TypeOK ==
    /\ algorithm \in Algorithms /\ weight \in Weightings /\ hash \in Hashes
    /\ \A u \in Upstreams : Range(nodes[u]) = Range(NodesOf[u])
    /\ failing \subseteq Flaky
    /\ counter \in 0..Cycle - 1
    /\ Cardinality(DOMAIN states) <= MAX_STATES
    /\ \A sig \in DOMAIN states : Len(states[sig]) = Cardinality(sig)

(* A request goes to an enabled node of its upstream, and to one without   *)
(* failures whenever there is such a node: whatever the lists, rings and   *)
(* weights it is computed from were built for.  So a node with one failure *)
(* gets no traffic, however long it has recovered, while another is well.  *)
SelectsServingNode ==
    [][\A r \in Requests, u \in Upstreams :
         Select(r, u) /\ flight'[r].stage = "at" =>
            LET n == flight'[r].node
                healthy == Range(filter_healthy(nodes[u]))
            IN  n \in Range(nodes[u]) \cap enabled /\ (healthy # {} => n \in healthy)]_vars

(* Round robin and weighted round robin give each node its share: no node  *)
(* is a full round ahead or behind.  The state a balancer keeps must       *)
(* therefore be the upstream's own.  It is not, and the share is not kept, *)
(* after another upstream used the one counter, or equal addresses and     *)
(* weights; nor when a reload reorders the nodes.                          *)
FairShare ==
    /\ TypeOK
    /\ \A u \in steady : \A s \in DOMAIN debt[u] : \A n \in s :
        debt[u][s][n] \in (1 - TotalShare(s))..(TotalShare(s) - 1)

(* Consistent hashing keeps a key at its node, and when other nodes leave  *)
(* too, as long as the heaviest stays (virtual nodes are counted relative  *)
(* to it) and no reload reorders the nodes.                                *)
Heaviest(s) == Max({Weight1(n) : n \in s})
KeysStay ==
    [][\A u \in steady \cap steady', key \in Keys :
         key \in DOMAIN placed[u] /\ key \in DOMAIN placed'[u] =>
            LET old == placed[u][key]
                new == placed'[u][key]
            IN  new.among \subseteq old.among /\ old.node \in new.among
                /\ Heaviest(new.among) = Heaviest(old.among) => new.node = old.node]_vars
============================================================================
