------------------------- MODULE RequestPathProofs -------------------------
(***************************************************************************)
(* Proofs that LeastConnections' counts are accounted for, that every      *)
(* attempt is justified and that every request is observed once, for any   *)
(* finite set of requests, any nodes, any number of retries and any        *)
(* sequence of reloads.                                                    *)
(***************************************************************************)
EXTENDS RequestPath, FiniteSetTheorems, TLAPS

BeforeSelect == {"new", "plugins", "rate_limit", "select"}
OnNode == {"breaker", "forward", "backoff", "report", "release"}

(* A counted request has selected a node. *)
CountedOnNode ==
    \A r \in Requests :
        /\ counted[r] => node[r] \in Nodes
        /\ pc[r] \in BeforeSelect => ~counted[r]

(* Without a reload, every request between select_upstream and             *)
(* release_node was counted if LeastConnections is the algorithm, and only *)
(* listed nodes have counts.                                               *)
Undisturbed ==
    ~reloaded =>
        /\ upstream.algorithm = "least_connections" =>
               \A r \in Requests : pc[r] \in OnNode => counted[r]
        /\ \A n \in Nodes : n \notin upstream.enabled => connections[n] = 0

PathInv == TypeOK /\ CountedOnNode /\ Undisturbed /\ CountsAccounted

(* What a request keeps of its own attempts, reports and metrics. *)
RecordsTyped ==
    /\ attempts \in [Requests -> Nat] /\ result \in [Requests -> Results]
    /\ charges \in [Requests -> Nat] /\ reports \in [Requests -> Nat]
    /\ metrics \in [Requests -> Nat]

----------------------------------------------------------------------------
(* The requests on a node can be counted. *)
LEMMA HoldingFinite ==
    ASSUME NEW n \in Nodes
    PROVE  /\ IsFiniteSet(Holding(n)) /\ Cardinality(Holding(n)) \in Nat
           /\ IsFiniteSet(Holding(n)') /\ Cardinality(Holding(n)') \in Nat
  <1>1. Holding(n) \in SUBSET Requests /\ Holding(n)' \in SUBSET Requests
    BY DEF Holding
  <1>2. QED
    BY <1>1, PathAssumption, FS_Subset, FS_CardinalityType

(* select_upstream puts the request on one node. *)
LEMMA HoldingAdded ==
    ASSUME PathInv, NEW r \in Requests, NEW n \in Nodes, ~counted[r],
           counted' = [counted EXCEPT ![r] = TRUE], node' = [node EXCEPT ![r] = n],
           NEW m \in Nodes
    PROVE  Cardinality(Holding(m)') = Cardinality(Holding(m)) + (IF m = n THEN 1 ELSE 0)
  <1>1. CASE m = n
    <2>1. Holding(m)' = Holding(m) \cup {r} /\ r \notin Holding(m)
      BY <1>1 DEF PathInv, TypeOK, Holding
    <2>2. QED
      BY <1>1, <2>1, HoldingFinite, FS_AddElement
  <1>2. CASE m # n
    <2>1. Holding(m)' = Holding(m)
      BY <1>2 DEF PathInv, TypeOK, Holding
    <2>2. QED
      BY <1>2, <2>1, HoldingFinite
  <1>3. QED
    BY <1>1, <1>2

(* A request that is no longer counted leaves its node, and only that one. *)
LEMMA HoldingRemoved ==
    ASSUME PathInv, NEW r \in Requests,
           counted' = [counted EXCEPT ![r] = FALSE],
           node' = [node EXCEPT ![r] = NoNode] \/ node' = node,
           NEW m \in Nodes
    PROVE  /\ Cardinality(Holding(m)') =
                  Cardinality(Holding(m)) - (IF counted[r] /\ m = node[r] THEN 1 ELSE 0)
           /\ counted[r] /\ m = node[r] => Cardinality(Holding(m)) >= 1
  <1>1. CASE counted[r] /\ m = node[r]
    <2>1. Holding(m)' = Holding(m) \ {r} /\ r \in Holding(m)
      BY <1>1 DEF PathInv, TypeOK, Holding
    <2>2. Cardinality(Holding(m) \ {r}) = Cardinality(Holding(m)) - 1
      BY <2>1, HoldingFinite, FS_RemoveElement
    <2>3. Cardinality(Holding(m)') \in Nat
      BY HoldingFinite
    <2>4. QED
      BY <1>1, <2>1, <2>2, <2>3, HoldingFinite
  <1>2. CASE ~(counted[r] /\ m = node[r])
    <2>1. Holding(m)' = Holding(m)
      BY <1>2 DEF PathInv, TypeOK, Holding
    <2>2. QED
      BY <1>2, <2>1, HoldingFinite
  <1>3. QED
    BY <1>1, <1>2

(* Other steps leave the requests on a node as they are. *)
LEMMA HoldingKept ==
    ASSUME UNCHANGED <<counted, node>>, NEW m \in Nodes
    PROVE  Holding(m)' = Holding(m)
  BY DEF Holding

----------------------------------------------------------------------------
(* No request has arrived and no connection is counted. *)
LEMMA PathInit == Init => PathInv
  <1> SUFFICES ASSUME Init PROVE PathInv
    OBVIOUS
  <1>1. \A n \in Nodes : Cardinality(Holding(n)) = 0
    <2>1. \A n \in Nodes : Holding(n) = {}
      BY DEF Init, Holding
    <2>2. QED
      BY <2>1, FS_EmptySet
  <1>2. TypeOK
    BY PathAssumption DEF Init, TypeOK, Label, Results, Endings
  <1>3. CountedOnNode /\ Undisturbed
    BY DEF Init, CountedOnNode, Undisturbed, BeforeSelect, OnNode
  <1>4. CountsAccounted
    BY <1>1 DEF Init, CountsAccounted
  <1>5. QED
    BY <1>2, <1>3, <1>4 DEF PathInv

(* Every way the handler returns. *)
LEMMA EndStep ==
    ASSUME PathInv, NEW r \in Requests, NEW how \in Endings, NEW m \in {0, 1}, End(r, how, m)
    PROVE  PathInv'
  <1>1. TypeOK'
    <2>1. counted' \in [Requests -> BOOLEAN] /\ leaked' \in [Nodes -> Nat]
      <3>1. counted' = [counted EXCEPT ![r] = FALSE] /\ counted \in [Requests -> BOOLEAN]
        BY DEF End, PathInv, TypeOK
      <3>2. counted' \in [Requests -> BOOLEAN]
        BY <3>1, Zenon
      <3>3. leaked' \in [Nodes -> Nat]
        <4>1. leaked \in [Nodes -> Nat] /\ (counted[r] => node[r] \in Nodes)
          BY DEF PathInv, TypeOK, CountedOnNode
        <4>2. CASE counted[r]
          BY <4>1, <4>2 DEF End
        <4>3. CASE ~counted[r]
          BY <4>1, <4>3 DEF End
        <4>4. QED
          BY <4>2, <4>3
      <3>4. QED
        BY <3>2, <3>3
    <2>2. pc' \in [Requests -> Label] /\ ended' \in [Requests -> Endings]
      BY DEF End, PathInv, TypeOK, Label
    <2>3. /\ metrics' \in [Requests -> Nat]
          /\ attempts' \in [Requests -> Nat]
          /\ charges' \in [Requests -> Nat]
      BY DEF End, PathInv, TypeOK
    <2>4. result' \in [Requests -> Results] /\ node' \in [Requests -> Nodes \cup {NoNode}]
      BY DEF End, PathInv, TypeOK, Results
    <2>5. UNCHANGED <<upstream, connections, reloaded, kind, reports>>
      BY DEF End, balancer
    <2>6. QED
      BY <2>1, <2>2, <2>3, <2>4, <2>5 DEF PathInv, TypeOK
  <1>2. CountedOnNode'
    BY DEF End, PathInv, TypeOK, CountedOnNode, BeforeSelect
  <1>3. Undisturbed'
    BY DEF End, PathInv, TypeOK, Undisturbed, OnNode, balancer
  <1>4. CountsAccounted'
    <2> SUFFICES ASSUME NEW n \in Nodes
                 PROVE  /\ connections'[n] <= Cardinality(Holding(n)') + leaked'[n]
                        /\ ~reloaded' => connections'[n] = Cardinality(Holding(n)') + leaked'[n]
      BY DEF CountsAccounted
    <2>1. Cardinality(Holding(n)') =
              Cardinality(Holding(n)) - (IF counted[r] /\ n = node[r] THEN 1 ELSE 0)
      BY HoldingRemoved DEF End
    <2>2. leaked'[n] = leaked[n] + (IF counted[r] /\ n = node[r] THEN 1 ELSE 0)
      BY DEF End, PathInv, TypeOK, CountedOnNode
    <2>3. /\ connections[n] <= Cardinality(Holding(n)) + leaked[n]
          /\ ~reloaded => connections[n] = Cardinality(Holding(n)) + leaked[n]
      BY DEF PathInv, CountsAccounted
    <2>4. UNCHANGED <<connections, reloaded>>
      BY DEF End, balancer
    <2>5. connections[n] \in Nat /\ leaked[n] \in Nat /\ Cardinality(Holding(n)) \in Nat
      BY HoldingFinite DEF PathInv, TypeOK
    <2>6. QED
      BY <2>1, <2>2, <2>3, <2>4, <2>5
  <1>5. QED
    BY <1>1, <1>2, <1>3, <1>4 DEF PathInv

(* Steps that touch neither the counts nor the requests' nodes. *)
LEMMA QuietStep ==
    ASSUME PathInv, NEW r \in Requests, NEW from \in Label, NEW to \in Label, Goto(r, from, to),
           UNCHANGED <<balancer, kind, ended, holding>>,
           from \in OnNode \/ to \notin OnNode,
           from \in BeforeSelect \/ to \notin BeforeSelect,
           RecordsTyped'
    PROVE  PathInv'
  <1>1. TypeOK'
    BY DEF RecordsTyped, Goto, PathInv, TypeOK, balancer, holding
  <1>2. CountedOnNode'
    BY DEF Goto, PathInv, TypeOK, CountedOnNode, holding
  <1>3. Undisturbed'
    BY DEF Goto, PathInv, TypeOK, Undisturbed, balancer, holding
  <1>4. CountsAccounted'
    BY HoldingKept DEF PathInv, CountsAccounted, balancer, holding
  <1>5. QED
    BY <1>1, <1>2, <1>3, <1>4 DEF PathInv

(* select_upstream keeps the counts accounted for. *)
LEMMA SelectStep ==
    ASSUME PathInv, NEW r \in Requests, NEW n \in Nodes, Select(r, n)
    PROVE  PathInv'
  <1>0. ~counted[r]
    BY DEF Select, Goto, PathInv, CountedOnNode, BeforeSelect
  <1>1. CASE upstream.algorithm = "least_connections"
    <2>0. counted' = [counted EXCEPT ![r] = TRUE] /\ connections' = LeastSelected(n)
      BY <1>1 DEF Select
    <2>1. TypeOK'
      <3>1. connections' \in [Nodes -> Nat]
        BY <2>0 DEF LeastSelected, PathInv, TypeOK
      <3>2. counted' \in [Requests -> BOOLEAN]
        BY <2>0 DEF PathInv, TypeOK
      <3>3. QED
        BY <3>1, <3>2 DEF Select, Goto, PathInv, TypeOK, Label, sending, seen
    <2>2. CountedOnNode'
      BY <2>0 DEF Select, Goto, PathInv, TypeOK, CountedOnNode, BeforeSelect
    <2>3. Undisturbed'
      BY <2>0 DEF Select, Goto, LeastSelected, PathInv, TypeOK, Undisturbed, OnNode
    <2>4. CountsAccounted'
      <3> SUFFICES ASSUME NEW m \in Nodes
                   PROVE  /\ connections'[m] <= Cardinality(Holding(m)') + leaked'[m]
                          /\ ~reloaded' =>
                                connections'[m] = Cardinality(Holding(m)') + leaked'[m]
        BY DEF CountsAccounted
      <3>1. Cardinality(Holding(m)') = Cardinality(Holding(m)) + (IF m = n THEN 1 ELSE 0)
        BY <1>0, <2>0, HoldingAdded DEF Select
      <3>2. connections'[m] = IF m \notin upstream.enabled THEN 0
                              ELSE connections[m] + (IF m = n THEN 1 ELSE 0)
        BY <2>0 DEF LeastSelected, PathInv, TypeOK
      <3>3. /\ connections[m] <= Cardinality(Holding(m)) + leaked[m]
            /\ ~reloaded => connections[m] = Cardinality(Holding(m)) + leaked[m]
            /\ ~reloaded /\ m \notin upstream.enabled => connections[m] = 0
        BY DEF PathInv, CountsAccounted, Undisturbed
      <3>4. UNCHANGED <<leaked, reloaded>> /\ n \in upstream.enabled
        BY DEF Select
      <3>5. connections[m] \in Nat /\ leaked[m] \in Nat /\ Cardinality(Holding(m)) \in Nat
        BY HoldingFinite DEF PathInv, TypeOK
      <3>6. QED
        BY <3>1, <3>2, <3>3, <3>4, <3>5
    <2>5. QED
      BY <2>1, <2>2, <2>3, <2>4 DEF PathInv
  <1>2. CASE upstream.algorithm = "other"
    <2>0. UNCHANGED <<connections, counted>>
      BY <1>2 DEF Select
    <2>1. TypeOK'
      BY <2>0 DEF Select, Goto, PathInv, TypeOK, Label, sending, seen
    <2>2. CountedOnNode'
      BY <2>0 DEF Select, Goto, PathInv, TypeOK, CountedOnNode, BeforeSelect
    <2>3. Undisturbed'
      BY <1>2, <2>0 DEF Select, PathInv, Undisturbed
    <2>4. CountsAccounted'
      <3>1. \A m \in Nodes : Holding(m)' = Holding(m)
        BY <1>0, <2>0 DEF Select, PathInv, TypeOK, Holding
      <3>2. QED
        BY <2>0, <3>1 DEF Select, PathInv, CountsAccounted
    <2>5. QED
      BY <2>1, <2>2, <2>3, <2>4 DEF PathInv
  <1>3. QED
    BY <1>1, <1>2 DEF Select

(* release_node keeps the counts accounted for. *)
LEMMA ReleaseStep ==
    ASSUME PathInv, NEW r \in Requests, ReleaseNode(r)
    PROVE  PathInv'
  <1>0. counted' = [counted EXCEPT ![r] = FALSE] /\ node' = node /\ pc[r] = "release"
    BY DEF ReleaseNode, Goto
  <1>1. TypeOK'
    <2>1. connections' \in [Nodes -> Nat]
      BY DEF ReleaseNode, Decremented, PathInv, TypeOK
    <2>2. leaked' \in [Nodes -> Nat]
      BY DEF ReleaseNode, PathInv, TypeOK
    <2>3. counted' \in [Requests -> BOOLEAN]
      BY <1>0 DEF PathInv, TypeOK
    <2>4. QED
      BY <2>1, <2>2, <2>3 DEF ReleaseNode, Goto, PathInv, TypeOK, Label, sending, seen
  <1>2. CountedOnNode'
    BY <1>0 DEF ReleaseNode, Goto, PathInv, TypeOK, CountedOnNode, BeforeSelect
  <1>3. Undisturbed'
    BY <1>0 DEF ReleaseNode, Goto, Decremented, PathInv, TypeOK, Undisturbed, OnNode
  <1>4. CountsAccounted'
    <2> SUFFICES ASSUME NEW m \in Nodes
                 PROVE  /\ connections'[m] <= Cardinality(Holding(m)') + leaked'[m]
                        /\ ~reloaded' => connections'[m] = Cardinality(Holding(m)') + leaked'[m]
      BY DEF CountsAccounted
    <2>1. /\ Cardinality(Holding(m)') =
                 Cardinality(Holding(m)) - (IF counted[r] /\ m = node[r] THEN 1 ELSE 0)
          /\ counted[r] /\ m = node[r] => Cardinality(Holding(m)) >= 1
      BY <1>0, HoldingRemoved
    <2>2. /\ connections[m] <= Cardinality(Holding(m)) + leaked[m]
          /\ ~reloaded => connections[m] = Cardinality(Holding(m)) + leaked[m]
      BY DEF PathInv, CountsAccounted
    <2>3. connections[m] \in Nat /\ leaked[m] \in Nat /\ Cardinality(Holding(m)) \in Nat
      BY HoldingFinite DEF PathInv, TypeOK
    <2>4. UNCHANGED reloaded
      BY DEF ReleaseNode
    <2>5. CASE upstream.algorithm = "least_connections"
      <3>1. ~reloaded => counted[r]
        BY <1>0, <2>5 DEF PathInv, Undisturbed, OnNode
      <3>2. connections'[m] = IF m = node[r] /\ connections[m] > 0
                              THEN connections[m] - 1 ELSE connections[m]
        BY <2>5 DEF ReleaseNode, Decremented, PathInv, TypeOK
      <3>3. UNCHANGED leaked
        BY <2>5 DEF ReleaseNode
      <3>4. QED
        BY <2>1, <2>2, <2>3, <2>4, <3>1, <3>2, <3>3
    <2>6. CASE upstream.algorithm # "least_connections"
      <3>1. leaked'[m] = leaked[m] + (IF counted[r] /\ m = node[r] THEN 1 ELSE 0)
        BY <2>6 DEF ReleaseNode, PathInv, TypeOK
      <3>2. UNCHANGED connections
        BY <2>6 DEF ReleaseNode
      <3>3. QED
        BY <2>1, <2>2, <2>3, <2>4, <3>1, <3>2
    <2>7. QED
      BY <2>5, <2>6
  <1>5. QED
    BY <1>1, <1>2, <1>3, <1>4 DEF PathInv

(* Every step of the handlers and every reload keeps the invariant. *)
LEMMA PathStep ==
    ASSUME PathInv, [Next]_vars
    PROVE  PathInv'
  <1> USE DEF Label, OnNode, BeforeSelect, Results
  <1>1. ASSUME NEW r \in Requests, NEW how \in Endings, NEW m \in {0, 1}, End(r, how, m)
        PROVE  PathInv'
    BY <1>1, EndStep
  <1>2. ASSUME NEW r \in Requests, NEW from \in Label, NEW to \in Label, Proceed(r, from, to),
               from \in OnNode \/ to \notin OnNode,
               from \in BeforeSelect \/ to \notin BeforeSelect
        PROVE  PathInv'
    <2>1. UNCHANGED <<attempts, result, charges, reports, metrics>>
      BY <1>2 DEF Proceed, sending, seen
    <2>2. RecordsTyped'
      BY <2>1 DEF RecordsTyped, PathInv, TypeOK
    <2>3. Goto(r, from, to) /\ UNCHANGED <<balancer, kind, ended, holding>>
      BY <1>2 DEF Proceed
    <2>4. QED
      BY <1>2, <2>2, <2>3, QuietStep
  <1>3. ASSUME NEW r \in Requests, HandlerStep(r) PROVE PathInv'
    <2>1. CASE Arrive(r)
      BY <1>1, <1>2, <2>1 DEF Arrive, Endings
    <2>2. CASE BeforeRequest(r)
      BY <1>1, <1>2, <2>2 DEF BeforeRequest, Endings
    <2>3. CASE CheckRateLimit(r)
      BY <1>1, <1>2, <2>3 DEF CheckRateLimit, Endings
    <2>4. CASE \E n \in Nodes : Select(r, n)
      BY <2>4, SelectStep
    <2>5. CASE SelectFails(r) \/ BreakerRejects(r) \/ BadUri(r)
      BY <1>1, <2>5 DEF SelectFails, BreakerRejects, BadUri, Endings
    <2>6. CASE BreakerAllows(r)
      <3>1. RecordsTyped'
        BY <2>6 DEF BreakerAllows, seen, RecordsTyped, PathInv, TypeOK
      <3>2. Goto(r, "breaker", "forward") /\ UNCHANGED <<balancer, kind, ended, holding>>
        BY <2>6 DEF BreakerAllows
      <3>3. QED
        BY <1>3, <3>1, <3>2, QuietStep
    <2>7. CASE Upgrade(r)
      <3>1. RecordsTyped'
        BY <2>7 DEF Upgrade, sending, RecordsTyped, PathInv, TypeOK
      <3>2. Goto(r, "breaker", "tunnel") /\ UNCHANGED <<balancer, kind, ended, holding>>
        BY <2>7 DEF Upgrade
      <3>3. QED
        BY <1>3, <3>1, <3>2, QuietStep
    <2>8. ASSUME NEW res \in Results \ {"none"}, Forward(r, res) PROVE PathInv'
      <3>1. RecordsTyped'
        BY <2>8 DEF Forward, seen, RecordsTyped, PathInv, TypeOK
      <3>2. Goto(r, "forward", "backoff") \/ Goto(r, "forward", "report")
        BY <2>8 DEF Forward
      <3>3. UNCHANGED <<balancer, kind, ended, holding>>
        BY <2>8 DEF Forward
      <3>4. QED
        BY <1>3, <3>1, <3>2, <3>3, QuietStep
    <2>9. CASE RetryGranted(r)
      <3>1. RecordsTyped'
        BY <2>9 DEF RetryGranted, seen, RecordsTyped, PathInv, TypeOK
      <3>2. Goto(r, "backoff", "forward") /\ UNCHANGED <<balancer, kind, ended, holding>>
        BY <2>9 DEF RetryGranted
      <3>3. QED
        BY <1>3, <3>1, <3>2, QuietStep
    <2>10. CASE RetryRefused(r)
      BY <1>2, <2>10 DEF RetryRefused
    <2>11. CASE RecordResult(r)
      <3>1. RecordsTyped'
        BY <2>11 DEF RecordResult, sending, RecordsTyped, PathInv, TypeOK
      <3>2. Goto(r, "report", "release") /\ UNCHANGED <<balancer, kind, ended, holding>>
        BY <2>11 DEF RecordResult
      <3>3. QED
        BY <1>3, <3>1, <3>2, QuietStep
    <2>12. CASE ReleaseNode(r)
      BY <2>12, ReleaseStep
    <2>13. CASE Finalize(r)
      BY <1>1, <2>13 DEF Finalize, Endings
    <2>14. CASE TunnelArrives(r)
      BY <1>1, <1>2, <2>14 DEF TunnelArrives, RejectTunnel, Endings
    <2>15. CASE OnConnect(r)
      BY <1>1, <1>2, <2>15 DEF OnConnect, RejectTunnel, Endings
    <2>16. CASE Disconnect(r)
      BY <1>1, <2>16 DEF Disconnect, Endings
    <2>17. CASE CheckTunnelLimits(r) \/ EstablishTunnel(r)
      BY <1>1, <1>2, <2>17 DEF CheckTunnelLimits, EstablishTunnel, RejectTunnel, Endings
    <2>18. QED
      BY <1>3, <2>1, <2>2, <2>3, <2>4, <2>5, <2>6, <2>7, <2>8, <2>9, <2>10, <2>11, <2>12, <2>13,
         <2>14, <2>15, <2>16, <2>17
      DEF HandlerStep
  <1>4. ASSUME NEW r \in Requests, TunnelEnds(r) \/ Abort(r) PROVE PathInv'
    BY <1>1, <1>4 DEF TunnelEnds, Abort, Endings
  <1>5. ASSUME NEW u \in Upstreams, LoadUpstreams(u) PROVE PathInv'
    <2>1. TypeOK' /\ reloaded'
      BY <1>5, PathAssumption DEF LoadUpstreams, PathInv, TypeOK, sending, seen, holding
    <2>2. CountedOnNode' /\ Undisturbed'
      BY <1>5 DEF LoadUpstreams, PathInv, CountedOnNode, Undisturbed, holding
    <2>3. CountsAccounted'
      BY <1>5, HoldingKept DEF LoadUpstreams, PathInv, CountsAccounted, holding
    <2>4. QED
      BY <2>1, <2>2, <2>3 DEF PathInv
  <1>6. CASE UNCHANGED vars
    <2>1. TypeOK' /\ CountedOnNode' /\ Undisturbed'
      BY <1>6 DEF vars, balancer, sending, seen, holding, PathInv, TypeOK, CountedOnNode,
                  Undisturbed
    <2>2. CountsAccounted'
      BY <1>6, HoldingKept DEF vars, balancer, holding, PathInv, CountsAccounted
    <2>3. QED
      BY <2>1, <2>2 DEF PathInv
  <1>7. QED
    BY <1>3, <1>4, <1>5, <1>6 DEF Next, AllDone

(* The inductive invariant of the forwarding path. *)
THEOREM PathInvariant == Spec => []PathInv
  BY PathInit, PathStep, PTL DEF Spec

(* Type correctness; in particular no count of LeastConnections            *)
(* underflows.                                                             *)
THEOREM PathTypeOK == Spec => []TypeOK
  <1>1. PathInv => TypeOK
    BY DEF PathInv
  <1>2. QED
    BY <1>1, PathInvariant, PTL

(* LeastConnections never believes a node busier than the requests on it   *)
(* and those that left without release_node; without a reload it is exact. *)
THEOREM CountsAlwaysAccounted == Spec => []CountsAccounted
  <1>1. PathInv => CountsAccounted
    BY DEF PathInv
  <1>2. QED
    BY <1>1, PathInvariant, PTL

----------------------------------------------------------------------------
(* What a request's attempts, charges, report and metric are at each       *)
(* place of its handler.                                                   *)
Attempted(r) ==
    /\ pc[r] \in BeforeSelect \cup {"breaker", "tunnel"} => attempts[r] = 0 /\ charges[r] = 0
    /\ pc[r] = "forward" =>
           /\ attempts[r] <= MaxRetries
           /\ attempts[r] >= 1 => can_retry(r)
           /\ Buffered(r) => attempts[r] < charges[r]
    /\ pc[r] = "backoff" => attempts[r] <= MaxRetries /\ can_retry(r)
    /\ pc[r] \in {"backoff", "report", "release", "finalize"} => attempts[r] >= 1
    /\ attempts[r] > 1 => can_retry(r)
    /\ attempts[r] <= MaxRetries + 1
    /\ Buffered(r) => attempts[r] <= charges[r]

Observed(r) ==
    /\ ended[r] = "none" <=> pc[r] # "done"
    /\ pc[r] \in {"release", "finalize"} => reports[r] = 1
    /\ pc[r] \notin {"release", "finalize", "done"} => reports[r] = 0
    /\ pc[r] \notin {"tunnel", "done"} => metrics[r] = 0
    /\ pc[r] = "tunnel" => metrics[r] = 1
    /\ reports[r] <= 1 /\ metrics[r] <= 1
    /\ ended[r] \in {"served", "failed"} => reports[r] = 1
    /\ ended[r] \in {"served", "failed", "limited", "open", "upgraded"} => metrics[r] = 1
    /\ kind[r] = "tcp" /\ ended[r] \in {"blocked", "no_route", "terminated"} => metrics[r] = 1

RecordsInv == \A r \in Requests : Attempted(r) /\ Observed(r)

(* A step changes the records of one request. *)
LEMMA OthersKept ==
    ASSUME TypeOK, RecordsInv, NEW r \in Requests, HandlerStep(r) \/ TunnelEnds(r) \/ Abort(r),
           (Attempted(r) /\ Observed(r))'
    PROVE  RecordsInv'
  <1>1. ASSUME NEW s \in Requests, s # r
        PROVE  /\ pc'[s] = pc[s] /\ attempts'[s] = attempts[s] /\ charges'[s] = charges[s]
               /\ reports'[s] = reports[s] /\ metrics'[s] = metrics[s]
               /\ ended'[s] = ended[s] /\ kind'[s] = kind[s]
    <2> USE <1>1 DEF TypeOK, Goto, Proceed, sending, seen
    <2>1. CASE \E how \in Endings, m \in {0, 1} : End(r, how, m)
      BY <2>1 DEF End
    <2>2. CASE \E from, to \in Label : Proceed(r, from, to)
      BY <2>2
    <2>3. CASE \E n \in Nodes : Select(r, n)
      BY <2>3 DEF Select
    <2>4. CASE BreakerAllows(r) \/ Upgrade(r) \/ RetryGranted(r)
      BY <2>4 DEF BreakerAllows, Upgrade, RetryGranted
    <2>5. CASE \E res \in Results : Forward(r, res)
      BY <2>5 DEF Forward
    <2>6. CASE RecordResult(r) \/ ReleaseNode(r)
      BY <2>6 DEF RecordResult, ReleaseNode
    <2>7. QED
      BY <2>1, <2>2, <2>3, <2>4, <2>5, <2>6
      DEF HandlerStep, TunnelEnds, Abort, Arrive, BeforeRequest, CheckRateLimit, TunnelArrives,
          OnConnect, CheckTunnelLimits, RejectTunnel, EstablishTunnel, Disconnect, SelectFails,
          BreakerRejects, BadUri, RetryRefused, Finalize, Endings, Label
  <1>2. ASSUME NEW s \in Requests PROVE (Attempted(s) /\ Observed(s))'
    <2>1. CASE s = r
      BY <2>1
    <2>2. CASE s # r
      BY <1>1, <2>2 DEF RecordsInv, Attempted, Observed, can_retry, Buffered
    <2>3. QED
      BY <2>1, <2>2
  <1>3. QED
    BY <1>2 DEF RecordsInv

(* An end with its metric, in the places the handler may end. *)
LEMMA EndRecorded ==
    ASSUME TypeOK, RecordsInv, NEW r \in Requests, NEW how \in Endings \ {"none"},
           NEW m \in {0, 1}, End(r, how, m), pc[r] # "done",
           pc[r] = "tunnel" => m = 0,
           how \in {"served", "failed"} => pc[r] = "finalize" /\ m = 1,
           how \in {"limited", "open"} => m = 1,
           how = "upgraded" => pc[r] = "tunnel",
           kind[r] = "tcp" /\ how \in {"blocked", "no_route", "terminated"} => m = 1
    PROVE  (Attempted(r) /\ Observed(r))'
  <1>1. Attempted(r)'
    BY PathAssumption DEF End, TypeOK, Attempted, BeforeSelect
  <1>2. Observed(r)'
    BY DEF End, TypeOK, RecordsInv, Observed, Endings
  <1>3. QED
    BY <1>1, <1>2

(* A step that only moves on, between places with the same records. *)
LEMMA ProceedRecorded ==
    ASSUME TypeOK, RecordsInv, NEW r \in Requests, NEW from \in Label, NEW to \in Label,
           Proceed(r, from, to),
           \/ from \in BeforeSelect /\ to \in BeforeSelect
           \/ from = "backoff" /\ to = "report"
    PROVE  (Attempted(r) /\ Observed(r))'
  BY DEF Proceed, Goto, sending, seen, TypeOK, RecordsInv, Attempted, Observed, BeforeSelect,
         can_retry, Buffered

(* Every step of a handler keeps the records right. *)
LEMMA RecordsStep ==
    ASSUME TypeOK, RecordsInv, [Next]_vars
    PROVE  RecordsInv'
  <1> USE DEF BeforeSelect
  <1>1. ASSUME NEW r \in Requests, HandlerStep(r) PROVE (Attempted(r) /\ Observed(r))'
    <2>1. CASE Arrive(r) \/ BeforeRequest(r) \/ CheckRateLimit(r)
      BY <2>1, EndRecorded, ProceedRecorded
      DEF Arrive, BeforeRequest, CheckRateLimit, Endings, Label
    <2>2. CASE TunnelArrives(r) \/ OnConnect(r) \/ CheckTunnelLimits(r)
      BY <2>2, EndRecorded, ProceedRecorded
      DEF TunnelArrives, OnConnect, CheckTunnelLimits, RejectTunnel, Endings, Label
    <2>3. CASE SelectFails(r) \/ BreakerRejects(r) \/ BadUri(r)
      BY <2>3, EndRecorded DEF SelectFails, BreakerRejects, BadUri, Endings
    <2>4. CASE Finalize(r) \/ Disconnect(r)
      BY <2>4, EndRecorded DEF Finalize, Disconnect, Endings
    <2>5. CASE RetryRefused(r)
      BY <2>5, ProceedRecorded DEF RetryRefused, Label
    <2> USE DEF TypeOK, RecordsInv, Goto, Attempted, Observed, can_retry, Buffered, sending, seen
    <2>6. CASE \E n \in Nodes : Select(r, n)
      BY <2>6 DEF Select
    <2>7. CASE BreakerAllows(r) \/ EstablishTunnel(r)
      BY <2>7, PathAssumption DEF BreakerAllows, EstablishTunnel, Proceed
    <2>8. CASE Upgrade(r)
      BY <2>8 DEF Upgrade
    <2>9. ASSUME NEW res \in Results, Forward(r, res) PROVE (Attempted(r) /\ Observed(r))'
      BY <2>9, PathAssumption DEF Forward, Retryable
    <2>10. CASE RetryGranted(r)
      BY <2>10 DEF RetryGranted
    <2>11. CASE RecordResult(r)
      BY <2>11 DEF RecordResult
    <2>12. CASE ReleaseNode(r)
      BY <2>12 DEF ReleaseNode
    <2>13. QED
      BY <1>1, <2>1, <2>2, <2>3, <2>4, <2>5, <2>6, <2>7, <2>8, <2>9, <2>10, <2>11, <2>12
      DEF HandlerStep
  <1>2. ASSUME NEW r \in Requests, TunnelEnds(r) \/ Abort(r)
        PROVE  (Attempted(r) /\ Observed(r))'
    BY <1>2, EndRecorded DEF TunnelEnds, Abort, Endings
  <1>3. CASE UNCHANGED <<pc, attempts, charges, reports, metrics, ended, kind>>
    BY <1>3 DEF RecordsInv, Attempted, Observed, can_retry, Buffered
  <1>4. QED
    BY <1>1, <1>2, <1>3, OthersKept DEF Next, AllDone, LoadUpstreams, vars, sending, seen

(* The records of every request are right in every state. *)
THEOREM RecordsInvariant == Spec => []RecordsInv
  <1>1. Init => RecordsInv
    BY PathAssumption DEF Init, RecordsInv, Attempted, Observed, Buffered
  <1>2. QED
    BY <1>1, PathTypeOK, RecordsStep, PTL DEF Spec

(* For any number of retries: only requests that may be retried are sent   *)
(* twice, never more than 1 + max_retries times, and always on budget.     *)
THEOREM AttemptsAlwaysJustified == Spec => []AttemptsJustified
  <1>1. RecordsInv => AttemptsJustified
    BY DEF RecordsInv, Attempted, AttemptsJustified
  <1>2. QED
    BY <1>1, RecordsInvariant, PTL

(* Every request is reported to the breaker once when it was sent, and     *)
(* counted in the metrics once.                                            *)
THEOREM AlwaysObservedOnce == Spec => []ObservedOnce
  <1>1. TypeOK /\ RecordsInv => ObservedOnce
    BY DEF TypeOK, RecordsInv, Attempted, Observed, ObservedOnce, Label
  <1>2. QED
    BY <1>1, PathTypeOK, RecordsInvariant, PTL
============================================================================
