----------------------- MODULE ClusterBreakerProofs -----------------------
(***************************************************************************)
(* Proof that the breaker in cluster mode rejects no request, for any      *)
(* number of requests and processes, any positive threshold and any        *)
(* refresh interval.  The decision is about counts read earlier, so the    *)
(* invariant follows the failures through the three places they pass: the  *)
(* Redis key, what a request has read, and the cache.                      *)
(***************************************************************************)
EXTENDS ClusterBreaker, TLAPS

Snapshot == [success : Nat, failure : {0}, age : Nat]

NoFailuresSeen ==
    /\ succ # Absent => succ[1] \in Int
    /\ fail # Absent => fail[1] \in Int /\ fail[1] <= 0
    /\ cache # <<>> => cache[1] \in Snapshot
    /\ reading \in [Requests -> {NotReading} \cup (Nat \X {0})]
    /\ shed = FALSE

(* Without failures no positive threshold is reached. *)
LEMMA RateNotExceeded ==
    ASSUME NEW s \in Nat
    PROVE  ~cluster_rate_exceeded(s, 0)
<1>1. ThresholdNum \in Nat \ {0} /\ ThresholdDen \in Nat
  BY BreakerConfigAssumption, ClusterAssumption
<1>2. CASE s = 0
  BY <1>2 DEF cluster_rate_exceeded
<1>3. CASE s > 0
  <2>1. ThresholdNum * s > 0 /\ 0 * ThresholdDen = 0
    BY <1>1, <1>3
  <2> QED BY <1>1, <2>1 DEF cluster_rate_exceeded, RateExceeded
<1> QED BY <1>2, <1>3

(* A decision on counts without failures lets the request through. *)
LEMMA DecideLetsThrough ==
    ASSUME NEW r, NEW s \in Nat, Decide(r, s, 0)
    PROVE  shed' = FALSE
<1>1. cluster_rate_exceeded(s, 0) = FALSE
  BY RateNotExceeded DEF cluster_rate_exceeded
<1> QED BY <1>1 DEF Decide

(* A mirrored outcome leaves numbers, and failures at or below zero. *)
LEMMA MirrorKeepsSign ==
    ASSUME NoFailuresSeen, Mirror
    PROVE  /\ succ' # Absent => succ'[1] \in Int
           /\ fail' # Absent => fail'[1] \in Int /\ fail'[1] <= 0
  BY DEF NoFailuresSeen, Mirror, MirrorSuccess, MirrorFailure, IncrBy, SuccessDir,
         FailureDir, Absent

(* Every step keeps failures out of sight. *)
LEMMA ClusterStep ==
    NoFailuresSeen /\ [Standalone \/ ClusterNext]_allVars => NoFailuresSeen'
<1> SUFFICES ASSUME NoFailuresSeen, [Standalone \/ ClusterNext]_allVars
             PROVE  NoFailuresSeen'
  OBVIOUS
<1>1. ASSUME NEW r \in Requests, AllowCached(r) PROVE NoFailuresSeen'
  <2>1. cache[1].success \in Nat /\ cache[1].failure = 0
    BY <1>1 DEF AllowCached, Fresh, NoFailuresSeen, Snapshot
  <2>2. shed' = FALSE
    BY <1>1, <2>1, DecideLetsThrough DEF AllowCached
  <2> QED BY <1>1, <2>2 DEF AllowCached, Decide, NoFailuresSeen
<1>2. ASSUME NEW r \in Requests, ReadCounts(r) PROVE NoFailuresSeen'
  <2>1. Clamped(succ[1]) \in Nat /\ Clamped(fail[1]) = 0
    BY <1>2 DEF ReadCounts, NoFailuresSeen, Clamped
  <2> QED BY <1>2, <2>1 DEF ReadCounts, NoFailuresSeen
<1>3. ASSUME NEW r \in Requests, CacheCounts(r) PROVE NoFailuresSeen'
  <2>1. reading[r][1] \in Nat /\ reading[r][2] = 0
    BY <1>3 DEF CacheCounts, NoFailuresSeen
  <2>2. shed' = FALSE
    BY <1>3, <2>1, DecideLetsThrough DEF CacheCounts
  <2>3. cache'[1] \in Snapshot
    BY <1>3, <2>1 DEF CacheCounts, Snapshot
  <2> QED BY <1>3, <2>2, <2>3 DEF CacheCounts, Decide, NoFailuresSeen
<1>4. ASSUME NEW r \in Requests, FailOpen(r) PROVE NoFailuresSeen'
  <2>1. shed' = FALSE
    BY <1>4, DecideLetsThrough DEF FailOpen
  <2> QED BY <1>4, <2>1 DEF FailOpen, Decide, NoFailuresSeen
<1>5. ASSUME NEW r \in Requests, RecordAndMirror(r) PROVE NoFailuresSeen'
  BY <1>5, MirrorKeepsSign DEF RecordAndMirror, NoFailuresSeen
<1>6. CASE OtherInstance
  <2>1. Mirror
    BY <1>6 DEF OtherInstance, Mirror
  <2> QED BY <1>6, <2>1, MirrorKeepsSign DEF OtherInstance, NoFailuresSeen
<1>7. CASE CacheAges
  <2>1. cache[1] \in Snapshot
    BY <1>7 DEF CacheAges, Fresh, NoFailuresSeen
  <2>2. [cache[1] EXCEPT !.age = @ + 1] \in Snapshot
    BY <2>1 DEF Snapshot
  <2>3. cache'[1] \in Snapshot
    BY <1>7, <2>2 DEF CacheAges
  <2> QED BY <1>7, <2>3 DEF CacheAges, NoFailuresSeen
<1>8. CASE Standalone \/ UNCHANGED allVars
  BY <1>8 DEF Standalone, allVars, clusterVars, NoFailuresSeen
<1> QED BY <1>1, <1>2, <1>3, <1>4, <1>5, <1>6, <1>7, <1>8 DEF ClusterNext

(* In cluster mode allow() never rejects: the failures every process       *)
(* mirrors are counted downwards and read back as none, and no order of    *)
(* reads, cache writes and expiries lets one be seen.                      *)
THEOREM ClusterModeNeverSheds == ClusterSpec => []ClusterNeverSheds
<1>1. ClusterInit => NoFailuresSeen
  BY DEF ClusterInit, NoFailuresSeen
<1>2. NoFailuresSeen => ClusterNeverSheds
  BY DEF NoFailuresSeen, ClusterNeverSheds
<1> QED BY <1>1, <1>2, ClusterStep, PTL DEF ClusterSpec
============================================================================
