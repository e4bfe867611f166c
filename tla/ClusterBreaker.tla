--------------------------- MODULE ClusterBreaker ---------------------------
(***************************************************************************)
(* The breaker with and without a Redis URL.  Without one it is Breaker.   *)
(* With one ("cluster mode") allow() decides on two counters in Redis that *)
(* every gateway process mirrors its outcomes to, read at most once per    *)
(* refresh interval and cached.  The local state machine is still fed but  *)
(* nothing reads it, so it rests in that mode.                             *)
(***************************************************************************)
EXTENDS Breaker

CONSTANT RefreshInterval    \* CLUSTER_REFRESH_INTERVAL, in ticks

ASSUME ClusterAssumption == RefreshInterval \in Nat \ {0} /\ ThresholdNum > 0

VARIABLES
    cluster,    \* config.redis_url.is_some()
    succ, fail, \* the keys cb:<key>:succ and cb:<key>:fail: <<>> or one number
    cache,      \* cluster_cache: <<>> or one snapshot
    reading,    \* what each request in flight has read and not yet cached
    shed        \* history: the last decision was to reject

clusterVars == <<cluster, succ, fail, cache, reading, shed>>
allVars == <<vars, clusterVars>>

Absent == <<>>
NotReading == <<>>

ClusterInit ==
    /\ Init
    /\ cluster \in BOOLEAN
    /\ succ = Absent /\ fail = Absent
    /\ cache = <<>>
    /\ reading = [r \in Requests |-> NotReading]
    /\ shed = FALSE

----------------------------------------------------------------------------
(* The decision of allow() in cluster mode. *)
cluster_rate_exceeded(success, failure) ==
    /\ success + failure > 0    \* 0 / 0 is NaN, which exceeds nothing
    /\ RateExceeded(success, failure)

Decide(r, success, failure) ==
    /\ shed' = cluster_rate_exceeded(success, failure)
    /\ IF shed' THEN UNCHANGED pending ELSE LetThrough(r)
    /\ UNCHANGED <<inner, history, cluster, succ, fail>>

Arrives(r) == cluster /\ r \notin pending /\ reading[r] = NotReading
Fresh == cache # <<>> /\ cache[1].age < RefreshInterval

AllowCached(r) ==
    /\ Arrives(r) /\ Fresh
    /\ Decide(r, cache[1].success, cache[1].failure)
    /\ UNCHANGED <<cache, reading>>

(* MGET.  A counter below zero reads as zero. *)
Clamped(n) == IF n < 0 THEN 0 ELSE n
ReadCounts(r) ==
    /\ Arrives(r) /\ ~Fresh
    /\ succ # Absent /\ fail # Absent
    /\ reading' = [reading EXCEPT ![r] = <<Clamped(succ[1]), Clamped(fail[1])>>]
    /\ UNCHANGED <<vars, cluster, succ, fail, cache, shed>>

CacheCounts(r) ==
    /\ reading[r] # NotReading
    /\ cache' = <<[success |-> reading[r][1], failure |-> reading[r][2], age |-> 0]>>
    /\ reading' = [reading EXCEPT ![r] = NotReading]
    /\ Decide(r, reading[r][1], reading[r][2])

(* Redis does not answer, or a key is missing, which is no number: the     *)
(* counts are taken as zero and not cached.                                *)
FailOpen(r) ==
    /\ Arrives(r) /\ ~Fresh
    /\ Decide(r, 0, 0)
    /\ UNCHANGED <<cache, reading>>

----------------------------------------------------------------------------
(* mirror_to_redis.  INCRBY by 1 for a success and by -1 for a failure;    *)
(* the script compares the new value, a number, with its argument, a       *)
(* string, so no expiry is ever set.  Mutant: failures count upwards.      *)
IncrBy(key, n) == IF key = Absent THEN <<n>> ELSE <<key[1] + n>>
SuccessDir == 1
FailureDirUp == 1
FailureDir == -1

MirrorSuccess == succ' = IncrBy(succ, SuccessDir) /\ UNCHANGED fail
MirrorFailure == fail' = IncrBy(fail, FailureDir) /\ UNCHANGED succ

(* Either is best effort: a mirror that fails is lost. *)
Mirror == MirrorSuccess \/ MirrorFailure \/ UNCHANGED <<succ, fail>>
InRange(key) == key # Absent => key[1] \in -MaxCount..MaxCount

RecordAndMirror(r) ==
    /\ cluster /\ Reported(r) /\ Mirror
    /\ InRange(succ') /\ InRange(fail')
    /\ UNCHANGED <<inner, history, cluster, cache, reading, shed>>

(* Another gateway process mirrors an outcome of its own. *)
OtherInstance ==
    /\ cluster /\ (MirrorSuccess \/ MirrorFailure)
    /\ InRange(succ') /\ InRange(fail')
    /\ UNCHANGED <<vars, cluster, cache, reading, shed>>

CacheAges ==
    /\ cluster /\ Fresh
    /\ cache' = <<[cache[1] EXCEPT !.age = @ + 1]>>
    /\ UNCHANGED <<vars, cluster, succ, fail, reading, shed>>

ClusterNext ==
    \/ \E r \in Requests : AllowCached(r) \/ ReadCounts(r) \/ CacheCounts(r) \/ FailOpen(r) \/ RecordAndMirror(r)
    \/ OtherInstance
    \/ CacheAges

Standalone == ~cluster /\ Next /\ UNCHANGED clusterVars

ClusterSpec == ClusterInit /\ [][Standalone \/ ClusterNext]_allVars

(* The fairness of Breaker, for the standalone mode. *)
ClusterFairSpec ==
    /\ ClusterSpec
    /\ WF_allVars(~cluster /\ Tick /\ UNCHANGED clusterVars)
    /\ WF_allVars(~cluster /\ (\E r \in Requests : Allow(r)) /\ UNCHANGED clusterVars)
    /\ \A r \in Requests : WF_allVars(~cluster /\ Complete(r) /\ UNCHANGED clusterVars)

----------------------------------------------------------------------------
(* In cluster mode no request is ever rejected, whatever outcomes the      *)
(* processes mirror and in whatever order counters are read, cached and    *)
(* expire: failures are counted below zero and read back as zero.          *)
ClusterNeverSheds == cluster => ~shed
=============================================================================
