--------------------------- MODULE BreakerProofs ---------------------------
(***************************************************************************)
(* Proofs about the local circuit breaker, for every set of requests and   *)
(* every configuration, half_open_max = 0 included.                        *)
(***************************************************************************)
EXTENDS Breaker, TLAPS

(* The successes counted in HalfOpen were all recorded in this HalfOpen    *)
(* phase: what makes ClosesOnlyAfterQuota inductive.                       *)
HalfOpenSuccessesAreOwn ==
    state = "HalfOpen" => success_count <= half_open_successes

BreakerInv ==
    /\ TypeOK
    /\ OpenHasFailureTime
    /\ HalfOpenBelowQuota
    /\ HalfOpenSuccessesAreOwn

(* What refresh_window leaves is a count no larger than before, and an age *)
(* in range.                                                               *)
LEMMA RefreshedType ==
    ASSUME TypeOK, NEW c \in Nat
    PROVE  /\ Refreshed(c) \in Nat
           /\ Refreshed(c) <= c
           /\ RefreshedAge \in 0..Window
  BY BreakerConfigAssumption DEF TypeOK, Refreshed, RefreshedAge, WindowExpired

(* The initial breaker is Closed with nothing counted. *)
LEMMA BreakerInit == Init => BreakerInv
  BY BreakerConfigAssumption
  DEF Init, BreakerInv, TypeOK, BreakerState, NoFailure, OpenHasFailureTime,
      HalfOpenBelowQuota, HalfOpenSuccessesAreOwn

(* Every operation of the breaker keeps the invariant. *)
LEMMA BreakerStep == BreakerInv /\ [Next]_vars => BreakerInv'
  <1> USE BreakerConfigAssumption
  <1> SUFFICES ASSUME BreakerInv, [Next]_vars PROVE BreakerInv'
    OBVIOUS
  <1> USE DEF BreakerInv
  <1>0. /\ Refreshed(success_count) \in Nat
        /\ Refreshed(success_count) <= success_count
        /\ Refreshed(failure_count) \in Nat
        /\ Refreshed(failure_count) <= failure_count
        /\ RefreshedAge \in 0..Window
        /\ success_count \in Nat
        /\ failure_count \in Nat
    BY RefreshedType DEF TypeOK
  <1>1. ASSUME NEW r \in Requests, AllowClosed(r) PROVE BreakerInv'
    BY <1>0, <1>1 DEF AllowClosed, LetThrough, history, TypeOK, OpenHasFailureTime,
                      HalfOpenBelowQuota, HalfOpenSuccessesAreOwn
  <1>2. ASSUME NEW r \in Requests, AllowOpen(r) PROVE BreakerInv'
    BY <1>0, <1>2 DEF AllowOpen, LetThrough, TypeOK, BreakerState, OpenHasFailureTime,
                      HalfOpenBelowQuota, HalfOpenSuccessesAreOwn
  <1>3. ASSUME NEW r \in Requests, AllowHalfOpen(r) PROVE BreakerInv'
    BY <1>0, <1>3 DEF AllowHalfOpen, LetThrough, TypeOK, OpenHasFailureTime,
                      HalfOpenBelowQuota, HalfOpenSuccessesAreOwn
  <1>4. CASE Reject
    BY <1>0, <1>4 DEF Reject, history, TypeOK, OpenHasFailureTime,
                      HalfOpenBelowQuota, HalfOpenSuccessesAreOwn
  <1>5. ASSUME NEW r \in Requests, record_success(r) PROVE BreakerInv'
    BY <1>0, <1>5 DEF record_success, Reported, QuotaReached, TypeOK, BreakerState,
                      OpenHasFailureTime, HalfOpenBelowQuota, HalfOpenSuccessesAreOwn
  <1>6. ASSUME NEW r \in Requests, record_failure(r) PROVE BreakerInv'
    BY <1>0, <1>6 DEF record_failure, Reported, FailureTimed, NoFailure, TypeOK, BreakerState,
                      OpenHasFailureTime, HalfOpenBelowQuota, HalfOpenSuccessesAreOwn
  <1>7. ASSUME NEW r \in Requests, Abandon(r) PROVE BreakerInv'
    BY <1>7 DEF Abandon, Reported, inner, TypeOK, OpenHasFailureTime,
                HalfOpenBelowQuota, HalfOpenSuccessesAreOwn
  <1>8. CASE Tick
    BY <1>8 DEF Tick, history, WindowExpired, WaitElapsed, NoFailure, TypeOK,
                OpenHasFailureTime, HalfOpenBelowQuota, HalfOpenSuccessesAreOwn
  <1>9. CASE UNCHANGED vars
    BY <1>9 DEF vars, inner, history, TypeOK, OpenHasFailureTime,
                HalfOpenBelowQuota, HalfOpenSuccessesAreOwn
  <1>10. QED
    BY <1>1, <1>2, <1>3, <1>4, <1>5, <1>6, <1>7, <1>8, <1>9 DEF Next, Allow

(* The inductive invariant of the breaker. *)
THEOREM BreakerInvariant == Spec => []BreakerInv
  BY BreakerInit, BreakerStep, PTL DEF Spec

(* The breaker's counters, ages and history keep their types. *)
THEOREM BreakerTypeOK == Spec => []TypeOK
  <1>1. BreakerInv => TypeOK
    BY DEF BreakerInv
  <1>2. QED
    BY <1>1, BreakerInvariant, PTL

(* An Open breaker can always be left: last_failure_time is set. *)
THEOREM OpenAlwaysHasFailureTime == Spec => []OpenHasFailureTime
  <1>1. BreakerInv => OpenHasFailureTime
    BY DEF BreakerInv
  <1>2. QED
    BY <1>1, BreakerInvariant, PTL

(* HalfOpen never counts a failure, nor half_open_max successes: for no    *)
(* positive half_open_max does allow() reject in HalfOpen.                 *)
THEOREM HalfOpenAlwaysBelowQuota == Spec => []HalfOpenBelowQuota
  <1>1. BreakerInv => HalfOpenBelowQuota
    BY DEF BreakerInv
  <1>2. QED
    BY <1>1, BreakerInvariant, PTL

(* HalfOpen goes back to Closed only on half_open_max successes of its own. *)
THEOREM ClosesOnlyOnQuota == Spec => ClosesOnlyAfterQuota
  <1> USE BreakerConfigAssumption
  <1>1. BreakerInv /\ [Next]_vars =>
            [state = "HalfOpen" /\ state' = "Closed" => half_open_successes' = HalfOpenMax]_vars
    <2> SUFFICES ASSUME BreakerInv, Next, state = "HalfOpen", state' = "Closed"
                 PROVE  half_open_successes' = HalfOpenMax
      OBVIOUS
    <2>1. PICK r \in Requests : record_success(r)
      BY DEF Next, Allow, AllowClosed, AllowOpen, AllowHalfOpen, Reject, record_failure,
             Abandon, Tick, inner
    <2>2. /\ Refreshed(success_count) \in Nat
          /\ Refreshed(success_count) <= half_open_successes
          /\ half_open_successes \in 0..HalfOpenMax
      BY RefreshedType DEF BreakerInv, TypeOK, HalfOpenSuccessesAreOwn
    <2>3. QED
      BY <2>1, <2>2 DEF record_success, QuotaReached
  <1>2. QED
    BY <1>1, BreakerInvariant, PTL DEF Spec, ClosesOnlyAfterQuota

(* Before the wait is over an Open breaker neither admits nor changes state. *)
THEOREM OpenAlwaysSheds == Spec => OpenSheds
  <1>1. [Next]_vars =>
            [state = "Open" /\ ~WaitElapsed => state' = "Open" /\ pending' \subseteq pending]_vars
    BY DEF Next, Allow, AllowClosed, AllowOpen, AllowHalfOpen, Reject, record_success,
           record_failure, Abandon, Reported, Tick, inner, history
  <1>2. QED
    BY <1>1, PTL DEF Spec, OpenSheds
============================================================================
