--------------------- MODULE AdaptiveConcurrencyProofs ---------------------
(***************************************************************************)
(* Slot accounting of the adaptive concurrency limiter, for any finite     *)
(* set of tasks and every validated configuration.                         *)
(***************************************************************************)
EXTENDS AdaptiveConcurrency, FiniteSetTheorems, TLAPS

AdaptiveInv ==
    /\ TypeOK
    /\ InflightIsPermits
    /\ InflightBelowMax

(* maybe_adjust computes a limit in range from one in range. *)
LEMMA NewLimitInRange ==
    ASSUME NEW old \in Limits, NEW s \in SampleCounts
    PROVE  NewLimit(old, s) \in Limits
  <1>1. Shrink(old) \in 0..old
    BY AdaptiveConfigAssumption DEF Limits
  <1>2. QED
    BY <1>1, AdaptiveConfigAssumption DEF NewLimit, Limits, Larger, Smaller

(* A task that moves between labels other than "held" leaves the set of    *)
(* permit holders as it is.                                                *)
LEMMA HoldersKept ==
    ASSUME TypeOK, NEW t \in Tasks, NEW from, NEW to, Goto(t, from, to),
           from # "held", to # "held"
    PROVE  Holders' = Holders
  BY DEF TypeOK, Goto, Holders

(* Acquiring adds one holder. *)
LEMMA HoldersAdded ==
    ASSUME TypeOK, NEW t \in Tasks, Goto(t, "cas", "held")
    PROVE  Cardinality(Holders') = Cardinality(Holders) + 1
  <1>1. IsFiniteSet(Holders)
    BY AdaptiveConfigAssumption, FS_Subset DEF Holders
  <1>2. Holders' = Holders \cup {t} /\ t \notin Holders
    BY DEF TypeOK, Goto, Holders
  <1>3. QED
    BY <1>1, <1>2, FS_AddElement

(* Dropping the permit removes one holder. *)
LEMMA HoldersRemoved ==
    ASSUME TypeOK, NEW t \in Tasks, Goto(t, "held", "idle")
    PROVE  Cardinality(Holders') = Cardinality(Holders) - 1 /\ Cardinality(Holders) > 0
  <1>1. IsFiniteSet(Holders)
    BY AdaptiveConfigAssumption, FS_Subset DEF Holders
  <1>2. Holders' = Holders \ {t} /\ t \in Holders
    BY DEF TypeOK, Goto, Holders
  <1>3. Cardinality(Holders) \in Nat /\ Cardinality(Holders) # 0
    BY <1>1, <1>2, FS_CardinalityType, FS_EmptySet
  <1>4. QED
    BY <1>1, <1>2, <1>3, FS_RemoveElement

(* A new limiter has no permit out. *)
LEMMA AdaptiveInit == Init => AdaptiveInv
  <1> SUFFICES ASSUME Init PROVE AdaptiveInv
    OBVIOUS
  <1>1. Holders = {}
    BY DEF Init, Holders
  <1>2. Cardinality(Holders) = 0
    BY <1>1, FS_EmptySet
  <1>3. TypeOK
    BY AdaptiveConfigAssumption DEF Init, TypeOK, Limits, Label, SampleCounts, NoSamples
  <1>4. QED
    BY <1>2, <1>3, AdaptiveConfigAssumption
    DEF Init, AdaptiveInv, InflightIsPermits, InflightBelowMax

(* Every critical section of try_acquire, the permit's drop, record_latency *)
(* and the passing of time keep the invariant.                             *)
LEMMA AdaptiveStep == AdaptiveInv /\ [Next]_vars => AdaptiveInv'
  <1> SUFFICES ASSUME AdaptiveInv, [Next]_vars PROVE AdaptiveInv'
    OBVIOUS
  <1> USE AdaptiveConfigAssumption DEF AdaptiveInv
  <1>1. ASSUME NEW t \in Tasks, CheckWindow(t) PROVE AdaptiveInv'
    <2>1. Holders' = Holders
      BY <1>1, HoldersKept DEF CheckWindow
    <2>2. TypeOK'
      BY <1>1 DEF CheckWindow, Goto, shared, locals, TypeOK, Label
    <2>3. QED
      BY <1>1, <2>1, <2>2 DEF CheckWindow, shared, InflightIsPermits, InflightBelowMax
  <1>2. ASSUME NEW t \in Tasks, TakeSamples(t) PROVE AdaptiveInv'
    <2>1. Holders' = Holders
      BY <1>2, HoldersKept DEF TakeSamples
    <2>2. TypeOK'
      BY <1>2 DEF TakeSamples, Goto, TypeOK, Label, NoSamples, SampleCounts
    <2>3. QED
      BY <1>2, <2>1, <2>2 DEF TakeSamples, InflightIsPermits, InflightBelowMax
  <1>3. ASSUME NEW t \in Tasks, ReadOldLimit(t) PROVE AdaptiveInv'
    <2>1. Holders' = Holders
      BY <1>3, HoldersKept DEF ReadOldLimit
    <2>2. TypeOK'
      BY <1>3 DEF ReadOldLimit, Goto, shared, TypeOK, Label
    <2>3. QED
      BY <1>3, <2>1, <2>2 DEF ReadOldLimit, shared, InflightIsPermits, InflightBelowMax
  <1>4. ASSUME NEW t \in Tasks, WriteNewLimit(t) PROVE AdaptiveInv'
    <2>1. Holders' = Holders
      BY <1>4, HoldersKept DEF WriteNewLimit
    <2>2. NewLimit(old_limit[t], taken[t]) \in Limits
      BY NewLimitInRange DEF TypeOK
    <2>3. TypeOK'
      BY <1>4, <2>2 DEF WriteNewLimit, Goto, TypeOK, Label, NoSamples, SampleCounts, Limits
    <2>4. QED
      BY <1>4, <2>1, <2>3 DEF WriteNewLimit, InflightIsPermits, InflightBelowMax
  <1>5. ASSUME NEW t \in Tasks, ReadLimit(t) PROVE AdaptiveInv'
    <2>1. Holders' = Holders
      BY <1>5, HoldersKept DEF ReadLimit
    <2>2. TypeOK'
      BY <1>5 DEF ReadLimit, Goto, shared, TypeOK, Label
    <2>3. QED
      BY <1>5, <2>1, <2>2 DEF ReadLimit, shared, InflightIsPermits, InflightBelowMax
  <1>6. ASSUME NEW t \in Tasks, Acquire(t) PROVE AdaptiveInv'
    <2>1. Cardinality(Holders') = Cardinality(Holders) + 1
      BY <1>6, HoldersAdded DEF Acquire
    <2>2. TypeOK'
      BY <1>6 DEF Acquire, Goto, TypeOK, Label, Limits
    <2>3. inflight < MaxLimit
      BY <1>6 DEF Acquire, HasSlot, TypeOK, Limits
    <2>4. QED
      BY <1>6, <2>1, <2>2, <2>3 DEF Acquire, TypeOK, InflightIsPermits, InflightBelowMax
  <1>7. ASSUME NEW t \in Tasks, Reject(t) PROVE AdaptiveInv'
    <2>1. Holders' = Holders
      BY <1>7, HoldersKept DEF Reject
    <2>2. TypeOK'
      BY <1>7 DEF Reject, Goto, shared, TypeOK, Label, Limits
    <2>3. QED
      BY <1>7, <2>1, <2>2 DEF Reject, shared, InflightIsPermits, InflightBelowMax
  <1>8. ASSUME NEW t \in Tasks, Release(t) PROVE AdaptiveInv'
    <2>1. Cardinality(Holders') = Cardinality(Holders) - 1 /\ Cardinality(Holders) > 0
      BY <1>8, HoldersRemoved DEF Release
    <2>2. TypeOK'
      BY <1>8, <2>1 DEF Release, Goto, locals, TypeOK, Label, InflightIsPermits
    <2>3. QED
      BY <1>8, <2>1, <2>2 DEF Release, TypeOK, InflightIsPermits, InflightBelowMax
  <1>9. ASSUME NEW success \in BOOLEAN, NEW slow \in BOOLEAN, record_latency(success, slow)
        PROVE AdaptiveInv'
    BY <1>9 DEF record_latency, locals, TypeOK, SampleCounts, Holders,
                InflightIsPermits, InflightBelowMax
  <1>10. CASE Tick
    BY <1>10 DEF Tick, locals, TypeOK, Holders, InflightIsPermits, InflightBelowMax
  <1>11. CASE UNCHANGED vars
    BY <1>11 DEF vars, shared, locals, TypeOK, Holders, InflightIsPermits, InflightBelowMax
  <1>12. QED
    BY <1>1, <1>2, <1>3, <1>4, <1>5, <1>6, <1>7, <1>8, <1>9, <1>10, <1>11 DEF Next, TryAcquire

(* The three together, the inductive invariant of the limiter. *)
THEOREM AdaptiveInvariant == Spec => []AdaptiveInv
  BY AdaptiveInit, AdaptiveStep, PTL DEF Spec

(* `inflight` is always the number of permits held, so the permit's drop   *)
(* never underflows.                                                       *)
THEOREM InflightAlwaysPermits == Spec => []InflightIsPermits
  <1>1. AdaptiveInv => InflightIsPermits
    BY DEF AdaptiveInv
  <1>2. QED
    BY <1>1, AdaptiveInvariant, PTL

(* No more than max_limit permits are ever held. *)
THEOREM InflightAlwaysBelowMax == Spec => []InflightBelowMax
  <1>1. AdaptiveInv => InflightBelowMax
    BY DEF AdaptiveInv
  <1>2. QED
    BY <1>1, AdaptiveInvariant, PTL

(* The limit in force, and every copy a task holds of it, stays within     *)
(* [min_limit, max_limit].                                                 *)
THEOREM AdaptiveTypeOK == Spec => []TypeOK
  <1>1. AdaptiveInv => TypeOK
    BY DEF AdaptiveInv
  <1>2. QED
    BY <1>1, AdaptiveInvariant, PTL
============================================================================
