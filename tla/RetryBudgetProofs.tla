------------------------- MODULE RetryBudgetProofs -------------------------
(***************************************************************************)
(* Proofs about the retry budget's two counters, for any finite set of     *)
(* threads, every positive ratio and every window.                         *)
(***************************************************************************)
EXTENDS RetryBudget, FiniteSetTheorems, TLAPS

ConsumeLabel == {"load_total", "load_retries", "decide", "cold_retry", "cas"}

(* The window mutex is held exactly between the two stores of a reset. *)
LockHeldInReset == \A t \in Threads : window_lock = t <=> pc[t] = "reset_retries"

(* The loop's labels belong to try_consume. *)
LoopIsConsume == \A t \in Threads : pc[t] \in ConsumeLabel => op[t] = "try_consume"

(* Without a reset since its load, a thread's total is not above the       *)
(* counter.                                                                *)
FreshIsLower == \A t \in Threads : fresh[t] => total[t] <= total_requests

(* A thread exchanges only on loaded values within the budget. *)
CasWithinBudget == \A t \in Threads : pc[t] = "cas" => ~Exhausted(retries[t], total[t])

BudgetInv ==
    /\ TypeOK
    /\ LockHeldInReset
    /\ LoopIsConsume
    /\ FreshIsLower
    /\ CasWithinBudget
    /\ RetriesAreRequests

(* A larger total can only make the ratio smaller. *)
LEMMA ExhaustedAntitone ==
    ASSUME NEW n \in Nat, NEW a \in Nat, NEW b \in Nat, a <= b, ~Exhausted(n, a)
    PROVE  ~Exhausted(n, b)
  <1> USE BudgetAssumption
  <1>1. CASE a = 0
    <2>1. n = 0
      BY <1>1 DEF Exhausted
    <2>2. CASE b = 0
      BY <2>1, <2>2 DEF Exhausted
    <2>3. CASE b # 0
      <3>1. BudgetNum * b > 0
        BY <2>3
      <3>2. QED
        BY <2>1, <2>3, <3>1 DEF Exhausted
    <2>4. QED
      BY <2>2, <2>3
  <1>2. CASE a # 0
    <2>1. n * BudgetDen < BudgetNum * a
      BY <1>2 DEF Exhausted
    <2>2. BudgetNum * a <= BudgetNum * b
      OBVIOUS
    <2>3. QED
      BY <1>2, <2>1, <2>2 DEF Exhausted
  <1>3. QED
    BY <1>1, <1>2

(* The window starts with both counters at zero. *)
LEMMA BudgetInit == Init => BudgetInv
  <1> SUFFICES ASSUME Init PROVE BudgetInv
    OBVIOUS
  <1>1. Owing = {}
    BY DEF Init, Owing
  <1>2. Cardinality(Owing) = 0
    BY <1>1, FS_EmptySet
  <1>3. QED
    BY <1>2, BudgetAssumption
    DEF Init, BudgetInv, TypeOK, Label, Op, ConsumeLabel, LockHeldInReset, LoopIsConsume,
        FreshIsLower, CasWithinBudget, RetriesAreRequests

(* Types, the mutex and the loop's local facts are kept by every action. *)
LEMMA LocalStep ==
    ASSUME BudgetInv, [Next]_vars
    PROVE  TypeOK' /\ LockHeldInReset' /\ LoopIsConsume' /\ FreshIsLower' /\ CasWithinBudget'
  <1> USE BudgetAssumption DEF BudgetInv, TypeOK, Label, Op, ConsumeLabel, Goto, Body,
          LockHeldInReset, LoopIsConsume, FreshIsLower
  <1>1. ASSUME NEW t \in Threads, NEW o \in Op, Begin(t, o)
        PROVE  TypeOK' /\ LockHeldInReset' /\ LoopIsConsume' /\ FreshIsLower' /\ CasWithinBudget'
    <2>1. CASE window_age < Window
      <3>1. TypeOK'
        BY <1>1, <2>1 DEF Begin
      <3>2. LockHeldInReset' /\ LoopIsConsume'
        BY <1>1, <2>1 DEF Begin
      <3>3. FreshIsLower' /\ CasWithinBudget'
        BY <1>1, <2>1 DEF Begin, CasWithinBudget
      <3>4. QED
        BY <3>1, <3>2, <3>3
    <2>2. CASE ~(window_age < Window)
      <3>1. TypeOK'
        <4>1. fresh' = [u \in Threads |-> FALSE]
          BY <1>1, <2>2 DEF Begin
        <4>2. fresh' \in [Threads -> BOOLEAN]
          BY <4>1, Zenon
        <4>3. pc' \in [Threads -> Label] /\ op' \in [Threads -> Op]
          BY <1>1, <2>2 DEF Begin
        <4>4. window_lock' \in Threads \cup {Nobody} /\ total_requests' = 0
          BY <1>1, <2>2 DEF Begin
        <4>5. UNCHANGED <<retry_requests, window_age, total, retries>>
          BY <1>1 DEF Begin
        <4>6. QED
          BY <4>2, <4>3, <4>4, <4>5
      <3>2. LockHeldInReset' /\ LoopIsConsume'
        <4>1. window_lock = Nobody /\ window_lock' = t
          BY <1>1, <2>2 DEF Begin
        <4>2. pc' = [pc EXCEPT ![t] = "reset_retries"] /\ op' = [op EXCEPT ![t] = o]
          BY <1>1, <2>2 DEF Begin
        <4>3. LockHeldInReset'
          BY <4>1, <4>2
        <4>4. LoopIsConsume'
          BY <4>2
        <4>5. QED
          BY <4>3, <4>4
      <3>3. FreshIsLower' /\ CasWithinBudget'
        BY <1>1, <2>2 DEF Begin, CasWithinBudget
      <3>4. QED
        BY <3>1, <3>2, <3>3
    <2>3. QED
      BY <2>1, <2>2
  <1>2. ASSUME NEW t \in Threads, ResetRetries(t)
        PROVE  TypeOK' /\ LockHeldInReset' /\ LoopIsConsume' /\ FreshIsLower' /\ CasWithinBudget'
    BY <1>2 DEF ResetRetries, locals, CasWithinBudget
  <1>3. ASSUME NEW t \in Threads, LoadTotal(t)
        PROVE  TypeOK' /\ LockHeldInReset' /\ LoopIsConsume' /\ FreshIsLower' /\ CasWithinBudget'
    BY <1>3 DEF LoadTotal, counters, CasWithinBudget
  <1>4. ASSUME NEW t \in Threads, LoadRetries(t)
        PROVE  TypeOK' /\ LockHeldInReset' /\ LoopIsConsume' /\ FreshIsLower' /\ CasWithinBudget'
    BY <1>4 DEF LoadRetries, counters, CasWithinBudget
  <1>5. ASSUME NEW t \in Threads, Decide(t)
        PROVE  TypeOK' /\ LockHeldInReset' /\ LoopIsConsume' /\ FreshIsLower' /\ CasWithinBudget'
    <2>1. CASE DecideCold(t)
      BY <1>5, <2>1 DEF Decide, DecideCold, Forget, counters, CasWithinBudget
    <2>2. CASE DecideExhausted(t)
      BY <1>5, <2>2 DEF Decide, DecideExhausted, Forget, counters, CasWithinBudget
    <2>3. CASE DecideWithin(t)
      BY <1>5, <2>3 DEF Decide, DecideWithin, locals, counters, CasWithinBudget
    <2>4. QED
      BY <1>5, <2>1, <2>2, <2>3 DEF Decide
  <1>6. ASSUME NEW t \in Threads, ColdRetry(t)
        PROVE  TypeOK' /\ LockHeldInReset' /\ LoopIsConsume' /\ FreshIsLower' /\ CasWithinBudget'
    BY <1>6 DEF ColdRetry, locals, CasWithinBudget
  <1>7. ASSUME NEW t \in Threads, CompareExchange(t)
        PROVE  TypeOK' /\ LockHeldInReset' /\ LoopIsConsume' /\ FreshIsLower' /\ CasWithinBudget'
    BY <1>7 DEF CompareExchange, Forget, CasWithinBudget
  <1>8. ASSUME NEW t \in Threads, AddTotal(t)
        PROVE  TypeOK' /\ LockHeldInReset' /\ LoopIsConsume' /\ FreshIsLower' /\ CasWithinBudget'
    BY <1>8 DEF AddTotal, locals, CasWithinBudget
  <1>9. CASE Tick
    BY <1>9 DEF Tick, counters, locals, CasWithinBudget
  <1>10. CASE UNCHANGED vars
    BY <1>10 DEF vars, counters, locals, CasWithinBudget
  <1>11. QED
    BY <1>1, <1>2, <1>3, <1>4, <1>5, <1>6, <1>7, <1>8, <1>9, <1>10 DEF Next

(* A thread that counts a retry starts owing a request; the thread that    *)
(* counts the request stops.                                               *)
LEMMA OwingAdded ==
    ASSUME BudgetInv, NEW t \in Threads, NEW from \in {"cold_retry", "cas"},
           Goto(t, from, "add_total"), UNCHANGED op
    PROVE  Cardinality(Owing') = Cardinality(Owing) + 1 /\ Cardinality(Owing) \in Nat
  <1>1. IsFiniteSet(Owing)
    BY BudgetAssumption, FS_Subset DEF Owing
  <1>2. Owing' = Owing \cup {t} /\ t \notin Owing
    BY DEF BudgetInv, TypeOK, LoopIsConsume, ConsumeLabel, Goto, Owing
  <1>3. QED
    BY <1>1, <1>2, FS_AddElement, FS_CardinalityType

(* The thread that counts the request stops owing it. *)
LEMMA OwingRemoved ==
    ASSUME BudgetInv, NEW t \in Threads, Goto(t, "add_total", "idle"), UNCHANGED op
    PROVE  Cardinality(Owing') >= Cardinality(Owing) - 1 /\ Cardinality(Owing) \in Nat
           /\ Cardinality(Owing') \in Nat
  <1>1. IsFiniteSet(Owing)
    BY BudgetAssumption, FS_Subset DEF Owing
  <1>2. CASE op[t] = "try_consume"
    <2>1. Owing' = Owing \ {t} /\ t \in Owing
      BY <1>2 DEF BudgetInv, TypeOK, Goto, Owing
    <2>2. IsFiniteSet(Owing \ {t}) /\ Cardinality(Owing \ {t}) = Cardinality(Owing) - 1
      BY <1>1, <2>1, FS_RemoveElement
    <2>3. Cardinality(Owing) \in Nat /\ Cardinality(Owing \ {t}) \in Nat
      BY <1>1, <2>2, FS_CardinalityType
    <2>4. QED
      BY <2>1, <2>2, <2>3
  <1>3. CASE op[t] # "try_consume"
    <2>1. Owing' = Owing
      BY <1>3 DEF BudgetInv, TypeOK, Goto, Owing
    <2>2. QED
      BY <1>1, <2>1, FS_CardinalityType
  <1>4. QED
    BY <1>2, <1>3

(* Any other step that keeps the counters leaves the debts as they are. *)
LEMMA OwingKept ==
    ASSUME BudgetInv, NEW t \in Threads, NEW from, NEW to, Goto(t, from, to), UNCHANGED op,
           from # "add_total", to # "add_total"
    PROVE  Owing' = Owing
  BY DEF BudgetInv, TypeOK, Goto, Owing

(* Every step keeps the retries below the requests and the debts. *)
LEMMA RetriesStep ==
    ASSUME BudgetInv, [Next]_vars
    PROVE  RetriesAreRequests'
  <1> USE BudgetAssumption
  <1>0. Cardinality(Owing) \in Nat /\ Cardinality(Owing') \in Nat
    <2>1. Owing \in SUBSET Threads /\ Owing' \in SUBSET Threads
      BY DEF Owing
    <2>2. QED
      BY <2>1, FS_Subset, FS_CardinalityType
  <1>1. ASSUME NEW t \in Threads, NEW o \in Op, Begin(t, o) PROVE RetriesAreRequests'
    <2>1. CASE window_age < Window
      <3>1. Owing' = Owing
        BY <1>1, <2>1 DEF Begin, Goto, Body, BudgetInv, TypeOK, Op, Owing
      <3>2. QED
        BY <1>1, <2>1, <3>1 DEF Begin, BudgetInv, TypeOK, RetriesAreRequests
    <2>2. CASE ~(window_age < Window)
      BY <1>1, <2>2 DEF Begin, RetriesAreRequests
    <2>3. QED
      BY <2>1, <2>2
  <1>2. ASSUME NEW t \in Threads, ResetRetries(t) PROVE RetriesAreRequests'
    BY <1>0, <1>2 DEF ResetRetries, BudgetInv, TypeOK, RetriesAreRequests
  <1>3. ASSUME NEW t \in Threads, LoadTotal(t) \/ LoadRetries(t) \/ Decide(t)
        PROVE  RetriesAreRequests'
    <2>1. Owing' = Owing
      BY <1>3, OwingKept DEF LoadTotal, LoadRetries, Decide, DecideCold, DecideExhausted, DecideWithin
    <2>2. QED
      BY <1>3, <2>1 DEF LoadTotal, LoadRetries, Decide, counters, BudgetInv, RetriesAreRequests
  <1>4. ASSUME NEW t \in Threads, ColdRetry(t) PROVE RetriesAreRequests'
    <2>1. Cardinality(Owing') = Cardinality(Owing) + 1
      BY <1>4, OwingAdded DEF ColdRetry
    <2>2. QED
      BY <1>0, <1>4, <2>1 DEF ColdRetry, BudgetInv, TypeOK, RetriesAreRequests
  <1>5. ASSUME NEW t \in Threads, CompareExchange(t) PROVE RetriesAreRequests'
    <2>1. CASE retry_requests = retries[t]
      <3>1. Cardinality(Owing') = Cardinality(Owing) + 1
        BY <1>5, <2>1, OwingAdded DEF CompareExchange
      <3>2. QED
        BY <1>0, <1>5, <2>1, <3>1 DEF CompareExchange, BudgetInv, TypeOK, RetriesAreRequests
    <2>2. CASE retry_requests # retries[t]
      <3>1. Owing' = Owing
        BY <1>5, <2>2, OwingKept DEF CompareExchange
      <3>2. QED
        BY <1>5, <2>2, <3>1 DEF CompareExchange, BudgetInv, RetriesAreRequests
    <2>3. QED
      BY <2>1, <2>2
  <1>6. ASSUME NEW t \in Threads, AddTotal(t) PROVE RetriesAreRequests'
    <2>1. Cardinality(Owing') >= Cardinality(Owing) - 1
      BY <1>6, OwingRemoved DEF AddTotal
    <2>2. QED
      BY <1>0, <1>6, <2>1 DEF AddTotal, BudgetInv, TypeOK, RetriesAreRequests
  <1>7. CASE Tick \/ UNCHANGED vars
    <2>1. Owing' = Owing
      BY <1>7 DEF Tick, vars, Owing
    <2>2. QED
      BY <1>7, <2>1 DEF Tick, vars, counters, BudgetInv, RetriesAreRequests
  <1>8. QED
    BY <1>1, <1>2, <1>3, <1>4, <1>5, <1>6, <1>7 DEF Next

(* The inductive invariant of the retry budget. *)
THEOREM BudgetInvariant == Spec => []BudgetInv
  <1>1. BudgetInv /\ [Next]_vars => BudgetInv'
    BY LocalStep, RetriesStep DEF BudgetInv
  <1>2. QED
    BY BudgetInit, <1>1, PTL DEF Spec

(* Type correctness; in particular neither counter underflows. *)
THEOREM BudgetTypeOK == Spec => []TypeOK
  <1>1. BudgetInv => TypeOK
    BY DEF BudgetInv
  <1>2. QED
    BY <1>1, BudgetInvariant, PTL

(* Counted retries never exceed counted requests, up to increments owed. *)
THEOREM RetriesAlwaysRequests == Spec => []RetriesAreRequests
  <1>1. BudgetInv => RetriesAreRequests
    BY DEF BudgetInv
  <1>2. QED
    BY <1>1, BudgetInvariant, PTL

(* A compare_exchange that succeeds respects the budget on the current     *)
(* counters, unless the window was reset under it.                         *)
THEOREM GrantsAlwaysWithinBudget == Spec => GrantsWithinBudget
  <1>1. BudgetInv /\ [Next]_vars =>
            [\A t \in Threads :
               pc[t] = "cas" /\ pc'[t] = "add_total" /\ fresh[t]
                  => ~Exhausted(retry_requests, total_requests)]_vars
    <2> SUFFICES ASSUME BudgetInv, Next, NEW t \in Threads,
                        pc[t] = "cas", pc'[t] = "add_total", fresh[t]
                 PROVE  ~Exhausted(retry_requests, total_requests)
      OBVIOUS
    <2>1. CompareExchange(t)
      BY DEF Next, Begin, ResetRetries, LoadTotal, LoadRetries, Decide, DecideCold,
             DecideExhausted, DecideWithin, ColdRetry, CompareExchange, AddTotal, Tick, Goto,
             BudgetInv, TypeOK
    <2>2. retry_requests = retries[t]
      BY <2>1 DEF CompareExchange, Goto, BudgetInv, TypeOK
    <2>3. total[t] <= total_requests /\ ~Exhausted(retries[t], total[t])
      BY DEF BudgetInv, FreshIsLower, CasWithinBudget
    <2>4. retries[t] \in Nat /\ total[t] \in Nat /\ total_requests \in Nat
      BY DEF BudgetInv, TypeOK
    <2>5. QED
      BY <2>2, <2>3, <2>4, ExhaustedAntitone
  <1>2. QED
    BY <1>1, BudgetInvariant, PTL DEF Spec, GrantsWithinBudget
============================================================================
