---------------------------- MODULE RetryBudget ----------------------------
(***************************************************************************)
(* RetryBudgetImpl (conrogate-traffic/src/retry_budget.rs): request        *)
(* threads share two atomic counters, total_requests and retry_requests,   *)
(* and a window start behind a mutex.  Each load, store, fetch_add and     *)
(* compare_exchange is an action of its own; the window reset is two       *)
(* stores, which the mutex protects from other resets but not from the     *)
(* counters' other users.                                                  *)
(***************************************************************************)
EXTENDS Integers, FiniteSets

CONSTANTS
    Threads,
    BudgetNum, BudgetDen,   \* budget_ratio = BudgetNum / BudgetDen
    MinRequests,            \* min_requests, the cold-start protection
    Window,                 \* window, in ticks
    MaxTotal,               \* bound: no operation starts at this many requests per window
    Nobody                  \* the mutex is free

ASSUME BudgetAssumption ==
    /\ IsFiniteSet(Threads)
    /\ BudgetNum \in Nat \ {0}      \* Config::validate: budget_ratio > 0
    /\ BudgetDen \in Nat \ {0}
    /\ MinRequests \in Nat
    /\ Window \in Nat
    /\ MaxTotal \in Nat
    /\ Nobody \notin Threads

VARIABLES
    total_requests,
    retry_requests,
    window_age,     \* time since window_start, saturated at Window
    window_lock,    \* holder of the window_start mutex
    pc,
    op,             \* the operation a thread is in: try_consume or record_request
    total,          \* locals of try_consume
    retries,
    fresh           \* history: no reset has touched total_requests since the thread loaded it

counters == <<total_requests, retry_requests>>
locals == <<total, retries, fresh>>
vars == <<counters, window_age, window_lock, pc, op, locals>>

Label == {"idle", "reset_retries", "load_total", "load_retries", "decide",
          "cold_retry", "cas", "add_total"}
Op == {"try_consume", "record_request"}

TypeOK ==
    /\ total_requests \in Nat
    /\ retry_requests \in Nat
    /\ window_age \in 0..Window
    /\ window_lock \in Threads \cup {Nobody}
    /\ pc \in [Threads -> Label]
    /\ op \in [Threads -> Op]
    /\ total \in [Threads -> Nat]
    /\ retries \in [Threads -> Nat]
    /\ fresh \in [Threads -> BOOLEAN]

Init ==
    /\ total_requests = 0
    /\ retry_requests = 0
    /\ window_age = 0
    /\ window_lock = Nobody
    /\ pc = [t \in Threads |-> "idle"]
    /\ op = [t \in Threads |-> "record_request"]
    /\ total = [t \in Threads |-> 0]
    /\ retries = [t \in Threads |-> 0]
    /\ fresh = [t \in Threads |-> FALSE]

Goto(t, from, to) == pc[t] = from /\ pc' = [pc EXCEPT ![t] = to]

(* Where an operation continues after maybe_refresh_window. *)
Body(o) == IF o = "try_consume" THEN "load_total" ELSE "add_total"

----------------------------------------------------------------------------
(* maybe_refresh_window, called first by both operations. *)
Begin(t, o) ==
    /\ window_lock = Nobody
    /\ op' = [op EXCEPT ![t] = o]
    /\ \/ /\ window_age < Window
          /\ total_requests < MaxTotal
          /\ Goto(t, "idle", Body(o))
          /\ UNCHANGED <<total_requests, window_lock, fresh>>
       \/ /\ window_age >= Window
          /\ Goto(t, "idle", "reset_retries")
          /\ window_lock' = t
          /\ total_requests' = 0
          /\ fresh' = [u \in Threads |-> FALSE]
    /\ UNCHANGED <<retry_requests, window_age, total, retries>>

ResetRetries(t) ==
    /\ Goto(t, "reset_retries", Body(op[t]))
    /\ retry_requests' = 0
    /\ window_age' = 0
    /\ window_lock' = Nobody
    /\ UNCHANGED <<total_requests, op, locals>>

----------------------------------------------------------------------------
(* The loop of try_consume. *)
LoadTotal(t) ==
    /\ Goto(t, "load_total", "load_retries")
    /\ total' = [total EXCEPT ![t] = total_requests]
    /\ fresh' = [fresh EXCEPT ![t] = TRUE]
    /\ UNCHANGED <<counters, window_age, window_lock, op, retries>>

LoadRetries(t) ==
    /\ Goto(t, "load_retries", "decide")
    /\ retries' = [retries EXCEPT ![t] = retry_requests]
    /\ UNCHANGED <<counters, window_age, window_lock, op, total, fresh>>

(* ratio >= budget_ratio.  With min_requests = 0 the total may be 0: 0/0   *)
(* is NaN, which compares false, and n/0 is infinite.                      *)
Exhausted(n, of) == IF of = 0 THEN n > 0 ELSE n * BudgetDen >= BudgetNum * of

Forget(t) ==
    /\ total' = [total EXCEPT ![t] = 0]
    /\ retries' = [retries EXCEPT ![t] = 0]
    /\ fresh' = [fresh EXCEPT ![t] = FALSE]

DecideCold(t) ==
    /\ total[t] < MinRequests
    /\ Goto(t, "decide", "cold_retry")
    /\ Forget(t)

DecideExhausted(t) ==
    /\ total[t] >= MinRequests
    /\ Exhausted(retries[t], total[t])
    /\ Goto(t, "decide", "idle")
    /\ Forget(t)

DecideWithin(t) ==
    /\ total[t] >= MinRequests
    /\ ~Exhausted(retries[t], total[t])
    /\ Goto(t, "decide", "cas")
    /\ UNCHANGED locals

Decide(t) ==
    /\ DecideCold(t) \/ DecideExhausted(t) \/ DecideWithin(t)
    /\ UNCHANGED <<counters, window_age, window_lock, op>>

ColdRetry(t) ==
    /\ Goto(t, "cold_retry", "add_total")
    /\ retry_requests' = retry_requests + 1
    /\ UNCHANGED <<total_requests, window_age, window_lock, op, locals>>

(* Mutant: fetch_add instead of compare_exchange. *)
BlindIncrement(t) ==
    /\ Goto(t, "cas", "add_total")
    /\ retry_requests' = retry_requests + 1
    /\ Forget(t)
    /\ UNCHANGED <<total_requests, window_age, window_lock, op>>

CompareExchange(t) ==
    /\ \/ /\ retry_requests = retries[t]
          /\ Goto(t, "cas", "add_total")
          /\ retry_requests' = retry_requests + 1
       \/ /\ retry_requests # retries[t]
          /\ Goto(t, "cas", "load_total")
          /\ UNCHANGED retry_requests
    /\ Forget(t)
    /\ UNCHANGED <<total_requests, window_age, window_lock, op>>

(* The increment of total_requests that ends both operations.  Mutant: it  *)
(* is left out for a retry.                                                *)
AddTotalUnlessRetry(t) ==
    /\ Goto(t, "add_total", "idle")
    /\ total_requests' = IF op[t] = "try_consume" THEN total_requests ELSE total_requests + 1
    /\ UNCHANGED <<retry_requests, window_age, window_lock, op, locals>>

AddTotal(t) ==
    /\ Goto(t, "add_total", "idle")
    /\ total_requests' = total_requests + 1
    /\ UNCHANGED <<retry_requests, window_age, window_lock, op, locals>>

Tick ==
    /\ window_age < Window
    /\ window_age' = window_age + 1
    /\ UNCHANGED <<counters, window_lock, pc, op, locals>>

Next ==
    \/ \E t \in Threads :
        \/ \E o \in Op : Begin(t, o)
        \/ ResetRetries(t)
        \/ LoadTotal(t) \/ LoadRetries(t) \/ Decide(t)
        \/ ColdRetry(t) \/ CompareExchange(t) \/ AddTotal(t)
    \/ Tick

Spec == Init /\ [][Next]_vars

----------------------------------------------------------------------------
(* Threads that have counted a retry but not yet the request it belongs to. *)
Owing == {t \in Threads : pc[t] = "add_total" /\ op[t] = "try_consume"}

(* Every counted retry is, or is about to be, counted as a request too: up *)
(* to the increments still owed the ratio never exceeds 1, through window  *)
(* resets in the middle of other threads' operations.  Between the two     *)
(* stores of a reset it may.                                               *)
RetriesAreRequests ==
    window_lock = Nobody => retry_requests <= total_requests + Cardinality(Owing)

(* The compare_exchange grants a retry only while the budget holds for the *)
(* counters as they are at that moment, not just for the values the thread *)
(* had loaded, unless the window was reset in between.  This is what the   *)
(* comment on the loop promises.                                           *)
GrantsWithinBudget ==
    [][\A t \in Threads :
         pc[t] = "cas" /\ pc'[t] = "add_total" /\ fresh[t]
            => ~Exhausted(retry_requests, total_requests)]_vars

(* How far the retries may run ahead of the budget: the cold start lets    *)
(* through retries as long as fewer than min_requests requests were seen,  *)
(* and each thread may be one grant ahead of what the others have seen.    *)
Slack ==
    Cardinality(Threads) + (IF MinRequests = 0 THEN 0 ELSE MinRequests - 1)

(* The overshoot is bounded by the slack whatever the interleaving, window *)
(* resets included.                                                        *)
BoundedOvershoot ==
    window_lock = Nobody =>
        retry_requests * BudgetDen <= BudgetNum * total_requests + BudgetDen * Slack
============================================================================
