------------------------ MODULE AdaptiveConcurrency ------------------------
(***************************************************************************)
(* AdaptiveConcurrencyImpl (conrogate-traffic/src/adaptive.rs): an AIMD    *)
(* concurrency limit shared by the connection tasks of a gateway.          *)
(*                                                                         *)
(* The window start, the samples and the limit sit behind three mutexes    *)
(* and `inflight` is an atomic, so try_acquire is a sequence of small      *)
(* critical sections: one action each, with the local variables a task     *)
(* carries from one to the next.  The compare_exchange loop is one action: *)
(* a failed exchange changes nothing and is retried, a successful one saw  *)
(* the value it replaced, and a rejection is the load that saw it.         *)
(* A local that goes out of scope returns to its initial value.            *)
(* total_accepted and total_rejected are written for metrics only and are  *)
(* left out.                                                               *)
(***************************************************************************)
EXTENDS Integers, FiniteSets

CONSTANTS
    Tasks,          \* connection tasks
    InitialLimit, MinLimit, MaxLimit, IncreaseStep,
    Shrink(_),      \* (old_limit as f64 * decrease_ratio) as usize
    Window,         \* statistics window, in ticks
    MaxSamples      \* bound: latency samples per window

(* Config::validate: min <= initial <= max and decrease_ratio in (0, 1].   *)
ASSUME AdaptiveConfigAssumption ==
    /\ IsFiniteSet(Tasks)
    /\ MinLimit \in Nat /\ InitialLimit \in Nat /\ MaxLimit \in Nat
    /\ MinLimit <= InitialLimit /\ InitialLimit <= MaxLimit
    /\ IncreaseStep \in Nat
    /\ \A n \in MinLimit..MaxLimit : Shrink(n) \in 0..n
    /\ Window \in Nat
    /\ MaxSamples \in Nat

VARIABLES
    current_limit,
    inflight,
    samples,        \* window_samples, as how many there are, failed and slow
    window_age,     \* time since window_start, saturated at Window
    pc,             \* where each task is in try_acquire
    taken,          \* task's `samples` in maybe_adjust
    old_limit,      \* task's `old_limit` in maybe_adjust
    limit           \* task's `limit` in try_acquire

shared == <<current_limit, inflight, samples, window_age>>
locals == <<taken, old_limit, limit>>
vars == <<shared, pc, locals>>

NoSamples == [total |-> 0, failures |-> 0, slow |-> 0]
SampleCounts == [total : Nat, failures : Nat, slow : Nat]
Limits == MinLimit..MaxLimit
Label == {"idle", "take_samples", "read_old", "write_new", "read_limit", "cas", "held"}
Holders == {t \in Tasks : pc[t] = "held"}

TypeOK ==
    /\ current_limit \in Limits
    /\ inflight \in Nat
    /\ samples \in SampleCounts
    /\ window_age \in 0..Window
    /\ pc \in [Tasks -> Label]
    /\ taken \in [Tasks -> SampleCounts]
    /\ old_limit \in [Tasks -> Limits]
    /\ limit \in [Tasks -> Limits]

(* new(): the validated initial limit is its own clamp. *)
Init ==
    /\ current_limit = InitialLimit
    /\ inflight = 0
    /\ samples = NoSamples
    /\ window_age = 0
    /\ pc = [t \in Tasks |-> "idle"]
    /\ taken = [t \in Tasks |-> NoSamples]
    /\ old_limit = [t \in Tasks |-> InitialLimit]
    /\ limit = [t \in Tasks |-> InitialLimit]

Goto(t, from, to) == pc[t] = from /\ pc' = [pc EXCEPT ![t] = to]

----------------------------------------------------------------------------
(* maybe_adjust.  p99 is latencies[floor(0.99 * total)] of the sorted      *)
(* samples, so it is slow when at least ceil(total / 100) samples are.     *)
P99Slow(s) == s.slow >= (s.total + 99) \div 100

Larger(a, b) == IF a >= b THEN a ELSE b
Smaller(a, b) == IF a <= b THEN a ELSE b

NewLimit(old, s) ==
    IF P99Slow(s) \/ s.failures > 0
    THEN Larger(Shrink(old), MinLimit)
    ELSE Smaller(old + IncreaseStep, MaxLimit)

CheckWindow(t) ==
    \/ /\ window_age < Window
       /\ Goto(t, "idle", "read_limit")
       /\ UNCHANGED <<shared, locals>>
    \/ /\ window_age >= Window
       /\ Goto(t, "idle", "take_samples")
       /\ window_age' = 0
       /\ UNCHANGED <<current_limit, inflight, samples, locals>>

TakeSamples(t) ==
    /\ Goto(t, "take_samples", IF samples.total = 0 THEN "read_limit" ELSE "read_old")
    /\ taken' = [taken EXCEPT ![t] = samples]
    /\ samples' = NoSamples
    /\ UNCHANGED <<current_limit, inflight, window_age, old_limit, limit>>

ReadOldLimit(t) ==
    /\ Goto(t, "read_old", "write_new")
    /\ old_limit' = [old_limit EXCEPT ![t] = current_limit]
    /\ UNCHANGED <<shared, taken, limit>>

WriteNewLimit(t) ==
    /\ Goto(t, "write_new", "read_limit")
    /\ LET new_limit == NewLimit(old_limit[t], taken[t])
       IN  current_limit' = IF new_limit # old_limit[t] THEN new_limit ELSE current_limit
    /\ taken' = [taken EXCEPT ![t] = NoSamples]
    /\ old_limit' = [old_limit EXCEPT ![t] = InitialLimit]
    /\ UNCHANGED <<inflight, samples, window_age, limit>>

----------------------------------------------------------------------------
(* try_acquire after maybe_adjust, and the permit's drop. *)
ReadLimit(t) ==
    /\ Goto(t, "read_limit", "cas")
    /\ limit' = [limit EXCEPT ![t] = current_limit]
    /\ UNCHANGED <<shared, taken, old_limit>>

HasSlot(t) == inflight < limit[t]

Acquire(t) ==
    /\ Goto(t, "cas", "held")
    /\ HasSlot(t)
    /\ inflight' = inflight + 1
    /\ limit' = [limit EXCEPT ![t] = InitialLimit]
    /\ UNCHANGED <<current_limit, samples, window_age, taken, old_limit>>

Reject(t) ==
    /\ Goto(t, "cas", "idle")
    /\ ~HasSlot(t)
    /\ limit' = [limit EXCEPT ![t] = InitialLimit]
    /\ UNCHANGED <<shared, taken, old_limit>>

(* Mutant: the permit is forgotten and never given back. *)
ReleaseForgotten(t) ==
    /\ Goto(t, "held", "idle")
    /\ UNCHANGED <<shared, locals>>

Release(t) ==
    /\ Goto(t, "held", "idle")
    /\ inflight' = inflight - 1
    /\ UNCHANGED <<current_limit, samples, window_age, locals>>

record_latency(success, slow) ==
    /\ samples.total < MaxSamples
    /\ samples' = [total |-> samples.total + 1,
                   failures |-> samples.failures + (IF success THEN 0 ELSE 1),
                   slow |-> samples.slow + (IF slow THEN 1 ELSE 0)]
    /\ UNCHANGED <<current_limit, inflight, window_age, pc, locals>>

Tick ==
    /\ window_age < Window
    /\ window_age' = window_age + 1
    /\ UNCHANGED <<current_limit, inflight, samples, pc, locals>>

TryAcquire(t) ==
    \/ CheckWindow(t) \/ TakeSamples(t) \/ ReadOldLimit(t) \/ WriteNewLimit(t)
    \/ ReadLimit(t) \/ Acquire(t) \/ Reject(t)

Next ==
    \/ \E t \in Tasks : TryAcquire(t) \/ Release(t)
    \/ \E success, slow \in BOOLEAN : record_latency(success, slow)
    \/ Tick

Spec == Init /\ [][Next]_vars

(* A started try_acquire runs on (it has no await), and every connection   *)
(* ends: the idle timeout wraps the whole of it in run_with_shutdown.      *)
TaskFairness(t) ==
    /\ WF_vars(pc[t] # "idle" /\ TryAcquire(t))
    /\ WF_vars(Release(t))

FairSpec == Spec /\ \A t \in Tasks : TaskFairness(t)

----------------------------------------------------------------------------
(* `inflight` counts exactly the permits that are held: no path through    *)
(* try_acquire leaks or doubles a slot, and the debug_assert in the        *)
(* permit's drop (prev > 0) never fires.                                   *)
InflightIsPermits == inflight = Cardinality(Holders)

(* However stale the limit a task compares with, and whatever adjustments  *)
(* race, no more than max_limit permits are held.                          *)
InflightBelowMax == inflight <= MaxLimit

(* Once the limit settles the excess drains: a task that compared with an  *)
(* older, larger limit may push inflight above the current one, but not    *)
(* for ever.                                                               *)
ExcessDrains ==
    \A c \in Limits : <>[](current_limit = c) => <>[](inflight <= c)
============================================================================
