------------------------------ MODULE Breaker ------------------------------
(***************************************************************************)
(* The local ("standalone") circuit breaker of one (route, upstream node)  *)
(* pair: BreakerImpl in conrogate-traffic/src/breaker.rs, driven by the    *)
(* requests of one gateway process.  Every operation runs under the mutex  *)
(* `inner`, so each is one atomic action; what interleaves is the time     *)
(* between a request's allow() and the outcome it reports, if it reports   *)
(* one at all.                                                             *)
(*                                                                         *)
(* Instants are kept as ages (time since the instant), saturated at the    *)
(* only value the code compares them with, so time itself is unbounded.    *)
(***************************************************************************)
EXTENDS Integers

CONSTANTS
    Requests,       \* requests that may be in flight at the same time
    Window,         \* BreakerConfig.window, in ticks
    Wait,           \* BreakerConfig.wait, in ticks
    MinRequests,    \* BreakerConfig.min_requests
    HalfOpenMax,    \* BreakerConfig.half_open_max (0 is not rejected by Config::validate)
    ThresholdNum,   \* failure_rate_threshold = ThresholdNum / ThresholdDen
    ThresholdDen,
    MaxCount        \* bound: outcomes counted within one window

ASSUME BreakerConfigAssumption ==
    /\ Window \in Nat
    /\ Wait \in Nat
    /\ MinRequests \in Nat
    /\ HalfOpenMax \in Nat
    /\ ThresholdNum \in Nat
    /\ ThresholdDen \in Nat \ {0}
    /\ MaxCount \in Nat

VARIABLES
    state,              \* BreakerState
    success_count,
    failure_count,
    window_age,         \* window_start.elapsed(), saturated at Window
    failure_age,        \* last_failure_time.elapsed(), saturated at Wait, or NoFailure
    pending,            \* requests let through whose outcome is still to come
    half_open_successes \* history: successes recorded since HalfOpen was entered,
                        \* saturated at HalfOpenMax

inner == <<state, success_count, failure_count, window_age, failure_age>>
history == <<half_open_successes>>
vars == <<inner, pending, history>>

NoFailure == -1
BreakerState == {"Closed", "Open", "HalfOpen"}

TypeOK ==
    /\ state \in BreakerState
    /\ success_count \in Nat
    /\ failure_count \in Nat
    /\ window_age \in 0..Window
    /\ failure_age \in {NoFailure} \cup 0..Wait
    /\ pending \in SUBSET Requests
    /\ half_open_successes \in 0..HalfOpenMax

Init ==
    /\ state = "Closed"
    /\ success_count = 0
    /\ failure_count = 0
    /\ window_age = 0
    /\ failure_age = NoFailure
    /\ pending = {}
    /\ half_open_successes = 0

----------------------------------------------------------------------------
(* refresh_window: the counts an operation starts from, and the window's   *)
(* age after it.                                                           *)
WindowExpired == window_age >= Window
Refreshed(count) == IF WindowExpired THEN 0 ELSE count
RefreshedAge == IF WindowExpired THEN 0 ELSE window_age

(* The failure-rate test of record_failure on the counts it has just       *)
(* updated.                                                                *)
RateExceeded(success, failure) ==
    /\ success + failure >= MinRequests
    /\ failure * ThresholdDen >= ThresholdNum * (success + failure)

WaitElapsed == failure_age # NoFailure /\ failure_age >= Wait

----------------------------------------------------------------------------
(* allow(), one action per arm of its match.                               *)
LetThrough(r) == pending' = pending \cup {r}

AllowClosed(r) ==
    /\ state = "Closed"
    /\ success_count' = Refreshed(success_count)
    /\ failure_count' = Refreshed(failure_count)
    /\ window_age' = RefreshedAge
    /\ LetThrough(r)
    /\ UNCHANGED <<state, failure_age, history>>

AllowOpen(r) ==
    /\ state = "Open"
    /\ WaitElapsed
    /\ state' = "HalfOpen"
    /\ success_count' = 0
    /\ failure_count' = 0
    /\ window_age' = RefreshedAge
    /\ LetThrough(r)
    /\ half_open_successes' = 0
    /\ UNCHANGED failure_age

AllowHalfOpen(r) ==
    /\ state = "HalfOpen"
    /\ Refreshed(success_count) + Refreshed(failure_count) < HalfOpenMax
    /\ success_count' = Refreshed(success_count)
    /\ failure_count' = Refreshed(failure_count)
    /\ window_age' = RefreshedAge
    /\ LetThrough(r)
    /\ UNCHANGED <<state, failure_age, half_open_successes>>

(* Mutant: a rejection counts as a failure for the wait. *)
RejectExtendsWait ==
    /\ state = "Open" /\ ~WaitElapsed
    /\ success_count' = Refreshed(success_count)
    /\ failure_count' = Refreshed(failure_count)
    /\ window_age' = RefreshedAge
    /\ failure_age' = 0
    /\ UNCHANGED <<state, pending, history>>

Reject ==
    /\ state # "Closed"
    /\ state = "Open" => ~WaitElapsed
    /\ state = "HalfOpen" => Refreshed(success_count) + Refreshed(failure_count) >= HalfOpenMax
    /\ success_count' = Refreshed(success_count)
    /\ failure_count' = Refreshed(failure_count)
    /\ window_age' = RefreshedAge
    /\ UNCHANGED <<state, failure_age, pending, history>>

Allow(r) ==
    /\ r \notin pending
    /\ AllowClosed(r) \/ AllowOpen(r) \/ AllowHalfOpen(r) \/ Reject

----------------------------------------------------------------------------
Reported(r) ==
    /\ r \in pending
    /\ pending' = pending \ {r}

(* The quota of record_success's HalfOpen arm, and its off-by-one mutant. *)
QuotaReachedEarly(success) == success + 1 >= HalfOpenMax
QuotaReached(success) == success >= HalfOpenMax

record_success(r) ==
    /\ Reported(r)
    /\ Refreshed(success_count) < MaxCount
    /\ window_age' = RefreshedAge
    /\ LET success == Refreshed(success_count) + 1
           closes == state = "HalfOpen" /\ QuotaReached(success)
       IN  /\ state' = IF closes THEN "Closed" ELSE state
           /\ success_count' = IF closes THEN 0 ELSE success
           /\ failure_count' = IF closes THEN 0 ELSE Refreshed(failure_count)
    /\ half_open_successes' = IF state = "HalfOpen" /\ half_open_successes < HalfOpenMax
                              THEN half_open_successes + 1 ELSE half_open_successes
    /\ UNCHANGED failure_age

(* The failure time record_failure leaves behind. *)
FailureTimed == 0

record_failure(r) ==
    /\ Reported(r)
    /\ Refreshed(failure_count) < MaxCount
    /\ window_age' = RefreshedAge
    /\ failure_age' = FailureTimed
    /\ success_count' = Refreshed(success_count)
    /\ failure_count' = Refreshed(failure_count) + 1
    /\ LET opens == \/ state = "Closed" /\ RateExceeded(success_count', failure_count')
                    \/ state = "HalfOpen"
       IN  /\ state' = IF opens THEN "Open" ELSE state
    /\ UNCHANGED half_open_successes

(* The request ends without reporting: its handler is dropped when the     *)
(* client goes away, or the connection is handed to a WebSocket tunnel.    *)
Abandon(r) ==
    /\ Reported(r)
    /\ UNCHANGED <<inner, half_open_successes>>

Tick ==
    /\ window_age' = IF WindowExpired THEN window_age ELSE window_age + 1
    /\ failure_age' = IF failure_age = NoFailure \/ WaitElapsed
                      THEN failure_age ELSE failure_age + 1
    /\ UNCHANGED <<state, success_count, failure_count, pending, history>>

Complete(r) == record_success(r) \/ record_failure(r) \/ Abandon(r)

Next ==
    \/ \E r \in Requests : Allow(r)
    \/ \E r \in Requests : record_success(r)
    \/ \E r \in Requests : record_failure(r)
    \/ \E r \in Requests : Abandon(r)
    \/ Tick

Spec == Init /\ [][Next]_vars

(***************************************************************************)
(* Time passes; forwarding has a timeout, so every request that was let    *)
(* through ends; and traffic keeps arriving, since nothing but a call of   *)
(* allow() ever moves the breaker out of Open.                             *)
(***************************************************************************)
FairSpec ==
    /\ Spec
    /\ WF_vars(Tick)
    /\ WF_vars(\E r \in Requests : Allow(r))
    /\ \A r \in Requests : WF_vars(Complete(r))

----------------------------------------------------------------------------
(* An Open breaker has the time of a failure on record.  allow() leaves    *)
(* Open only through `if let Some(last_failure)`: without one the breaker  *)
(* would reject for ever.                                                  *)
OpenHasFailureTime == state = "Open" => failure_age # NoFailure

(* In HalfOpen no failure is counted and fewer than half_open_max          *)
(* successes are, whatever late outcomes of requests let through before    *)
(* the trip arrive and whenever the window expires.  So, unless            *)
(* half_open_max is 0, the rejecting branch of allow()'s HalfOpen arm is   *)
(* never taken.                                                            *)
HalfOpenBelowQuota ==
    state = "HalfOpen" =>
        /\ failure_count = 0
        /\ success_count < HalfOpenMax \/ success_count = 0

(* The breaker closes only when half_open_max successes were recorded in   *)
(* this HalfOpen phase, with no failure among them: neither a window reset *)
(* nor counts left over from before the trip shorten the trial.            *)
ClosesOnlyAfterQuota ==
    [][state = "HalfOpen" /\ state' = "Closed" => half_open_successes' = HalfOpenMax]_vars

(* Until `wait` has passed since the last recorded failure, an Open        *)
(* breaker lets no request through and stays Open.                         *)
OpenSheds ==
    [][state = "Open" /\ ~WaitElapsed => state' = "Open" /\ pending' \subseteq pending]_vars

(* The upstream is probed again: however many late failures extend the     *)
(* wait (record_failure moves last_failure_time in Open too), an Open      *)
(* breaker becomes HalfOpen.                                               *)
OpenIsProbedAgain == state = "Open" ~> state = "HalfOpen"
============================================================================
