------------------------------ MODULE Governor ------------------------------
(***************************************************************************)
(* Traffic control over the limiters (conrogate-gateway/src/filter.rs,     *)
(* check_rate_limit): a request asks for the global key, the route's key   *)
(* and the key of the client on the route, one await each, and stops at    *)
(* the first refusal; what it was given until then is not returned.  A     *)
(* tunnel asks twice, the second time for its listener                     *)
(* (conrogate-protocol/src/tcp.rs, handle).                                *)
(***************************************************************************)
EXTENDS Limiter

CONSTANTS
    Callers,        \* requests and tunnels on their way at the same time
    Calls,          \* the keys a request or a tunnel asks for, in order
    Level,          \* the level of a key
    LimitedLevels   \* sets of levels that may have a limit, the others a QPS of 0

Levels == {"global", "route", "ip"}
Wider == {<<"global", "route">>, <<"route", "ip">>, <<"global", "ip">>}

ASSUME GovernorAssumption ==
    /\ IsFiniteSet(Callers)
    /\ \A s \in Calls : Range(s) \subseteq Keys
    /\ Level \in [Keys -> Levels]
    /\ LimitedLevels \subseteq SUBSET Levels

VARIABLES
    limited,        \* the levels with a limit
    left,           \* the keys each caller has yet to ask for
    away            \* history: Redis was away when somebody asked

governor == <<vars, limited, left, away>>

(* The levels without a limit are not asked. *)
Limited(s) == SelectSeq(s, LAMBDA k : Level[k] \in limited)

GovernorTypeOK ==
    /\ TypeOK
    /\ limited \in LimitedLevels
    /\ \A c \in Callers : \E s \in Calls : IsSuffix(left[c], Limited(s))
    /\ away \in BOOLEAN

(* One limit per level; with the switch off no level has one.  What `limit` *)
(* says of a level without one does not matter.                            *)
GovernorInit ==
    /\ Init
    /\ \A j, k \in Keys : Level[j] = Level[k] => limit[j] = limit[k]
    /\ limited \in LimitedLevels
    /\ \A k \in Keys : Level[k] \notin limited => limit[k] = Min(Limits)
    /\ left = [c \in Callers |-> <<>>]
    /\ away = FALSE

----------------------------------------------------------------------------
(* The `?` after each acquire.  Mutant: the answer is not looked at. *)
NextKeysAlways(keys) == Tail(keys)
NextKeys(keys) == IF refused' = {} THEN Tail(keys) ELSE <<>>

(* One await: the first key of a new call, or the next one. *)
check_rate_limit(c, s) ==
    LET keys == IF left[c] = <<>> THEN Limited(s) ELSE left[c]
    IN  /\ keys # <<>>
        /\ \/ acquire(Head(keys)) /\ UNCHANGED away
           \/ FailOpen(Head(keys)) /\ away' = TRUE
        /\ left' = [left EXCEPT ![c] = NextKeys(keys)]
        /\ UNCHANGED limited

(* The request is dropped while it waits. *)
Dropped(c) ==
    /\ left[c] # <<>>
    /\ left' = [left EXCEPT ![c] = <<>>]
    /\ UNCHANGED <<vars, limited, away>>

GovernorNext ==
    \/ \E c \in Callers : Dropped(c) \/ \E s \in Calls : check_rate_limit(c, s)
    \/ Tick /\ UNCHANGED <<limited, left, away>>

GovernorSpec == GovernorInit /\ [][GovernorNext]_governor

----------------------------------------------------------------------------
AdmittedAt(level) == MapThenSumSet(Admitted, {k \in Keys : Level[k] = level})

(* Whatever the order in which callers ask, are refused or are dropped: in *)
(* any window a narrower level admits no more than the wider ones, but for *)
(* the callers on their way when the window began.  With RateBounded, what *)
(* passes all routes and clients together is bounded by the global limit,  *)
(* whatever the limits of the others.                                      *)
WiderLevelsBind ==
    /\ GovernorTypeOK
    /\ ~away => \A w, n \in limited : <<w, n>> \in Wider =>
                 AdmittedAt(n) <= AdmittedAt(w) + Cardinality(Callers)
============================================================================
