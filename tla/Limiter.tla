------------------------------ MODULE Limiter ------------------------------
(***************************************************************************)
(* The rate limiters of conrogate-traffic/src/limiter.rs: fixed window,    *)
(* sliding window, in-process token bucket, and the token bucket kept in   *)
(* Redis by a Lua script.  Each acquire() is atomic: a mutex, or a script. *)
(*                                                                         *)
(* `table` is the state table of the limiter in use.  Instants are ages,   *)
(* saturated at the window, in which every bucket refills.  Tokens are     *)
(* counted in units of 1/Window, so that the refill of one tick (limit     *)
(* units) is exact.                                                        *)
(***************************************************************************)
EXTENDS Naturals, FiniteSets, Sequences, FiniteSetsExt, SequencesExt, Functions

CONSTANTS
    Keys,
    Algorithms,     \* limiters to choose from, a subset of AllAlgorithms
    Limits,         \* limits a key may be called with
    Window,         \* the window of check_rate_limit, 1 s, in ticks
    RejectTtl,      \* the 1000 ms of PEXPIRE after a rejection, in ticks
    MaxEntries      \* MAX_ENTRIES

AllAlgorithms == {"fixed_window", "sliding_window", "token_bucket", "redis"}

(* check_rate_limit never asks with a limit of 0. *)
ASSUME LimiterAssumption ==
    /\ Algorithms \subseteq AllAlgorithms
    /\ Limits \subseteq Nat \ {0}
    /\ Window \in Nat \ {0} /\ RejectTtl \in Nat \ {0} /\ MaxEntries \in Nat

VARIABLES
    algorithm,
    limit,          \* limit of each key
    table,          \* windows / buckets / Redis keys: the entries of the keys present
    recent,         \* history: how many were admitted so many ticks ago
    refused         \* history: the key the last step refused, if it did

vars == <<algorithm, limit, table, recent, refused>>

Ages == 0..Window
Entry(a, k) ==
    CASE a = "fixed_window" -> [count : 0..limit[k], age : Ages]
      [] a = "sliding_window" -> BoundedSeq(Ages, limit[k])
      [] a = "token_bucket" -> [tokens : 0..limit[k] * Window, age : Ages]
      [] a = "redis" -> [tokens : 0..limit[k] * Window, age : Ages,
                         ttl : 1..Max({Window, RejectTtl})]

TypeOK ==
    /\ algorithm \in Algorithms
    /\ limit \in [Keys -> Limits]
    /\ DOMAIN table \subseteq Keys
    /\ \A k \in DOMAIN table : table[k] \in Entry(algorithm, k)
    /\ recent \in [Keys -> [0..Window - 1 -> Nat]]
    /\ refused \in SUBSET Keys

Init ==
    /\ algorithm \in Algorithms
    /\ limit \in [Keys -> Limits]
    /\ table = [k \in {} |-> 0]
    /\ recent = [k \in Keys |-> [a \in 0..Window - 1 |-> 0]]
    /\ refused = {}

----------------------------------------------------------------------------
With(t, k, e) == [i \in DOMAIN t \cup {k} |-> IF i = k THEN e ELSE t[i]]

Ok(k, t) ==
    /\ table' = t
    /\ recent' = [recent EXCEPT ![k][0] = @ + 1]
    /\ refused' = {}
    /\ UNCHANGED <<algorithm, limit>>

RateLimited(k, t) ==
    /\ table' = t
    /\ refused' = {k}
    /\ UNCHANGED <<algorithm, limit, recent>>

HasRoom(n, k) == n < limit[k]

WithinInclusive(age) == age <= Window
Within(age) == age < Window

(* When the table is full, entries that have expired are dropped. *)
Expired(e) ==
    IF algorithm = "fixed_window" THEN ~Within(e.age) ELSE e = <<>> \/ ~Within(Last(e))
Full == Cardinality(DOMAIN table) >= MaxEntries
PurgedAll == IF Full THEN [k \in {} |-> 0] ELSE table
Purged == IF Full THEN Restrict(table, {k \in DOMAIN table : ~Expired(table[k])}) ELSE table

FixedWindow(k) ==
    LET t == Purged
        e == IF k \in DOMAIN t /\ ~Expired(t[k]) THEN t[k] ELSE [count |-> 0, age |-> 0]
    IN  /\ algorithm = "fixed_window"
        /\ \/ HasRoom(e.count, k) /\ Ok(k, With(t, k, [e EXCEPT !.count = @ + 1]))
           \/ ~HasRoom(e.count, k) /\ RateLimited(k, t)

SlidingWindow(k) ==
    LET t == Purged
        stamps == IF k \in DOMAIN t THEN SelectSeq(t[k], Within) ELSE <<>>
    IN  /\ algorithm = "sliding_window"
        /\ \/ HasRoom(Len(stamps), k) /\ Ok(k, With(t, k, Append(stamps, 0)))
           \/ ~HasRoom(Len(stamps), k) /\ RateLimited(k, With(t, k, stamps))

----------------------------------------------------------------------------
Token == Window
Capacity(k) == limit[k] * Window
Refilled(k) == Min({table[k].tokens + table[k].age * limit[k], Capacity(k)})

(* A bucket that has refilled is removed, and the request admitted. *)
TokenBucket(k) ==
    LET tokens == Refilled(k)
        Left(n) == With(table, k, [tokens |-> n, age |-> 0])
    IN  /\ algorithm = "token_bucket"
        /\ \/ k \notin DOMAIN table /\ Ok(k, Left(Capacity(k) - Token))
           \/ /\ k \in DOMAIN table
              /\ \/ tokens >= Capacity(k) /\ Ok(k, Restrict(table, DOMAIN table \ {k}))
                 \/ tokens < Token /\ RateLimited(k, Left(tokens))
                 \/ /\ tokens \in Token..Capacity(k) - 1
                    /\ Ok(k, Left(tokens - Token))

(* The script.  A success keeps the key until the bucket has refilled. *)
Ttl(k, tokens) == (Capacity(k) - tokens + limit[k] - 1) \div limit[k]

Redis(k) ==
    LET tokens == IF k \in DOMAIN table THEN Refilled(k) ELSE Capacity(k)
        Left(n, ttl) == With(table, k, [tokens |-> n, age |-> 0, ttl |-> ttl])
    IN  /\ algorithm = "redis"
        /\ \/ tokens < Token /\ RateLimited(k, Left(tokens, RejectTtl))
           \/ tokens >= Token /\ Ok(k, Left(tokens - Token, Ttl(k, tokens - Token)))

(* Redis cannot be reached: the request passes uncounted. *)
FailOpen(k) ==
    /\ algorithm = "redis"
    /\ refused' = {}
    /\ UNCHANGED <<algorithm, limit, table, recent>>

----------------------------------------------------------------------------
Older(age) == Min({age + 1, Window})
Aged(e) ==
    CASE algorithm = "sliding_window" -> [i \in DOMAIN e |-> Older(e[i])]
      [] algorithm = "redis" -> [e EXCEPT !.age = Older(@), !.ttl = @ - 1]
      [] OTHER -> [e EXCEPT !.age = Older(@)]

Tick ==
    /\ table' = [k \in {i \in DOMAIN table : algorithm = "redis" => table[i].ttl > 1} |-> Aged(table[k])]
    /\ recent' = [k \in Keys |-> [a \in 0..Window - 1 |-> IF a = 0 THEN 0 ELSE recent[k][a - 1]]]
    /\ refused' = {}
    /\ UNCHANGED <<algorithm, limit>>

acquire(k) == FixedWindow(k) \/ SlidingWindow(k) \/ TokenBucket(k) \/ Redis(k)

Next ==
    \/ \E k \in Keys : acquire(k) \/ FailOpen(k)
    \/ Tick

Spec == Init /\ [][Next]_vars

----------------------------------------------------------------------------
Admitted(k) == FoldFunction(+, 0, recent[k])

Bound(k) ==
    CASE algorithm = "sliding_window" -> limit[k]
      [] algorithm = "fixed_window" -> 2 * limit[k]
      [] algorithm = "redis" -> (Capacity(k) + (Window - 1) * limit[k]) \div Token
      [] algorithm = "token_bucket" -> 3 * limit[k]

(* What each limiter lets through in any window: the sliding window its    *)
(* limit, the fixed window twice that, across a boundary; a bucket its     *)
(* capacity and what flows in since the window's first tick.  The          *)
(* in-process bucket is removed when it is found full and the request that *)
(* finds it so takes no token: it stays below three times the limit.       *)
RateBounded == \A k \in Keys : Admitted(k) <= Bound(k)

(* No limiter refuses a key that has used less than its limit in the last  *)
(* window, whatever is purged, expires or is asked for other keys.         *)
RefusedOnlyAtLimit == \A k \in refused : Admitted(k) >= limit[k]
============================================================================
