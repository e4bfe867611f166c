----------------------------- MODULE Telemetry -----------------------------
(***************************************************************************)
(* The telemetry of a gate: conrogate-gateway/src/telemetry.rs, the event  *)
(* consumer of server.rs and the two repositories they write to.  A        *)
(* request reports through a bounded channel; one task per channel reads   *)
(* it and writes batches to the database, doing one thing at a time.  The  *)
(* two tasks share nothing, so a behaviour has one of the two `stream`s.   *)
(*                                                                         *)
(* Time is counted in buckets.  A bucket keeps how many samples fell into  *)
(* each bin of its histogram; the sums of a row (latency, status classes,  *)
(* bytes) go the way of its total.                                         *)
(***************************************************************************)
EXTENDS Naturals, FiniteSets, Sequences, SequencesExt, FiniteSetsExt, Functions

CONSTANTS
    Routes, NoRoute,    \* what a sample is about; NoRoute is None
    Latencies,          \* in ms
    BIN_COUNT,
    Traces, NoTrace,    \* trace_id of an event; NoTrace is None
    Capacity,           \* of a channel (100_000)
    BatchSize,          \* telemetry.batch_size
    RingSize,           \* the 10 of recently_failed
    MaxAttempts,        \* max_attempts of flush_rows
    MaxTime, MaxReports, MaxRestarts    \* bounds of the model

ASSUME TelemetryAssumption ==
    /\ NoRoute \notin Routes /\ NoTrace \notin Traces
    /\ Latencies \subseteq Nat /\ BIN_COUNT \in Nat \ {0}
    /\ {Capacity, BatchSize, RingSize, MaxAttempts} \subseteq Nat \ {0}

VARIABLES
    stream, now, reports, restarts,
    channel,    \* metric_tx / event_tx
    buckets,    \* histogram of each (route_id, bucket_ts)
    todo,       \* the batches the flush in progress has still to write
    attempt,    \* failed attempts at the first of them
    failed,     \* recently_failed
    batch,      \* the events collected
    db,         \* the rows of metric_aggregates, or of gateway_events
    received,   \* history: how often each latency was taken from the channel, per key
    flushes,    \* history: the rows a flush made of each key
    lost        \* history: keys and events whose data was dropped

vars == <<stream, now, reports, restarts, channel, buckets, todo, attempt, failed, batch, db,
          received, flushes, lost>>

Keys == [route : Routes \cup {NoRoute}, ts : 0..MaxTime]
Samples == [route : Routes \cup {NoRoute}, ts : 0..MaxTime, latency : Latencies]
Events == [trace : Traces \cup {NoTrace}, ts : 0..MaxTime]
KeyOf(s) == [route |-> s.route, ts |-> s.ts]

----------------------------------------------------------------------------
(* The histogram: bin k holds latencies from 2^k (0 for the first) up to   *)
(* below 2^(k+1), the last one everything above.                           *)
Bins == 0..BIN_COUNT - 1
EmptyHistogram == [k \in Bins |-> 0]
bin_index(latency) == Max({k \in Bins : k = 0 \/ 2^k <= latency})
total(h) == FoldFunction(+, 0, h)

(* The upper bound of the first bin at which p per cent are reached.       *)
(* Mutant: the threshold is rounded down.                                  *)
CeilDiv(a, b) == (a + b - 1) \div b
PercentileFloor(h, p) ==
    IF total(h) = 0 THEN 0
    ELSE 2^(1 + Min({k \in Bins : FoldFunctionOnSet(+, 0, h, 0..k) >= (total(h) * p) \div 100}))
percentile(h, p) ==
    IF total(h) = 0 THEN 0
    ELSE 2^(1 + Min({k \in Bins : FoldFunctionOnSet(+, 0, h, 0..k) >= CeilDiv(total(h) * p, 100)}))

to_metric_row(k, h) ==
    [key |-> k, total |-> total(h), p50 |-> percentile(h, 50), p90 |-> percentile(h, 90)]

----------------------------------------------------------------------------
Histograms == [Bins -> 0..MaxReports]
IsBatch(b) == \A row \in b : row.key \in Keys /\ row.total \in 1..MaxReports

TypeOK ==
    /\ stream \in {"metrics", "events"}
    /\ now \in 0..MaxTime /\ reports \in 0..MaxReports /\ restarts \in 0..MaxRestarts
    /\ channel \in Seq(IF stream = "metrics" THEN Samples ELSE Events) /\ Len(channel) <= Capacity
    /\ buckets \in [Keys -> Histograms]
    /\ Len(todo) <= RingSize + 1 /\ \A i \in DOMAIN todo : IsBatch(todo[i])
    /\ attempt \in 0..MaxAttempts - 1
    /\ Len(failed) <= RingSize /\ \A i \in DOMAIN failed : IsBatch(failed[i])
    /\ batch \in Seq(Events) /\ Len(batch) < BatchSize

Init ==
    /\ stream \in {"metrics", "events"}
    /\ now = 0 /\ reports = 0 /\ restarts = 0
    /\ channel = <<>>
    /\ buckets = [k \in Keys |-> EmptyHistogram]
    /\ todo = <<>> /\ attempt = 0 /\ failed = <<>>
    /\ batch = <<>>
    /\ db = {}
    /\ received = [k \in Keys |-> [l \in Latencies |-> 0]]
    /\ flushes = [k \in Keys |-> <<>>]
    /\ lost = {}

----------------------------------------------------------------------------
(* try_send: a report that finds the channel full is dropped. *)
TrySend(x) ==
    /\ reports < MaxReports
    /\ reports' = reports + 1
    /\ channel' = IF Len(channel) < Capacity THEN Append(channel, x) ELSE channel
    /\ UNCHANGED <<stream, now, restarts, buckets, todo, attempt, failed, batch, db, received, flushes, lost>>

record_metric(route, latency) ==
    stream = "metrics" /\ TrySend([route |-> route, ts |-> now, latency |-> latency])

record_event(trace) == stream = "events" /\ TrySend([trace |-> trace, ts |-> now])

----------------------------------------------------------------------------
(* The loop of MetricAggregator::run: a sample or a tick, whichever the    *)
(* select takes; it takes neither while it flushes.                        *)
Idle == stream = "metrics" /\ todo = <<>>

Add(h, latency) == [h EXCEPT ![bin_index(latency)] = @ + 1]

Receive ==
    /\ Idle /\ channel # <<>>
    /\ LET s == Head(channel) IN
       /\ buckets' = [buckets EXCEPT ![KeyOf(s)] = Add(@, s.latency)]
       /\ received' = [received EXCEPT ![KeyOf(s)][s.latency] = @ + 1]
    /\ channel' = Tail(channel)
    /\ UNCHANGED <<stream, now, reports, restarts, todo, attempt, failed, batch, db, flushes, lost>>

(* A tick closes the buckets of the past. *)
Due(k) == k.ts < now /\ total(buckets[k]) > 0

(* The failed batches come first; a batch without rows is not written. *)
FlushTick ==
    LET due == {k \in Keys : Due(k)}
        rows == {to_metric_row(k, buckets[k]) : k \in due}
    IN  /\ Idle
        /\ buckets' = [k \in Keys |-> IF k \in due THEN EmptyHistogram ELSE buckets[k]]
        /\ todo' = failed \o (IF due = {} THEN <<>> ELSE <<rows>>)
        /\ failed' = <<>>
        /\ flushes' = [k \in Keys |-> IF k \in due THEN Append(flushes[k], to_metric_row(k, buckets[k])) ELSE flushes[k]]
        /\ UNCHANGED <<stream, now, reports, restarts, channel, attempt, batch, db, received, lost>>

(* upsert_batch writes row by row and stops at the first error: `written`  *)
(* are the rows it got to.  A row that is found is overwritten.  The       *)
(* lookup of a row without a route compares with NULL and finds nothing:   *)
(* such a row is inserted each time (its copies are not counted here).     *)
(* Mutant: every row is inserted.                                          *)
KeysOf(b) == {row.key : row \in b}
InsertEvery(written) == db \cup written
Upserted(written) ==
    {row \in db : row.key \notin KeysOf(written) \/ row.key.route = NoRoute} \cup written

Written(written) ==
    /\ stream = "metrics" /\ todo # <<>>
    /\ db' = Upserted(written)

UpsertOk ==
    /\ stream = "metrics" /\ todo # <<>>
    /\ Written(Head(todo))
    /\ todo' = Tail(todo)
    /\ attempt' = 0
    /\ UNCHANGED <<stream, now, reports, restarts, channel, buckets, failed, batch, received, flushes, lost>>

UpsertRetried ==
    /\ stream = "metrics" /\ todo # <<>>
    /\ attempt + 1 < MaxAttempts
    /\ \E written \in SUBSET Head(todo) : Written(written)
    /\ attempt' = attempt + 1
    /\ UNCHANGED <<stream, now, reports, restarts, channel, buckets, todo, failed, batch, received, flushes, lost>>

(* The last attempt fails: the batch goes to the ring, which drops its     *)
(* oldest batch when it is over its size.  Mutant: it drops the batch just *)
(* pushed.                                                                 *)
PushNewestLost(ring, b) == IF Len(ring) < RingSize THEN <<Append(ring, b), {}>> ELSE <<ring, {}>>
Push(ring, b) ==
    IF Len(ring) < RingSize THEN <<Append(ring, b), {}>>
    ELSE <<Tail(Append(ring, b)), KeysOf(Head(Append(ring, b)))>>

UpsertGivenUp ==
    /\ stream = "metrics" /\ todo # <<>>
    /\ attempt + 1 = MaxAttempts
    /\ \E written \in SUBSET Head(todo) : Written(written)
    /\ failed' = Push(failed, Head(todo))[1]
    /\ lost' = lost \cup Push(failed, Head(todo))[2]
    /\ todo' = Tail(todo)
    /\ attempt' = 0
    /\ UNCHANGED <<stream, now, reports, restarts, channel, buckets, batch, received, flushes>>

----------------------------------------------------------------------------
(* The event consumer.  insert_batch is one statement, which leaves out an *)
(* event with the trace, time and type of a stored one.                    *)
InsertBatch(es) ==
    /\ \/ db' = db \cup Range(es) /\ lost' = lost
       \/ db' = db /\ lost' = lost \cup Range(es)
    /\ batch' = <<>>

CollectEvent ==
    /\ stream = "events" /\ channel # <<>>
    /\ channel' = Tail(channel)
    /\ LET es == Append(batch, Head(channel)) IN
       IF Len(es) >= BatchSize THEN InsertBatch(es) ELSE batch' = es /\ UNCHANGED <<db, lost>>
    /\ UNCHANGED <<stream, now, reports, restarts, buckets, todo, attempt, failed, received, flushes>>

EventTick ==
    /\ stream = "events"
    /\ IF batch = <<>> THEN UNCHANGED <<batch, db, lost>> ELSE InsertBatch(batch)
    /\ UNCHANGED <<stream, now, reports, restarts, channel, buckets, todo, attempt, failed, received, flushes>>

----------------------------------------------------------------------------
Tick ==
    /\ now < MaxTime
    /\ now' = now + 1
    /\ UNCHANGED <<stream, reports, restarts, channel, buckets, todo, attempt, failed, batch, db,
                   received, flushes, lost>>

(* The process ends, and starts again with nothing in memory: no task      *)
(* writes what it holds when it is cancelled.                              *)
InMemory ==
    (IF stream = "metrics" THEN {KeyOf(channel[i]) : i \in DOMAIN channel} ELSE Range(channel))
        \cup {k \in Keys : total(buckets[k]) > 0} \cup Range(batch)
        \cup UNION {KeysOf(b) : b \in Range(todo) \cup Range(failed)}

Restart ==
    /\ restarts < MaxRestarts
    /\ restarts' = restarts + 1
    /\ channel' = <<>> /\ buckets' = [k \in Keys |-> EmptyHistogram]
    /\ todo' = <<>> /\ attempt' = 0 /\ failed' = <<>> /\ batch' = <<>>
    /\ lost' = lost \cup InMemory
    /\ UNCHANGED <<stream, now, reports, db, received, flushes>>

Aggregate == Receive \/ FlushTick \/ UpsertOk \/ UpsertRetried \/ UpsertGivenUp
Consume == CollectEvent \/ EventTick

Next ==
    \/ \E route \in Routes \cup {NoRoute}, latency \in Latencies : record_metric(route, latency)
    \/ \E trace \in Traces \cup {NoTrace} : record_event(trace)
    \/ Aggregate \/ Consume \/ Tick \/ Restart

(* The runtime polls a task that can go on, interval timers fire again and *)
(* again, and time passes.  That a database which is asked again and again *)
(* answers at last is an assumption about the database.                    *)
Fairness == WF_vars(Aggregate) /\ WF_vars(FlushTick) /\ WF_vars(Consume) /\ WF_vars(Tick) /\ SF_vars(UpsertOk)

Spec == Init /\ [][Next]_vars
FairSpec == Spec /\ Fairness

----------------------------------------------------------------------------
Taken(k) == FoldFunction(+, 0, received[k])
Below(k, x) == FoldFunctionOnSet(+, 0, received[k], {l \in Latencies : l < x})
Pending(k) == {row \in UNION (Range(todo) \cup Range(failed)) : row.key = k}
Stored(k) == {row \in db : stream = "metrics" /\ row.key = k}
Reopened(k) == total(buckets[k]) > 0 \/ Len(flushes[k]) > 1

(* p is the least power of two (from 2) that p per cent of the samples of  *)
(* k stay below.                                                           *)
ConservativePercentile(k, x, p) ==
    /\ Below(k, x) * 100 >= Taken(k) * p
    /\ x = 2 \/ Below(k, x \div 2) * 100 < Taken(k) * p

(* What a bucket's flush wrote, or still has to write, counts every sample *)
(* taken for the bucket, and its percentiles bound theirs from above by at *)
(* most a factor of two: through failed attempts, partly written batches   *)
(* and the ring.  Excepted are buckets that a late sample opened again,    *)
(* and those whose data the ring or a restart dropped.                     *)
FlushedRowsExact ==
    \A k \in Keys :
        k \notin lost /\ flushes[k] # <<>> /\ ~Reopened(k) =>
            \E row \in Pending(k) \cup Stored(k) :
                /\ row.total = Taken(k)
                /\ ConservativePercentile(k, row.p50, 50)
                /\ ConservativePercentile(k, row.p90, 90)

(* A bucket of a route has at most one row, however often its batch is     *)
(* written or the bucket opened again; the row is what one flush made of   *)
(* it, so it never counts more than was received.  Channel and ring stay   *)
(* within their sizes meanwhile.                                           *)
NeverOverReported ==
    /\ TypeOK
    /\ \A k \in Keys :
        k.route # NoRoute =>
            /\ Cardinality(Stored(k)) <= 1
            /\ \A row \in Stored(k) : row \in Range(flushes[k]) /\ row.total <= Taken(k)

(* What a task has taken over reaches the database: a sample in a bucket   *)
(* that has ended, however long the database was away, unless the ring or  *)
(* a restart dropped it; an event in its channel, unless its one insert    *)
(* failed or the process ended.                                            *)
ReportsReachStorage ==
    /\ \A k \in Keys :
        (Taken(k) > 0 /\ k.ts < MaxTime) ~> (Stored(k) # {} \/ k \in lost)
    /\ \A e \in Events :
        (stream = "events" /\ e \in Range(channel)) ~> (e \in db \/ e \in lost)
============================================================================
