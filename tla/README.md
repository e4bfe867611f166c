# Conrogate: specifications, model checking and proofs

Conrogate is an API gateway: a data plane (the *gate*) that forwards HTTP, WebSocket and TCP
traffic, and a control plane that stores routes, upstreams and plugin bindings, publishes
versions of them and lets gates pick them up. This directory keeps, beside the code, TLA+
modules of the parts whose correctness depends on interleavings, failures or time, the TLC
configurations that check them on small instances, and proofs that TLAPS checks for every value
of the constants. Paths below are relative to `src/crates/`.

To run one: `tlc -config MCBreaker.cfg MCBreaker`; to check the proofs of a module:
`tlapm BreakerProofs.tla`. `PROJECT.json` lists the runs, maps every definition to the
lines it models, and lists mutants: for each property a changed definition, as a bug
would change the code, under which TLC must find the property violated.

## 1. The parts of the system and how they interact

A connection is accepted by the *gate server*, takes a permit (static or adaptive) and is served.
Each request on it goes through *admission* (real address, route match, blacklist, plugin chain),
*traffic control* (three rate limits, a breaker per node, a retry budget), *node selection*, and
the *forwarding path*, which reports the outcome to the breaker, the balancer, the passive health
checker and *telemetry*. Beside the requests a poll loop *reloads* routes, plugin chains and
upstreams from the tables, over HTTP, or from a *published version* in Redis. The tables and the
versions are written by the *control API*.

| Part | State | Operations | What makes it hard | Module |
|---|---|---|---|---|
| Circuit breaker (`conrogate-traffic/breaker.rs`) | state, counts, window start, last failure time | `allow`, `record_success`, `record_failure` | outcomes arrive late, in another state, or never; the window expires in between | Breaker |
| Breaker in cluster mode | Redis counters, cached copy | mirror, cached read | stale counts, signed counter arithmetic | ClusterBreaker |
| Adaptive concurrency (`adaptive.rs`) | limit, samples, window start (three mutexes), atomic `inflight` | `try_acquire`, permit drop, `record_latency` | limit read earlier than used; racing adjustments | AdaptiveConcurrency |
| Retry budget (`retry_budget.rs`) | two atomics, window start | `try_consume`, `record_request` | check-then-increment across two counters; reset is two stores | RetryBudget |
| Rate limiters (`limiter.rs`) | tables of windows / buckets, Redis keys | `acquire` of four algorithms | window boundaries, clean-up at the size limit, key expiry, fail-open | Limiter |
| Traffic control (`conrogate-gateway/filter.rs`) | – | `check_rate_limit` over three levels | a caller refused or dropped between two levels | Governor |
| Forwarding path, TCP tunnels (`conrogate-protocol/http.rs`, `tcp.rs`, `pool.rs`, `least_conn.rs`) | locals of a request; connection counts | `handle`, `handle_stream`, retry loop, `select_upstream`, `release_node` | early returns after something was counted, dropped futures, reload between select and release | RequestPath |
| Node selection (`pool.rs`, `health.rs`, `conrogate-balancer/*`) | counter, running weights, hash ring cache, node failures | `select`, `filter_healthy` | state shared between upstreams, a ring built outside the lock | Selection |
| Admission (`server.rs`, `route.rs`, `conrogate-plugins`, `blacklist.rs`) | route table, chains, blacklist, key caches | match, hooks, header rules, key fetch | swaps between match and chain; fetch under a lock that fails or is dropped | Routing, Plugins, Admission |
| Gate server (`conrogate-gateway/server.rs`) | permits, JoinSet, tunnel tasks, phase | accept, acquire, serve, drain, abort | cancellation at any await, tasks outside of the JoinSet | GateServer |
| Telemetry (`telemetry.rs`, `metric_repo.rs`, `event_repo.rs`) | channels, buckets, ring of failed batches, rows | report, aggregate, flush, upsert | late samples, batches written in part and again, overwritten rows | Telemetry |
| Versions and cache (`service.rs`, `config_version_repo.rs`, `config_cache.rs`) | version rows, Redis version key and snapshots | publish, rollback, cache write, invalidate, poll | two writers, writes that fail with effect, a process that dies | ConfigDistribution, ConfigPromise |
| Business tables (`service.rs`, `conrogate-storage/repository/*`) | routes, upstreams, nodes, bindings | CRUD, several statements each | check-then-delete, failures between statements | ControlTables |
| Loading and hot reload (`server.rs`, `bootstrap.rs`, `cmd_gate.rs`, `http_config_loader.rs`) | what a load has read; matcher, chains, selector | initial load, poll, pages, three swaps | torn reads, shifting pages, failed queries, invalid bindings | HotReload |
| Rollback (`apply_snapshot`), control API (`conrogate-server`) | tables with ids and names, versions, audit rows | every handler that writes | rows renamed, deleted, re-created since the version; races between statements | Snapshots, ControlApi |

`PROJECT.json` ("components", "hazards") has the list with sources, what each module leaves out,
and for each hazard the line where it bites and the properties that would catch it.

## 2. Modules and their correspondence to the code

Conventions. One action per critical section, atomic operation, statement or await; what the
code does between two of them without giving up control is inside one action. An `Instant` is
modelled by its age in ticks, saturated at the constant it is compared with. Variables marked
*history* are not in the code; they only remember something a property talks about. Mutated
definitions (`RejectExtendsWait`, `SwapChainsLast`, ...) stand right before the one they mutate
and are used by no specification.

**Breaker** – `BreakerImpl` without Redis. `allow` is `AllowClosed`, `AllowOpen`,
`AllowHalfOpen` or `Reject`; every function begins with `refresh_window` (`Refreshed`). A request
that was let through reports later (`Complete`) or never (`Abandon`, the ways out of the
forwarding path without `record_result`). The threshold is a fraction. **ClusterBreaker** extends
it with the mode that has a Redis URL: `allow` decides on two mirrored counters, read at most once
per refresh interval (`AllowCached`, `ReadCounts`, `CacheCounts`), fails open when Redis does, and
`IncrBy`/`Clamped` keep the signs the code computes with; `OtherInstance` is another process.

**AdaptiveConcurrency** – `AdaptiveConcurrencyImpl`. `maybe_adjust` is four sections
(`CheckWindow`, `TakeSamples`, `ReadOldLimit`, `WriteNewLimit`), `try_acquire` goes on with
`ReadLimit` and `Acquire` or `Reject`; `Release` is the permit's drop. The shrunk limit is a
constant operator with its only relevant property, `Shrink(n) \in 0..n`. In the gate as it is,
nothing calls `record_latency` (hence GateServer's constant limit); the module has it.

**RetryBudget** – `RetryBudgetImpl`. Every load, store, `fetch_add` and `compare_exchange` is an
action; the two stores of a reset are `Begin` and `ResetRetries`, under the mutex `window_lock`.
The ratio test is done in integers (`Exhausted`), with the results 0/0 and n/0 have in floats.

**Limiter** – the four `acquire` functions, each atomic (a mutex, or a Lua script): `FixedWindow`,
`SlidingWindow`, `TokenBucket`, `Redis`, and `FailOpen`. Tokens are counted in units of 1/Window so
that refills are exact. **Governor** composes them: a caller asks for the global, route and client
key, one await each, stops at the first refusal, may be dropped in between, and gives nothing back.

**RequestPath** – one action per await of `handle`, `handle_stream` and the tunnel handler of
`tcp.rs`. Components a request asks on its way give any answer they can give. `Select`,
`ReleaseNode` and `LoadUpstreams` are the selector with the LeastConnections counts; `Abort` drops
the handler at any await; a WebSocket tunnel goes on after its request (`TunnelEnds`). `leaked`
(history) counts the ways out that never call `release_node`.

**Selection** – `select_upstream` with the passive filter (and its fallback to all nodes), round
robin, smooth weighted round robin with its table of states (`Full` clears it), and the hash ring
with its cache: looked up, built without the lock, stored. One balancer of each kind serves every
upstream, as in the process. Reloads reorder and disable nodes.

**Routing** – how routes become the matcher's table (regex screening, order) and how a request is
matched; `BestRoute` is the reference definition. **Plugins** – what the hooks of the four shipped
plugins do, and how bindings become chains, all or nothing. **Admission** – the request through
`HyperServiceBridge::process`, the handlers, blacklist, chain and header rules and back, while a
reload swaps chains and table, the blacklist is refreshed or fails to be, and the issuer rotates
keys. A value is a sequence of atoms; an address range is a set of addresses; a signature
algorithm is the key a token verifies under.

**GateServer** – `run_with_shutdown` for a cleartext, a TLS and a passthrough listener, with the
static semaphore (a queue) or the adaptive controller (fail at once). A task is spawned, acquires,
does its handshake, serves, switches protocols or ends; WebSocket tunnels run in tasks of their
own and hold no permit. `DrainExpires`, `AbortAll`, `Joined` are the shutdown; `Cancel` drops a
task wherever it awaits.

**Telemetry** – the metric path (channel, buckets with histograms, `FlushTick`, attempts, ring of
failed batches, upsert row by row) and the event path (channel, batch, one insert); a behaviour has
one of the two. `Restart` loses what is in memory. `percentile` is the code's, on three bins.

**ConfigDistribution** – publishers go through `StartPublish`/`StartRollback`, the check of the
base version, `Insert` (unique index), the cache write with its retries, `Invalidate`; gates poll
with `GetVersion`, `GetSnapshot`, and fall back to `ReadTables`. A Redis write that fails may have
been applied; a control plane may die between any two steps (`Crash`). The content of the tables
is one value. **ConfigPromise** is the abstract service: a history of published configurations that
only grows, and gates that never go back while publishes are orderly.

**ControlTables** – the operations of `ControlService` on routes, upstreams and bindings, a
statement an action; a failed statement abandons the rest (`Abandon`). **HotReload** extends it
with a gate in one of its three deployments: the initial load, the poll, each query of a load, over
HTTP each count and page, its failure, `build_chains` and the three swaps in their order.

**Snapshots** – the tables with row ids and names, `Snapshot`, `diff`, and `apply_snapshot` as a
function: upstreams and routes matched by name, references remapped, the rest removed, bindings
aligned. **ControlApi** – every handler that writes, statement by statement, with the token's role
and the audit row, for several clients at a time, with a statement that fails and a process that
stops.

## 3. Runs

Each run asks one component (with what it is composed of) all its questions. A run with a
liveness property uses the specification with fairness, the others `Spec`.

| Run | Instance | Shows |
|---|---|---|
| `breaker` | 3 requests, window and wait 2 ticks, quota 2, counts up to 3; with and without Redis | HalfOpen closes only on successes of its own phase; Open is probed again although late failures extend the wait; in cluster mode no request is ever rejected |
| `adaptive` | 3 tasks, limit 1..2 | no slot leaked or doubled; the excess over a lowered limit drains |
| `retry_budget` | 3 threads, ratio 1/2, up to 4 requests a window | an exchange respects the budget on current counters; overshoot bounded by threads and cold start |
| `limiters` | 2 callers, global key and two routes with a client each, limits 1 and 2, window 3 ticks, table of 2, all four algorithms; limited are the client level, or the global and the client level | what each limiter admits in any window; none refuses below its limit; wider levels bind narrower ones |
| `request_path` | 2 requests of every kind (buffered, streamed, upgraded, TCP), 2 nodes, 5 loaded configurations, 2 retries | counts accounted for under reload and dropped handlers; retries justified and charged; each request reported and counted once |
| `selection` | 2 upstreams that share addresses, 5 nodes, 2 weightings, 2 ring layouts, 2 requests, 1 reload, 2 saved weight states | a serving node is chosen, healthy if there is one; shares stay within one round while the balancer's state is the upstream's own; keys stay at their node |
| `admission` | 2 requests of 9 kinds, 3 configurations (one of which cannot be built), 2 blacklists, 2 key sets, 2 events | the best route is matched; blacklist and auth plugin hold through reloads and failed refreshes; withdrawn keys go with the next reload; the gate's own headers win |
| `gate_server` | 3 connections, 1 static or 2 adaptive permits, 3 listener modes | permits conserved under cancellation; the shutdown ends, leaves nothing and closes open tunnels; waiters are served |
| `telemetry` | 3 reports, channel 2, ring 1, 2 attempts, 2 buckets, 3 bins, 1 restart | flushed rows exact, percentiles bounded; nothing counted twice; what was taken over reaches the tables |
| `config_distribution` | 2 publishers, 1 gate, 2 versions, 3 faults | versions form one chain; the cache agrees with them and is not stale after orderly publishes; gates converge; implements ConfigPromise |
| `hot_reload` | 2 routes, 2 upstreams, pages of 1 row, 2 edits, 1 failed query, 3 deployments | unedited routes always served with nodes and plugins; no route without its chain; upstreams in use kept; the gate catches up |
| `control_api` | 2 clients, 3 requests, 2 initial tables, 1 fault; configuration or operational writes | versions can always be applied; a rollback restores its version by name; writes are audited |

Type invariants: those of the modules with proofs are proved (section 4) and not model-checked
again; in the others `TypeOK` is a conjunct of the first state invariant of the run.

*Bounds.* Two requests, publishers, clients or callers show every race of two; a third is added
where a queue, a quota or an overshoot needs it (breaker, adaptive, budget, gate server). Counters
are capped at one more than the largest number they are compared with (`MaxCount`, `MaxTotal`,
`MaxSamples`), ages at the constant they are compared with. `MaxVersions = 2` gives a publish and
its overlapping successor; `MaxFaults` of `config_distribution` exceeds the retries of one write,
so that a write can fail for good and its invalidation too; in `hot_reload` one failed query
splits a load at every place, two edits tear one, and pages of one row make every page boundary
happen. A ring of one batch and a channel of two overflow with three reports. In `control_api`
publish, edit and rollback are the three requests. Every bound is a named constant.

*Symmetry* is used for requests, threads, callers and clients in runs without liveness
properties; none of them is ordered or named in a formula.

*Deadlock* is checked except in `gate_server`, whose program stops.

*Fairness.* Breaker: time passes, requests that were let through end (forwarding has a timeout)
and traffic arrives; without traffic nothing leaves Open, by design. Adaptive: a started
`try_acquire` runs on and every connection ends, since the idle timeout wraps it.
ConfigDistribution and HotReload: a started publish runs on and gates keep polling; nothing is
assumed of operators. GateServer: timers fire and runnable tasks run; nothing is assumed of peers,
not even that a handshake ends. Telemetry: tasks and timers run (weak), and a database that is
asked again and again answers at last (strong fairness of `UpsertOk`): an assumption about the
database, without which nothing can be promised of its rows.

## 4. Proofs

Eight modules hold proofs; each extends its component and adds what makes the invariant inductive.
They hold for every value of the constants that the named ASSUMEs of the component modules admit
(finite sets, validated ranges); TLC evaluates those in every run.

* **BreakerProofs**, for any requests and configuration. `BreakerInv` adds to the properties that
  the successes counted in HalfOpen were recorded in this phase (`HalfOpenSuccessesAreOwn`);
  without it a count left over from Closed could reach the quota. Theorems: `BreakerTypeOK`,
  `OpenAlwaysHasFailureTime`, `HalfOpenAlwaysBelowQuota`, and the action properties
  `ClosesOnlyOnQuota`, `OpenAlwaysSheds`.
* **ClusterBreakerProofs**, for any number of processes and any positive threshold:
  `ClusterModeNeverSheds`. The invariant is that no failure counter, in Redis, read or cached, is
  above zero; a rate of zero exceeds no positive threshold.
* **AdaptiveConcurrencyProofs**, for any finite set of tasks and a validated configuration
  (`min <= initial <= max`). The three invariants together are inductive: every copy of the limit
  a task holds is in range (`TypeOK`), so an exchange never passes the maximum. Holders are
  counted with the cardinality facts of FiniteSetTheorems.
* **RetryBudgetProofs**, for any finite set of threads and a positive ratio. `BudgetInv` adds that
  the mutex is held between the two stores of a reset, that a loaded total is not above the
  counter unless a reset came between, and that a thread exchanges only on values within the
  budget; with `ExhaustedAntitone` (a larger total makes the ratio smaller) these give
  `GrantsAlwaysWithinBudget`. `RetriesAlwaysRequests` counts the threads that owe an increment.
* **RequestPathProofs**, for any finite set of requests, any nodes and reloads. `PathInv` adds that
  a counted request has a node and that, without a reload, every request between select and
  release was counted; `CountsAlwaysAccounted` follows by counting the requests on a node.
  `RecordsInv` ties attempts, charges, reports and metrics of a request to its place in the
  handler; from it `AttemptsAlwaysJustified` and `AlwaysObservedOnce`, tunnels included.
* **ConfigDistributionProofs**, for any publishers, gates, faults and bounds. `IInv` adds what a
  request between two statements relies on: the snapshot it carries, the base it has checked, that
  the version it writes to the cache is its own row. A second invariant `Fresh` on top of it (an
  orderly history has at most one writer, and that one has the latest row) gives
  `CacheNeverLeftStale`.
* **ConfigPromiseProofs** – `DistributionImplementsPromise`: the initial states map to initial
  states and every step to a step or stutter of ConfigPromise. An insert is a publish (the rows
  grow by one, `PublishedAppended`); a gate's swap never goes back because what it has read is not
  older than what it serves while publishes are orderly (`GateOrdered`, on top of `IInv` and
  `Fresh`); every other step stutters.
* **HotReloadProofs**, for any routes, upstreams, page size, edits and failed queries.
  `UsedUpstreamsAlwaysKept`: between the check of `delete_upstream` and the deletion only routes
  written in that window have the upstream (`TablesInv`). `AlwaysServedWithChain`: while the routes
  are about to be swapped the chains in use are those of the load, and they were built from
  bindings that are all valid (`ChainsInv`); a query, done or failed, swaps nothing (`LoadQuiet`).

Only model-checked: all liveness properties, which are out of the prover's reach (`ENABLED`, and
fairness); the limiters, `WiderLevelsBind`, `BoundedOvershoot` and `FairShare`, which speak of sums
over a window or a round; `PermitsConserved`, which needs an induction over the waiting queue;
`UneditedRouteServed`, which rests on what folding over pages yields; and Selection, Telemetry,
Admission and ControlApi, which are built from folds and sorted sequences over data.

## 5. Where the code differs from what is said of it

Each property is stated so that it holds of the code; these are the places where that took an
exception, or where a comment or a document says something else.

* *Connection counts.* A request the breaker sheds (http.rs:688), one that becomes a WebSocket
  (http.rs:716) and a tunnel the breaker sheds (tcp.rs:173) leave after `select_upstream` and never
  call `release_node`, which conrogate-core/src/gateway.rs:32 asks for when a request or connection
  ends: the node stays counted. `CountsAccounted` has these as `leaked`.
* *Probes.* `half_open_max` is compared with recorded outcomes (breaker.rs:231), so any number of
  requests may be probing at once, while `docs/env.md` speaks of a maximum number of probes.
* *Cluster breaker.* Failures are mirrored with -1 and clamped at 0 when read (breaker.rs:166, :139):
  the breaker never opens in cluster mode (`ClusterNeverSheds`).
* *Token bucket.* A full bucket is removed and the request that finds it so takes no token
  (limiter.rs:318), although the comment calls the removed bucket equivalent to a new one;
  `RateBounded` allows three times the limit.
* *Tunnel limits.* The value of `conn_qps` is used only as a switch, and a tunnel pays the global
  key twice. A tunnel whose `on_connect` or `select_upstream` fails is counted nowhere, in spite of
  tcp.rs:52–53; `ObservedOnce` leaves those two out.
* *Cache order.* Two publishes that overlap may write the cache in the other order than their
  version rows (config_cache.rs:132), and the older snapshot stays, which service.rs:335 means to
  avoid. `CacheNotStale` and ConfigPromise assume orderly publishes.
* *Merged process.* `bootstrap.rs:177` loads routes with bindings and installs no chains; until the
  first reload routes are served without plugins, unlike in the stand-alone gate (server.rs:516)
  and against the intent of loader.rs:49. `ServedWithChain` exempts that time.
* *Shutdown of `conrogate serve`.* `async_run` awaits `bootstrap::run` (cmd_serve.rs:32), which
  waits for the broadcast (bootstrap.rs:330) that `async_run` sends only afterwards: the order in
  docs/architecture.md:126 is never reached. `GatewayServer::run` of a stand-alone gate is given a
  future that never fires. GateServer models the shutdown that the code would perform.
* *Tunnels.* One that starts to wait after `notify_waiters` is not notified. A TLS handshake holds
  its permit under no timeout. upgrade.rs:163 says the copy ends when either direction does;
  `try_join!` waits for both.
* *Paging.* The loader of the HTTP deployment means not to lose configuration (http_config_loader.rs:77)
  but pages by offset (:98): rows that come or go during a load shift the pages, and a route nobody
  edits may be missed until the next load. `UneditedRouteServed` says this is the only way.
* *Bindings.* One binding whose config its plugin rejects keeps every later change from a gate; over
  HTTP the upstreams are swapped all the same. The control plane stores configs unchecked.
* *Passive health.* After `recovery_wait` a node becomes Degraded, and the filter drops Degraded
  nodes too: a node with one failure gets no traffic while another is well. Nothing reads the
  verdicts of the active checker.
* *Balancer state.* weighted.rs:3–4 says upstreams do not share weights; two upstreams with equal
  addresses and weights do, and round robin has one counter for all. A list of zero weights has no
  node to choose. `FairShare` speaks of upstreams that had the state to themselves (`steady`).
* *Key cache.* Its lifetime and the use of old keys while the issuer fails (auth/mod.rs:24) are cut
  short: each reload builds new plugin instances with empty caches. A cached key that is found is
  used whatever its age.
* *Rollback.* An upstream that is gone is inserted through a conversion without nodes
  (config_version_repo.rs:246), though conrogate-core/src/storage.rs:110 says nodes are restored.
  Of several upstreams of one name only the first is matched. Disabled routes keep references to
  upstreams that were removed. A rollback that loses the race for its version number has changed
  the tables and leaves neither version nor audit row (`ChangesAudited` excepts it). `diff` reports
  every route that is in both versions as modified.
* *Control API.* handler.rs:3 says writes require the Operator role; the three `receive_*` handlers
  do not. Two concurrent entries of one blacklist address end in an error for one of them, though
  service.rs:664 calls the operation idempotent.

## 6. Not modelled

* The WebSocket handshake and the bytes of tunnels: their ends are results in RequestPath and steps
  of GateServer; no decision of the gate depends on the content.
* The DNS cache, the parsing of ClientHello and the HTTP client: a failed forward is a result.
* `RetryerImpl` (unused by the forwarding path) and the active health checker (its verdicts are
  unused); static discovery returns its list.
* Start-up code, the command line, configuration parsing, entities, conversions other than those
  named above, migrations and seeds: declarative or run once, sequentially, with unit tests.
* Handlers that only read, request decoding, the layout of answers, logging, and the dashboard.

Further modelling would repeat these modules at finer grain (node rows one by one in ControlApi,
the whole of RequestPath inside Admission); the products are beyond TLC at useful bounds, and the
interfaces between the modules (an answer, a result, a swap) are what the compositions check.
