----------------------------- MODULE Admission -----------------------------
(***************************************************************************)
(* What a request goes through at the gate before and after it is          *)
(* forwarded: HyperServiceBridge::process                                  *)
(* (conrogate-gateway/src/server.rs), HttpProtocolHandler                  *)
(* (conrogate-protocol/src/http.rs) and TcpTunnelProtocolHandler (tcp.rs)  *)
(* up to the node, with the global blacklist                               *)
(* (conrogate-security/src/blacklist.rs), the route table of Routing and   *)
(* the plugin chains of Plugins, the auth plugin's key cache included.     *)
(* Meanwhile a reload swaps the chains and then the table, the blacklist   *)
(* is refreshed, the token issuer changes its keys and time passes.  A     *)
(* request is handled in the pieces between which another thread or an     *)
(* await can come in.  Selection, breakers, retries and their accounting   *)
(* are RequestPath, the queries behind a reload HotReload.                 *)
(***************************************************************************)
EXTENDS Plugins

CONSTANTS
    Requests,
    Kinds,       \* the requests that clients send
    Configs,     \* sequence of configurations: routes and bindings
    Blacklists,  \* contents of the ip_blacklist table: net and expiry
    Trusted,     \* listen.trusted_proxies
    Keysets,     \* sequence of key sets of the issuer: kid -> key
    Tokens,      \* the bearer tokens: kid, key they verify under, claims valid
    Ttl,         \* jwks_cache_ttl_seconds
    BodyRequired,  \* registered plugins that read the request body
    MaxEvents    \* bound: changes around the requests

ASSUME AdmissionAssumption == Ttl \in Nat /\ MaxEvents \in Nat /\ Trusted \subseteq Addresses

VARIABLES
    pc, in, ctx, info, route, chain, hook, status, sent, answer,  \* per request
    table, chains, generation, loading,   \* the matcher, the pipeline, a reload between them
    current,     \* the configuration in the business tables
    rows,        \* the ip_blacklist table
    blacklist,   \* BlacklistMatcher
    issuer,      \* index of the issuer's key set
    jwks, lock,  \* JwksCache of each auth instance and who holds its write lock
    now, events,
    since,       \* history: configurations whose chains were in force from a match to its chain
    matched,     \* history: the configuration in the matcher
    refreshed,   \* history: rows at the last refresh that succeeded
    verified,    \* history: the key a request's token was verified under, and its instance
    retired,     \* history: generation at which the issuer dropped a key set
    fetched      \* history: when an instance last got keys

request == <<pc, in, ctx, info, route, chain, hook, status, sent, answer, verified>>
config == <<table, chains, generation, loading, current, since, matched>>
lists == <<rows, blacklist, refreshed>>
keys == <<jwks, lock, fetched>>
world == <<issuer, retired, now, events>>
vars == <<request, config, lists, keys, world>>

Never == -1
Dropped == 499  \* the connection is gone; no answer was sent
Free == "free"
NoKey == [key |-> "none", instance |-> <<0, 0>>]
NoRequest == [protocol |-> "none"]
NoCtx == [protocol |-> "http", method |-> "GET", client_ip |-> "none", trace_id |-> "none",
          headers |-> NoHeaders, response_headers |-> NoHeaders]
RouteIds == UNION {{d.id : d \in Configs[c].routes} : c \in DOMAIN Configs}
Instances == (1..(MaxEvents + 1)) \X RouteIds
NoKeys == [x \in {} |-> ""]
EmptyCache == [keys |-> NoKeys, fetched_at |-> Never]
Table(c) == load_with_bindings(Configs[c].routes, Configs[c].bindings, BodyRequired)
Chains(c, g) == build_chains(Configs[c].bindings, g)

Pcs == {"idle", "body", "handle", "preflight", "hook", "key", "fetch", "govern",
        "forward", "respond", "done"}

TypeOK ==
    /\ pc \in [Requests -> Pcs]
    /\ \A r \in Requests :
        /\ pc[r] \notin {"idle", "done"} => in[r] \in Kinds
        /\ route[r].id \in RouteIds \cup {0}
        /\ hook[r] \in 0..(Len(chain[r]) + 1)
        /\ status[r] \in {0, 101, 200, 204, 400, 401, 403, 408, 413, 429, 502, 503, Dropped}
        /\ pc[r] = "fetch" <=> \E i \in Instances : lock[i] = r
        /\ pc[r] = "done" => status[r] # 0
    /\ current \in DOMAIN Configs /\ loading \in 0..Len(Configs)
    /\ generation \in 1..(MaxEvents + 1)
    /\ DOMAIN chains \subseteq RouteIds
    /\ rows \in Blacklists /\ issuer \in DOMAIN Keysets
    /\ now \in 0..MaxEvents /\ events \in 0..MaxEvents

Init ==
    /\ pc = [r \in Requests |-> "idle"]
    /\ in = [r \in Requests |-> NoRequest]
    /\ ctx = [r \in Requests |-> NoCtx]
    /\ info = [r \in Requests |-> NoRoute]
    /\ route = [r \in Requests |-> NoRoute]
    /\ chain = [r \in Requests |-> <<>>]
    /\ hook = [r \in Requests |-> 0]
    /\ status = [r \in Requests |-> 0]
    /\ sent = [r \in Requests |-> NoHeaders] /\ answer = [r \in Requests |-> NoHeaders]
    /\ current \in DOMAIN Configs /\ Buildable(Configs[current].bindings)
    /\ table = Table(current) /\ matched = current
    /\ generation = 1 /\ chains = Chains(current, 1) /\ loading = 0
    /\ since = [r \in Requests |-> {}]
    /\ rows \in Blacklists
    /\ blacklist = {e \in rows : e.expires_at = Never \/ e.expires_at > 0} /\ refreshed = rows
    /\ issuer = 1 /\ retired = <<>>
    /\ jwks = [i \in Instances |-> EmptyCache] /\ lock = [i \in Instances |-> Free]
    /\ fetched = [i \in Instances |-> Never]
    /\ verified = [r \in Requests |-> NoKey]
    /\ now = 0 /\ events = 0

----------------------------------------------------------------------------
(* The handler returns; its locals are gone. *)
Finish(r, code, headers) ==
    /\ pc' = [pc EXCEPT ![r] = "done"]
    /\ status' = [status EXCEPT ![r] = code]
    /\ answer' = [answer EXCEPT ![r] = headers]
    /\ ctx' = [ctx EXCEPT ![r] = NoCtx]
    /\ info' = [info EXCEPT ![r] = NoRoute]
    /\ route' = [route EXCEPT ![r] = NoRoute]
    /\ chain' = [chain EXCEPT ![r] = <<>>]
    /\ hook' = [hook EXCEPT ![r] = 0]
    /\ sent' = [sent EXCEPT ![r] = NoHeaders]
    /\ verified' = [verified EXCEPT ![r] = NoKey]
    /\ since' = [since EXCEPT ![r] = {}]
    /\ in' = [in EXCEPT ![r] = NoRequest]

(* error_response: the trace id goes into a header of its own. *)
Fail(r, code) == Finish(r, code, NoHeaders)

Goto(r, label) == pc' = [pc EXCEPT ![r] = label]

(* The configuration whose chains the pipeline holds. *)
InForce == IF loading # 0 THEN loading ELSE matched

Probe(q) == q.protocol = "http" /\ q.method = "GET" /\ q.path \in {<<"healthz">>, <<"readyz">>}

(* A request q comes in.  process, up to the body: the probes, then one    *)
(* match of the table.  A route that needs no body is handled with the     *)
(* body as a stream, unless its declared length is over the limit.  A      *)
(* tunnel goes to its handler.                                             *)
Process(r, q) ==
    LET m == IF q.protocol = "http" THEN match_http_request(table, q)
             ELSE [route |-> NoRoute, info |-> from_tunnel(q)]
        streamed == m.route # NoRoute /\ ~m.route.requires_body
    IN
    /\ pc[r] = "idle"
    /\ \/ /\ Probe(q)
          /\ Finish(r, IF q.path = <<"readyz">> /\ IsEmpty(table) THEN 503 ELSE 200, NoHeaders)
       \/ ~Probe(q) /\ streamed /\ q.length = "over" /\ Fail(r, 413)
       \/ /\ ~Probe(q)
          /\ ~(streamed /\ q.length = "over")
          /\ Goto(r, IF q.protocol = "http" /\ ~streamed THEN "body" ELSE "handle")
          /\ in' = [in EXCEPT ![r] = q]
          /\ info' = [info EXCEPT ![r] = m.info]
          /\ route' = [route EXCEPT ![r] = m.route]
          /\ since' = [since EXCEPT ![r] = IF m.route = NoRoute THEN {} ELSE {InForce}]
          /\ UNCHANGED <<ctx, chain, hook, status, sent, answer, verified>>
    /\ UNCHANGED <<table, chains, generation, loading, current, matched, lists, keys, world>>

(* The body is collected: in full, or the client fails, is too slow, or    *)
(* sends too much.                                                         *)
CollectBody(r) ==
    /\ pc[r] = "body"
    /\ \/ /\ in[r].length # "over" /\ Goto(r, "handle")
          /\ UNCHANGED <<in, ctx, info, route, chain, hook, status, sent, answer, verified, since>>
       \/ in[r].length = "over" /\ Fail(r, 413)
       \/ Fail(r, 400)
       \/ Fail(r, 408)
    /\ UNCHANGED <<table, chains, generation, loading, current, matched, lists, keys, world>>

----------------------------------------------------------------------------
is_trusted_proxy(ip) == ip \in Trusted

(* The nearest hop that is no proxy of ours, if the peer itself is one. *)
resolve_real_ip(q) ==
    LET xff == Get(q.headers, "x-forwarded-for")
        foreign == IF xff = None THEN {} ELSE {i \in DOMAIN xff[1] : ~is_trusted_proxy(xff[1][i])}
    IN IF q.protocol # "http" \/ ~is_trusted_proxy(q.socket) \/ foreign = {} THEN q.socket
       ELSE xff[1][Max(foreign)]

is_blocked(ip) ==
    /\ ip \in Addresses
    /\ \E e \in blacklist : ip \in e.net /\ (e.expires_at = Never \/ e.expires_at > now)

TraceId(q) == LET t == Get(q.headers, "x-trace-id") IN IF t = None THEN "generated" ELSE t[1][1]

(* handle and handle_stream: request metadata, the blacklist, and the      *)
(* route, looked up here when the bridge found none.                       *)
Handle(r) ==
    LET q == in[r]
        ip == resolve_real_ip(q)
        found == IF route[r] # NoRoute THEN route[r] ELSE match_route(table, q.protocol, info[r])
    IN
    /\ pc[r] = "handle"
    /\ \/ is_blocked(ip) /\ Finish(r, 403, NoHeaders)
       \/ ~is_blocked(ip) /\ found = NoRoute /\ Fail(r, 502)
       \/ /\ ~is_blocked(ip) /\ found # NoRoute
          /\ Goto(r, "preflight")
          /\ route' = [route EXCEPT ![r] = found]
          /\ since' = [since EXCEPT ![r] = IF route[r] = NoRoute THEN {InForce} ELSE @]
          /\ ctx' = [ctx EXCEPT ![r] = [NoCtx EXCEPT !.protocol = q.protocol, !.method = q.method,
                                        !.client_ip = ip, !.trace_id = TraceId(q),
                                        !.headers = q.headers]]
          /\ UNCHANGED <<in, info, chain, hook, status, sent, answer, verified>>
    /\ UNCHANGED <<table, chains, generation, loading, current, matched, lists, keys, world>>

(* preflight takes the chain the pipeline holds now. *)
Preflight(r) ==
    /\ pc[r] = "preflight"
    /\ Goto(r, "hook")
    /\ chain' = [chain EXCEPT ![r] = get_route_chain(chains, route[r].id)]
    /\ hook' = [hook EXCEPT ![r] = 1]
    /\ UNCHANGED <<in, ctx, info, route, status, sent, answer, verified, config, lists, keys, world>>

----------------------------------------------------------------------------
locals == <<in, info, route, chain, status, sent, answer>>
steady == <<table, chains, generation, loading, current, matched, lists, world>>

Plugin(r) == chain[r][hook[r]]

(* The plugin lets the request go on with the context c. *)
Pass(r, c) ==
    /\ Goto(r, "hook")
    /\ hook' = [hook EXCEPT ![r] = @ + 1]
    /\ ctx' = [ctx EXCEPT ![r] = c]
    /\ UNCHANGED <<locals, since>>

(* execute_before_request, execute_on_connect: the next plugin of the      *)
(* chain, or the end of it.  A plugin of another protocol is skipped.      *)
Hook(r) ==
    /\ pc[r] = "hook"
    /\ \/ hook[r] > Len(chain[r]) /\ Goto(r, "govern") /\ UNCHANGED <<locals, ctx, hook, since, verified>>
       \/ /\ hook[r] <= Len(chain[r])
          /\ ctx[r].protocol \notin protocols(Plugin(r).plugin)
          /\ Pass(r, ctx[r]) /\ UNCHANGED verified
       \/ /\ hook[r] <= Len(chain[r]) /\ Plugin(r).plugin # "auth"
          /\ ctx[r].protocol \in protocols(Plugin(r).plugin)
          /\ LET result == before_request(Plugin(r).plugin, Plugin(r).config, ctx[r]) IN
             \/ result.outcome = Continue /\ Pass(r, result.ctx) /\ UNCHANGED verified
             \/ result.outcome # Continue /\ Finish(r, result.outcome.code, result.ctx.response_headers)
    /\ UNCHANGED <<steady, keys>>

(* decode: signature and claims under the key that was resolved. *)
Verify(r, t, key) ==
    IF t.key = key /\ t.claims_valid
    THEN Pass(r, ctx[r]) /\ verified' = [verified EXCEPT ![r] = [key |-> key, instance |-> Plugin(r).instance]]
    ELSE Fail(r, 401)

Bearer(r) ==
    LET a == Get(ctx[r].headers, "authorization")
    IN IF a # None /\ Head(a[1]) = "Bearer" THEN <<Tokens[a[1][2]]>> ELSE None

(* Second look into the cache, by now under the write lock. *)
LookAgain(r, cache) ==
    LET t == Bearer(r)[1] IN
    IF t.kid[1] \in DOMAIN cache.keys THEN Verify(r, t, cache.keys[t.kid[1]]) ELSE Fail(r, 401)

(* AuthPlugin::before_request and resolve_key, up to the read lock. *)
AuthHook(r) ==
    LET auth == Plugin(r).config
        inst == Plugin(r).instance
        t == Bearer(r)
    IN
    /\ pc[r] = "hook" /\ hook[r] <= Len(chain[r]) /\ Plugin(r).plugin = "auth"
    /\ ctx[r].protocol = "http"
    /\ \/ t = None /\ auth.require_token /\ Fail(r, 401)
       \/ t = None /\ ~auth.require_token /\ Pass(r, ctx[r]) /\ UNCHANGED verified
       \/ t # None /\ ~auth.jwks /\ Verify(r, t[1], auth.key)
       \/ t # None /\ auth.jwks /\ t[1].kid = None /\ Fail(r, 401)
       \/ /\ t # None /\ auth.jwks /\ t[1].kid # None
          /\ lock[inst] = Free
          /\ IF t[1].kid[1] \in DOMAIN jwks[inst].keys
             THEN Verify(r, t[1], jwks[inst].keys[t[1].kid[1]])
             ELSE Goto(r, "key") /\ UNCHANGED <<locals, ctx, hook, since, verified>>
    /\ UNCHANGED <<steady, keys>>

is_stale(cache) == cache.fetched_at = Never \/ now - cache.fetched_at > Ttl

(* The write lock: fetch_jwks if the keys are old, with the lock held. *)
KeyMiss(r) ==
    LET inst == Plugin(r).instance IN
    /\ pc[r] = "key" /\ lock[inst] = Free
    /\ \/ /\ is_stale(jwks[inst])
          /\ lock' = [lock EXCEPT ![inst] = r]
          /\ Goto(r, "fetch")
          /\ UNCHANGED <<locals, ctx, hook, since, verified>>
       \/ /\ ~is_stale(jwks[inst])
          /\ LookAgain(r, jwks[inst])
          /\ UNCHANGED lock
    /\ UNCHANGED <<steady, jwks, fetched>>

(* The issuer's keys replace the cached ones. *)
FetchOk(r) ==
    LET inst == Plugin(r).instance
        cache == [keys |-> Keysets[issuer], fetched_at |-> now]
    IN
    /\ pc[r] = "fetch"
    /\ jwks' = [jwks EXCEPT ![inst] = cache]
    /\ fetched' = [fetched EXCEPT ![inst] = now]
    /\ lock' = [lock EXCEPT ![inst] = Free]
    /\ LookAgain(r, cache)
    /\ UNCHANGED steady

FetchFailsAsFetched(r) ==
    LET inst == Plugin(r).instance IN
    /\ pc[r] = "fetch"
    /\ jwks' = [jwks EXCEPT ![inst].fetched_at = now]
    /\ lock' = [lock EXCEPT ![inst] = Free]
    /\ LookAgain(r, jwks[inst])
    /\ UNCHANGED <<steady, fetched>>

(* "using stale cache if available" *)
FetchFails(r) ==
    LET inst == Plugin(r).instance IN
    /\ pc[r] = "fetch"
    /\ lock' = [lock EXCEPT ![inst] = Free]
    /\ LookAgain(r, jwks[inst])
    /\ UNCHANGED <<steady, jwks, fetched>>

----------------------------------------------------------------------------
(* Rate limits, the choice of a node and its breaker, and the error each   *)
(* becomes: RequestPath.                                                   *)
Govern(r) ==
    /\ pc[r] = "govern"
    /\ \/ Goto(r, "forward") /\ UNCHANGED <<locals, ctx, hook, since, verified>>
       \/ \E code \in {429, 502, 503} : Fail(r, code)
    /\ UNCHANGED <<steady, keys>>

strip_sensitive_headers(headers) == [n \in HeaderNames |-> IF n \in SensitiveHeaders THEN <<>> ELSE headers[n]]

BuildOutHeadersFirst(c) ==
    LET own == Insert(Insert(strip_sensitive_headers(NoHeaders), "x-trace-id", <<c.trace_id>>),
                      "x-forwarded-for", <<c.client_ip>>)
    IN [n \in HeaderNames |-> IF c.headers[n] # <<>> THEN c.headers[n] ELSE own[n]]

(* What the client and the plugins set gives way to the gate's own. *)
build_out_headers(c) ==
    Insert(Insert(Insert(strip_sensitive_headers(c.headers),
                         "x-trace-id", <<c.trace_id>>),
                  "x-forwarded-for", <<c.client_ip>>),
           "host", <<"upstream">>)

(* The handshake of a WebSocket is sent with the client's own headers. *)
UpgradeHeaders(r) ==
    Insert(IF route[r].ws_strip THEN strip_sensitive_headers(in[r].headers) ELSE in[r].headers,
           "host", <<"upstream">>)

Forward(r) ==
    /\ pc[r] = "forward"
    /\ Goto(r, "respond")
    /\ sent' = [sent EXCEPT ![r] = IF in[r].protocol # "http" THEN NoHeaders
                                   ELSE IF in[r].upgrade THEN UpgradeHeaders(r)
                                   ELSE build_out_headers(ctx[r])]
    /\ UNCHANGED <<in, info, route, chain, status, answer, ctx, hook, since, verified, steady, keys>>

(* finalize_response: the plugins rewrite the upstream's headers, then the *)
(* gate adds its own.                                                      *)
FinalHeaders(r, headers) ==
    Insert(execute_after_response(ctx[r], headers, chain[r]), "x-trace-id", <<ctx[r].trace_id>>)

(* The upstream answers or cannot be reached; a WebSocket gets its 101; a  *)
(* tunnel ends.                                                            *)
Respond(r) ==
    /\ pc[r] = "respond"
    /\ \/ in[r].protocol # "http" /\ Fail(r, 200)
       \/ in[r].protocol = "http" /\ in[r].upgrade /\ Fail(r, 101)
       \/ in[r].protocol = "http" /\ ~in[r].upgrade /\ Fail(r, 502)
       \/ /\ in[r].protocol = "http" /\ ~in[r].upgrade
          /\ LET headers == [NoHeaders EXCEPT !["x-trace-id"] = <<<<"upstream">>>>]
             IN Finish(r, 200, FinalHeaders(r, headers))
    /\ UNCHANGED <<steady, keys>>

(* The connection goes away, by an idle timeout, a reset or a shutdown, at *)
(* one of the awaits: the future and a lock it holds are dropped.          *)
Drop(r) ==
    /\ pc[r] \in {"body", "key", "fetch", "respond"}
    /\ Fail(r, Dropped)
    /\ lock' = [i \in Instances |-> IF lock[i] = r THEN Free ELSE lock[i]]
    /\ UNCHANGED <<steady, jwks, fetched>>

----------------------------------------------------------------------------
(* Around the requests. *)
Event == events < MaxEvents /\ events' = events + 1

(* An operator changes the business tables. *)
Edit ==
    /\ Event
    /\ \E c \in DOMAIN Configs : c # current /\ current' = c
    /\ UNCHANGED <<request, table, chains, generation, loading, since, matched, lists, keys, issuer, retired, now>>

SwapChainsKeepingKeys ==
    /\ Event /\ loading = 0 /\ Buildable(Configs[current].bindings)
    /\ loading' = current
    /\ generation' = generation + 1
    /\ chains' = Chains(current, generation + 1)
    /\ since' = [r \in Requests |-> IF pc[r] \in {"body", "handle", "preflight"} /\ route[r] # NoRoute
                                    THEN since[r] \cup {current} ELSE since[r]]
    /\ jwks' = [i \in Instances |-> IF i[1] = generation + 1 THEN jwks[<<generation, i[2]>>] ELSE jwks[i]]
    /\ UNCHANGED <<request, table, current, matched, lists, lock, fetched, issuer, retired, now>>

(* A poll: build_chains makes new instances of every plugin, changed or    *)
(* not, and set_route_chains puts them in force.  A reload whose chains    *)
(* cannot be built is skipped.                                             *)
SwapChains ==
    /\ Event /\ loading = 0 /\ Buildable(Configs[current].bindings)
    /\ loading' = current
    /\ generation' = generation + 1
    /\ chains' = Chains(current, generation + 1)
    /\ since' = [r \in Requests |-> IF pc[r] \in {"body", "handle", "preflight"} /\ route[r] # NoRoute
                                    THEN since[r] \cup {current} ELSE since[r]]
    /\ UNCHANGED <<request, table, current, matched, lists, keys, issuer, retired, now>>

(* load_with_bindings replaces the table. *)
SwapMatcher ==
    /\ loading # 0
    /\ table' = Table(loading)
    /\ matched' = loading
    /\ loading' = 0
    /\ UNCHANGED <<request, chains, generation, current, since, lists, keys, world>>

EditRows ==
    /\ Event
    /\ \E b \in Blacklists : b # rows /\ rows' = b
    /\ UNCHANGED <<request, config, blacklist, refreshed, keys, issuer, retired, now>>

(* refresh_blacklist_from_db and BlacklistMatcher::reload. *)
RefreshBlacklist ==
    /\ Event
    /\ blacklist' = {e \in rows : e.expires_at = Never \/ e.expires_at > now}
    /\ refreshed' = rows
    /\ UNCHANGED <<request, config, rows, keys, issuer, retired, now>>

RefreshFailsClears ==
    /\ Event
    /\ blacklist' = {}
    /\ UNCHANGED <<request, config, rows, refreshed, keys, issuer, retired, now>>

(* The list in use stays. *)
RefreshFails ==
    /\ Event
    /\ UNCHANGED <<request, config, lists, keys, issuer, retired, now>>

(* The issuer replaces its keys; history notes the generation in force. *)
Rotate ==
    /\ Event
    /\ issuer < Len(Keysets)
    /\ issuer' = issuer + 1
    /\ retired' = Append(retired, generation)
    /\ UNCHANGED <<request, config, lists, keys, now>>

Tick ==
    /\ Event
    /\ now' = now + 1
    /\ UNCHANGED <<request, config, lists, keys, issuer, retired>>

AllDone == (\A r \in Requests : pc[r] = "done") /\ UNCHANGED vars

Handler(r) ==
    \/ (\E q \in Kinds : Process(r, q)) \/ CollectBody(r) \/ Handle(r) \/ Preflight(r) \/ Hook(r) \/ AuthHook(r)
    \/ KeyMiss(r) \/ FetchOk(r) \/ FetchFails(r) \/ Govern(r) \/ Forward(r) \/ Respond(r) \/ Drop(r)

Environment ==
    \/ Edit \/ SwapChains \/ SwapMatcher \/ EditRows \/ RefreshBlacklist \/ RefreshFails
    \/ Rotate \/ Tick

Next == (\E r \in Requests : Handler(r)) \/ Environment \/ AllDone

Spec == Init /\ [][Next]_vars

----------------------------------------------------------------------------
(* The route of a request is the one it should get: of the routes that the *)
(* configuration in the matcher enables and that compile and match the     *)
(* whole request, headers included, the one of highest priority and        *)
(* smallest id, although headers are looked at only when the table asks.   *)
GetsBestRoute ==
    [][\A r \in Requests :
        pc[r] = "idle" /\ pc'[r] \in {"body", "handle"} /\ in'[r].protocol = "http" =>
            route'[r].id = BestRoute(Configs[matched].routes, "http", from_http_request(in'[r], TRUE))]_vars

(* An address that the last good refresh listed and that has not expired   *)
(* gets no further than the blacklist, on every protocol, also when later  *)
(* refreshes fail; one whose entries have all expired is not refused.      *)
Listed(ip) == \E e \in refreshed : ip \in e.net /\ (e.expires_at = Never \/ e.expires_at > now)

BlacklistHolds ==
    [][\A r \in Requests :
        pc[r] = "handle" /\ pc'[r] # "handle" =>
            (status'[r] = 403) = Listed(resolve_real_ip(in[r]))]_vars

(* The gate's own headers win, whatever the client, the upstream or the    *)
(* plugins put into them: the upstream is told the address the request was *)
(* judged by (blacklist, plugins, limits), the gate's trace id and no      *)
(* credentials, and a forwarded answer has the same trace id.  The address *)
(* is the peer's own, or one that only trusted proxies passed on.          *)
OwnHeadersWin ==
    [][\A r \in Requests :
        pc[r] = "respond" /\ pc'[r] = "done" /\ in[r].protocol = "http" /\ ~in[r].upgrade =>
            /\ sent[r]["x-forwarded-for"] = <<<<ctx[r].client_ip>>>>
            /\ sent[r]["x-trace-id"] = <<<<TraceId(in[r])>>>>
            /\ sent[r]["authorization"] = <<>>
            /\ ctx[r].client_ip # in[r].socket =>
                  in[r].socket \in Trusted /\ ctx[r].client_ip \notin Trusted
            /\ status'[r] = 200 => answer'[r]["x-trace-id"] = <<<<TraceId(in[r])>>>>]_vars

Guards(c, id) ==
    \E b \in Configs[c].bindings :
        b.enabled /\ b.route_id = id /\ b.plugin = "auth" /\ b.config.require_token

(* A request is forwarded on a route to which every configuration in force *)
(* since its match binds the auth plugin only if its token was verified,   *)
(* however matching, reloads and the collection of its body interleave.    *)
GuardedByChain ==
    /\ TypeOK
    /\ \A r \in Requests :
        pc[r] \in {"forward", "respond"} /\ in[r].protocol = "http"
        /\ (\A c \in since[r] : Guards(c, route[r].id)) => verified[r] # NoKey

(* A key the issuer has dropped is not accepted by a chain built after     *)
(* that: a cached key has no expiry of its own, but every reload starts    *)
(* with an empty cache.                                                    *)
RetiredKeyForgotten ==
    \A r \in Requests :
        verified[r] # NoKey /\ verified[r].key \in UNION {Range(Keysets[i]) : i \in DOMAIN Keysets} =>
            \E i \in DOMAIN Keysets :
                /\ verified[r].key \in Range(Keysets[i])
                /\ i >= issuer \/ verified[r].instance[1] <= retired[i]

(* A token is refused for an unknown key without asking the issuer only    *)
(* within the lifetime of an answer of the issuer; a fetch that failed     *)
(* does not count as one.                                                  *)
RefusedOnFreshKeys ==
    [][\A r \in Requests :
        pc[r] = "key" /\ pc'[r] = "done" /\ status'[r] = 401
        /\ Bearer(r)[1].kid[1] \notin DOMAIN jwks[Plugin(r).instance].keys =>
            LET at == fetched[Plugin(r).instance] IN at # Never /\ now - at <= Ttl]_vars
============================================================================
