------------------------------ MODULE Plugins ------------------------------
(***************************************************************************)
(* The plugins the gate ships (conrogate-plugins): what their hooks do to  *)
(* the context of a request, and how bindings become chains                *)
(* (framework/loader.rs).  A header map is a function from header names to *)
(* the sequence of values under the name; a value is a text as in Routing, *)
(* so that "Bearer t" is <<"Bearer", t>> and an X-Forwarded-For chain the  *)
(* sequence of its addresses.  An address range is the set of addresses in *)
(* it.  What of authentication needs the shared key cache is in Admission. *)
(***************************************************************************)
EXTENDS Routing

CONSTANT
    Addresses  \* texts that parse as IP addresses

SensitiveHeaders == {"authorization", "x-forwarded-for", "x-trace-id"}
ControlCharacter == "\\n"
AllowOrigin == "access-control-allow-origin"
HeaderNames == SensitiveHeaders \cup {"host", "origin", "x-tag", AllowOrigin}

NoHeaders == [n \in HeaderNames |-> <<>>]

Insert(headers, n, v) == [headers EXCEPT ![n] = <<v>>]

(* HeaderMap::get: the first value. *)
Get(headers, n) == IF headers[n] = <<>> THEN None ELSE <<Head(headers[n])>>

(* PluginOutcome. *)
Continue == [code |-> 0]
Terminate(code) == [code |-> code]

----------------------------------------------------------------------------
(* header_rewrite *)

(* Placeholders such as $client_ip stand for values of the request. *)
resolve_value(raw, ph) == [i \in DOMAIN raw |-> IF raw[i] \in DOMAIN ph THEN ph[raw[i]] ELSE raw[i]]

(* apply_section: remove, then set, then add. *)
apply_section(section, headers, ph) ==
    [n \in HeaderNames |->
        LET kept == IF n \in section.remove THEN <<>> ELSE headers[n]
            set == IF n \in DOMAIN section.set THEN <<resolve_value(section.set[n], ph)>> ELSE kept
        IN IF n \in DOMAIN section.add THEN Append(set, resolve_value(section.add[n], ph)) ELSE set]

(* Names that are no header names and values with control characters. *)
validate_section(section) ==
    /\ section.remove \cup DOMAIN section.set \cup DOMAIN section.add \subseteq HeaderNames
    /\ \A v \in Range(section.set) \cup Range(section.add) : ControlCharacter \notin Range(v)

PlaceholderCtx(ctx) == [x \in {"$client_ip", "$trace_id"} |->
                           IF x = "$client_ip" THEN ctx.client_ip ELSE ctx.trace_id]

----------------------------------------------------------------------------
(* cors *)

(* "*" if it is allowed, else the request's origin if that is, else none. *)
resolve_origin(config, origin) ==
    IF <<"*">> \in config.allow_origins THEN <<<<"*">>>>
    ELSE IF origin # None /\ origin[1] \in config.allow_origins THEN origin
    ELSE None

AllowOriginIn(config, request_headers, headers) ==
    LET origin == resolve_origin(config, Get(request_headers, "origin"))
    IN IF origin = None THEN headers ELSE Insert(headers, AllowOrigin, origin[1])

(* A preflight request is answered at once. *)
cors_before_request(config, ctx) ==
    IF ctx.method = "OPTIONS"
    THEN [outcome |-> Terminate(204),
          ctx |-> [ctx EXCEPT !.response_headers = AllowOriginIn(config, ctx.headers, @)]]
    ELSE [outcome |-> Continue, ctx |-> ctx]

----------------------------------------------------------------------------
(* ip_allow_deny: an address that does not parse passes; deny goes before  *)
(* allow; without an allow list everyone else passes.                      *)
Denied(config, ip) ==
    /\ ip \in Addresses
    /\ \/ \E net \in config.deny : ip \in net
       \/ config.allow # {} /\ ~\E net \in config.allow : ip \in net

(* A range that does not parse is the empty set. *)
validate_cfg(config) == config.allow \cup config.deny # {} /\ {} \notin config.allow \cup config.deny

----------------------------------------------------------------------------
(* auth: a token can be required only if there is something to verify it   *)
(* with.                                                                   *)
auth_validate(config) == config.require_token => config.jwks \/ config.key # "none"

----------------------------------------------------------------------------
protocols(plugin) == IF plugin = "ip_allow_deny" THEN {"http", "tcp_tunnel"} ELSE {"http"}

(* The hook of a plugin other than auth, for a protocol it supports:       *)
(* before_request or, for a tunnel, on_connect.                            *)
before_request(plugin, config, ctx) ==
    CASE plugin = "ip_allow_deny" ->
            [outcome |-> IF Denied(config, ctx.client_ip) THEN Terminate(403) ELSE Continue,
             ctx |-> ctx]
      [] plugin = "cors" -> cors_before_request(config, ctx)
      [] plugin = "header_rewrite" ->
            [outcome |-> Continue,
             ctx |-> [ctx EXCEPT !.headers = apply_section(config.request, @, PlaceholderCtx(ctx))]]

after_response(plugin, config, ctx, headers) ==
    CASE plugin = "cors" -> AllowOriginIn(config, ctx.headers, headers)
      [] plugin = "header_rewrite" -> apply_section(config.response, headers, PlaceholderCtx(ctx))
      [] OTHER -> headers

(* execute_after_response: in the order of the chain. *)
execute_after_response(ctx, headers, chain) ==
    FoldLeft(LAMBDA h, b : IF ctx.protocol \in protocols(b.plugin)
                           THEN after_response(b.plugin, b.config, ctx, h) ELSE h,
             headers, chain)

----------------------------------------------------------------------------
Registered == {"auth", "cors", "header_rewrite", "ip_allow_deny"}

(* Plugin::configured accepts the binding's config. *)
Accepts(binding) ==
    CASE binding.plugin = "auth" -> auth_validate(binding.config)
      [] binding.plugin = "ip_allow_deny" -> validate_cfg(binding.config)
      [] binding.plugin = "header_rewrite" ->
            validate_section(binding.config.request) /\ validate_section(binding.config.response)
      [] OTHER -> TRUE

RunningAccepted(bindings) == {b \in bindings : b.enabled /\ b.plugin \in Registered /\ Accepts(b)}

Running(bindings) == {b \in bindings : b.enabled /\ b.plugin \in Registered}

(* build_chains: the chain of every route with bindings, by their order;   *)
(* one config that is not accepted and there are no chains at all.  Each   *)
(* instance is new, which `generation` stands for.                         *)
Buildable(bindings) == \A b \in Running(bindings) : Accepts(b)

build_chain(bindings, id, generation) ==
    LET own == {b \in Running(bindings) : b.route_id = id}
        sorted == SetToSortSeq(own, LAMBDA a, b : a.order < b.order)
    IN [i \in DOMAIN sorted |-> [plugin |-> sorted[i].plugin, config |-> sorted[i].config,
                                 instance |-> <<generation, id>>]]

build_chains(bindings, generation) ==
    [id \in {b.route_id : b \in Running(bindings)} |-> build_chain(bindings, id, generation)]

(* get_route_chain *)
get_route_chain(chains, id) == IF id \in DOMAIN chains THEN chains[id] ELSE <<>>
============================================================================
