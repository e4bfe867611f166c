---------------------------- MODULE MCAdmission ----------------------------
EXTENDS Admission, TLC

CONSTANTS r1, r2

MCRequests == {r1, r2}
RequestSymmetry == Permutations(MCRequests)
MCAddresses == {"proxy", "alice", "bob"}
MCTrusted == {"proxy"}

NoRegex == [backref |-> FALSE, open_plus |-> FALSE, nested |-> FALSE, parses |-> FALSE, lang |-> {}]
Risky == [backref |-> FALSE, open_plus |-> TRUE, nested |-> TRUE, parses |-> TRUE, lang |-> {<<"a">>}]
Safe == [NoRegex EXCEPT !.parses = TRUE, !.lang = {<<"a">>}]
Prefix(p) == [op |-> "prefix", value |-> p, regex |-> NoRegex]
Regex(p) == [op |-> "regex", value |-> <<>>, regex |-> p]
Tagged == [key |-> "x-tag", op |-> "not_empty", value |-> <<>>, regex |-> NoRegex]

Route(id, priority, path) ==
    [id |-> id, priority |-> priority, enabled |-> TRUE, protocol |-> "http", ws_strip |-> TRUE,
     conditions |-> [path |-> path, methods |-> None, host |-> None, headers |-> <<>>, query |-> <<>>]]
OnTag(d) == [d EXCEPT !.conditions.headers = <<Tagged>>]
Tunnel(d) == [d EXCEPT !.protocol = "tcp_tunnel"]

Binding(id, plugin, order, cfg) ==
    [route_id |-> id, plugin |-> plugin, order |-> order, enabled |-> TRUE, config |-> cfg]
NoSection == [remove |-> {}, set |-> [n \in {} |-> <<>>], add |-> [n \in {} |-> <<>>]]
Jwks == [require_token |-> TRUE, jwks |-> TRUE, key |-> "none"]
Static == [require_token |-> FALSE, jwks |-> FALSE, key |-> "static"]
Rewrite == [request |-> [NoSection EXCEPT !.set = [n \in {"x-forwarded-for", "x-tag"} |-> <<"via", "$client_ip">>],
                                          !.add = [n \in {"authorization"} |-> <<"Basic", "gate">>]],
            response |-> [NoSection EXCEPT !.set = [n \in {"x-trace-id"} |-> <<"plugin">>]]]
Cors == [allow_origins |-> {<<"site">>}]
Inside == [allow |-> {{"alice", "proxy"}}, deny |-> {}]

(* Routes 1 and 2 are equals, 3 has a pattern that is refused, 4 is a      *)
(* tunnel, 5 asks for a header and is in the second configuration only.    *)
(* The third cannot be built.                                              *)
Shared == {Route(1, 1, Prefix(<<"a">>)), Route(2, 1, Regex(Safe)), Route(3, 9, Regex(Risky)),
           Tunnel(Route(4, 1, Prefix(<<"port">>)))}
Guarded == {Binding(1, "auth", 1, Jwks), Binding(1, "header_rewrite", 2, Rewrite),
            Binding(4, "auth", 1, Jwks), Binding(4, "ip_allow_deny", 2, Inside)}
MCConfigs ==
    <<[routes |-> Shared, bindings |-> Guarded],
      [routes |-> Shared \cup {OnTag(Route(5, 2, Prefix(<<>>)))},
       bindings |-> Guarded \cup {Binding(5, "auth", 1, Static), Binding(5, "cors", 2, Cors)}],
      [routes |-> Shared,
       bindings |-> {IF b.plugin = "auth" THEN [b EXCEPT !.config.jwks = FALSE] ELSE b : b \in Guarded}]>>

MCBlacklists == {{}, {[net |-> {"bob", "proxy"}, expires_at |-> Never], [net |-> {"alice"}, expires_at |-> 1]}}
MCKeysets == <<[k \in {"k1"} |-> "old"], [k \in {"k1", "k2"} |-> IF k = "k1" THEN "new" ELSE "other"]>>
Bearing(kid, key) == [kid |-> kid, key |-> key, claims_valid |-> TRUE]
MCTokens == [t \in {"t1", "t2", "t3"} |->
                CASE t = "t1" -> Bearing(<<"k1">>, "old")
                  [] t = "t2" -> Bearing(<<"k2">>, "other")
                  [] t = "t3" -> Bearing(None, "static")]

Kind(method, path, socket, headers) ==
    [protocol |-> "http", method |-> method, path |-> path, host |-> None, query |-> {},
     headers |-> headers, socket |-> socket, length |-> "fits", upgrade |-> FALSE]
With(n, v) == [NoHeaders EXCEPT ![n] = <<v>>]
Token(t) == With("authorization", <<"Bearer", t>>)
MCKinds ==
    {Kind("GET", <<"readyz">>, "bob", NoHeaders),
     Kind("GET", <<"a">>, "proxy", [Token("t1") EXCEPT !["x-forwarded-for"] = <<<<"bob", "alice", "proxy">>>>,
                                                       !["x-trace-id"] = <<<<"mine">>>>]),
     Kind("GET", <<"a">>, "alice", [Token("t2") EXCEPT !["x-forwarded-for"] = <<<<"bob">>>>]),
     Kind("GET", <<"a">>, "alice", NoHeaders),
     Kind("OPTIONS", <<"b">>, "alice", [With("x-tag", <<"x">>) EXCEPT !["origin"] = <<<<"site">>>>]),
     Kind("GET", <<"a">>, "alice", [Token("t3") EXCEPT !["x-tag"] = <<<<"x">>>>]),
     [Kind("POST", <<"b">>, "bob", With("x-tag", <<"x">>)) EXCEPT !.length = "over"],
     [Kind("GET", <<"a">>, "alice", Token("t1")) EXCEPT !.upgrade = TRUE],
     [Kind("CONNECT", <<"port">>, "alice", NoHeaders) EXCEPT !.protocol = "tcp_tunnel"]}
============================================================================
