------------------------------ MODULE Routing ------------------------------
(***************************************************************************)
(* RouteMatcher (conrogate-gateway/src/route.rs): how a list of routes and *)
(* bindings becomes the table a gate matches against, and how a request is *)
(* matched.  A text (path, host, header or query value) is a sequence of   *)
(* atoms: path segments, host labels, words.  A regular expression is what *)
(* the code tells apart of it: whether it has a back reference, the forms  *)
(* has_redos_risk looks for, whether it parses, and the texts it matches.  *)
(***************************************************************************)
EXTENDS Integers, Sequences, FiniteSets, FiniteSetsExt, SequencesExt

NoRoute == [id |-> 0]
None == <<>>                      \* an Option is a sequence of at most one
Wildcard == "*"

ProtocolIds == {"http", "tcp_tunnel"}
MatchOps == {"exact", "prefix", "regex", "not_empty"}

(* The doubled quantifiers are looked for only in a pattern with "(.+". *)
has_redos_risk(p) == p.backref \/ (p.open_plus /\ p.nested)

compile_safe(p) == ~has_redos_risk(p) /\ p.parses

Matchers(c) == {c.path} \cup Range(c.headers) \cup Range(c.query)

validate_regex_patterns(c) ==
    \A m \in Matchers(c) : m.op = "regex" => compile_safe(m.regex)

Satisfies(m, text) ==
    CASE m.op = "exact" -> text = m.value
      [] m.op = "prefix" -> IsPrefix(m.value, text)
      [] m.op = "regex" -> compile_safe(m.regex) /\ text \in m.regex.lang
      [] m.op = "not_empty" -> text # <<>>

match_path(m, path) == Satisfies(m, path)

(* "*.example.com" stands for one label, not for none and not for two. *)
match_host(pattern, host) ==
    \/ pattern = host
    \/ /\ pattern # <<>> /\ Head(pattern) = Wildcard
       /\ host # <<>> /\ Tail(host) = Tail(pattern)

(* match_header and match_query: some occurrence of the key satisfies it. *)
match_header(m, pairs) == \E p \in pairs : p.key = m.key /\ Satisfies(m, p.value)

matches(c, info) ==
    /\ match_path(c.path, info.path)
    /\ c.methods # None => info.method # None /\ info.method[1] \in c.methods[1]
    /\ c.host # None => info.host # None /\ match_host(c.host[1], info.host[1])
    /\ \A m \in Range(c.headers) : match_header(m, info.headers)
    /\ \A m \in Range(c.query) : match_header(m, info.query)

----------------------------------------------------------------------------
(* RouteEntry and its RouteSnapshot. *)
Entry(dto, bindings, body_required) ==
    [id |-> dto.id, priority |-> dto.priority, conditions |-> dto.conditions,
     ws_strip |-> dto.ws_strip,
     requires_body |-> \E b \in bindings :
                          b.enabled /\ b.route_id = dto.id /\ b.plugin \in body_required]

ComesFirstOldest(a, b) == a.priority > b.priority \/ (a.priority = b.priority /\ a.id > b.id)

(* The order of a protocol's entries. *)
ComesFirst(a, b) == a.priority > b.priority \/ (a.priority = b.priority /\ a.id < b.id)

Served(dto) == dto.enabled /\ validate_regex_patterns(dto.conditions)

load_with_bindings(dtos, bindings, body_required) ==
    LET entries(p) == SetToSortSeq({Entry(d, bindings, body_required) :
                                       d \in {x \in dtos : Served(x) /\ x.protocol = p}},
                                   ComesFirst)
    IN [p \in ProtocolIds |->
           [entries |-> entries(p),
            needs_headers |-> \E e \in Range(entries(p)) : e.conditions.headers # <<>>]]

IsEmpty(table) == \A p \in ProtocolIds : table[p].entries = <<>>

(* The first entry that matches. *)
match_route(table, protocol, info) ==
    LET es == table[protocol].entries
        hits == {i \in DOMAIN es : matches(es[i].conditions, info)}
    IN IF hits = {} THEN NoRoute ELSE es[Min(hits)]

Fields(headers) ==
    UNION {{[key |-> n, value |-> headers[n][i]] : i \in DOMAIN headers[n]} : n \in DOMAIN headers}

(* The request headers are put in the match information only when a route  *)
(* of the table asks for one.                                              *)
from_http_request(request, include_headers) ==
    [path |-> request.path, method |-> <<request.method>>, host |-> request.host,
     query |-> request.query,
     headers |-> IF include_headers THEN Fields(request.headers) ELSE {}]

(* from_tunnel: a tunnel is matched by its listening address and its SNI. *)
from_tunnel(request) ==
    [path |-> request.path, method |-> None, host |-> request.host, query |-> {}, headers |-> {}]

(* One snapshot of the table decides on the headers and is matched. *)
match_http_request(table, request) ==
    LET info == from_http_request(request, table["http"].needs_headers)
    IN [route |-> match_route(table, "http", info), info |-> info]

----------------------------------------------------------------------------
(* What the table promises, said without it: of the routes that can be     *)
(* served and match, one that no other one outranks; of equals the one     *)
(* with the smallest id.                                                   *)
BestRoute(dtos, protocol, info) ==
    LET fits == {d \in dtos : /\ d.enabled /\ d.protocol = protocol
                              /\ \A m \in Matchers(d.conditions) :
                                    m.op = "regex" => compile_safe(m.regex)
                              /\ matches(d.conditions, info)}
        top == {d \in fits : \A e \in fits : e.priority <= d.priority}
    IN IF fits = {} THEN NoRoute.id ELSE Min({d.id : d \in top})
============================================================================
