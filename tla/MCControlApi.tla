--------------------------- MODULE MCControlApi ---------------------------
EXTENDS ControlApi

CONSTANTS c1, c2

MCClients == {c1, c2}
ClientSymmetry == Permutations(MCClients)

Ann == <<"ann", "s1", "admin">>
Bob == <<"bob", "s2", "operator">>
Eve == <<"eve", "s3", "viewer">>
Plain == <<"s4">>

MCPresented == {Ann, Bob, Eve, Plain}

(* One writer for the configuration; for the rest, several and no tokens.  *)
MCSetups ==
    {[tokens |-> {Bob, Eve}, scope |-> "configuration"],
     [tokens |-> {Ann, Bob, Plain}, scope |-> "operations"],
     [tokens |-> {}, scope |-> "operations"]}

MCRouteNames == {"a", "b", "c"}
MCUpstreamNames == {"u", "w"}
MCNodeLists == {"y"}
MCPlugins == {"auth"}
MCConfigs == {"p"}
MCGates == {"g"}

Traced == [traced |-> TRUE]
MCBatches == {<<Traced, Traced>>, <<[traced |-> FALSE], Traced>>}

(* A route on one of two upstreams and a disabled one on the other; a      *)
(* single route without plugins.                                           *)
MCInitialTables ==
    {[routes |-> <<[name |-> "a", upstream |-> 1, enabled |-> TRUE],
                   [name |-> "b", upstream |-> 2, enabled |-> FALSE]>>,
      upstreams |-> <<[name |-> "u", nodes |-> "x"], [name |-> "w", nodes |-> "x"]>>,
      bindings |-> {[route |-> 1, plugin |-> "auth", config |-> "p", enabled |-> TRUE]},
      last_route |-> 2, last_upstream |-> 2],
     [routes |-> <<[name |-> "a", upstream |-> 1, enabled |-> TRUE]>>,
      upstreams |-> <<[name |-> "u", nodes |-> "x"]>>,
      bindings |-> {}, last_route |-> 1, last_upstream |-> 1]}
============================================================================
