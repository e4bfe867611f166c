----------------------------- MODULE MCLimiter -----------------------------
EXTENDS Governor, TLC

CONSTANTS g, r, q, i, j, c1, c2

(* The global key, two routes, and a client on each. *)
MCKeys == {g, r, q, i, j}
MCLevel == [k \in MCKeys |-> CASE k = g -> "global" [] k \in {r, q} -> "route" [] OTHER -> "ip"]
MCCalls == {<<g, r, i>>, <<g, q, j>>}
MCCallers == {c1, c2}
Swapped == r :> q @@ q :> r @@ i :> j @@ j :> i
Symmetries == {p @@ s : p \in Permutations(MCCallers), s \in {Swapped, [k \in DOMAIN Swapped |-> k]}}
MCLimitedLevels == {{"ip"}, {"global", "ip"}}
EveryAlgorithm == AllAlgorithms
============================================================================
