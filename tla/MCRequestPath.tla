--------------------------- MODULE MCRequestPath ---------------------------
EXTENDS RequestPath, TLC

CONSTANTS r1, r2, n1, n2

TwoRequests == {r1, r2}
MCNodes == {n1, n2}
TwoSymmetry == Permutations(TwoRequests)

Least(s) == [algorithm |-> "least_connections", enabled |-> s]
Other(s) == [algorithm |-> "other", enabled |-> s]

(* A node is removed and comes back, the algorithm changes, the nodes are  *)
(* all disabled, the upstream is deleted.                                  *)
ReloadedUpstreams == {Least({n1, n2}), Least({n1}), Other({n1}), Least({}), Gone}
EveryKind == AllKinds
============================================================================
