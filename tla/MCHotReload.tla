---------------------------- MODULE MCHotReload ----------------------------
EXTENDS HotReload

r1 == 1
r2 == 2
u1 == 11
u2 == 12

MCRoutes == {r1, r2}
MCUpstreams == {u1, u2}

(* One route, so that another can be created, or two. *)
MCInitialRoutes ==
    {[r \in MCRoutes |-> IF r = r1 THEN u1 ELSE v] : v \in {NoRoute, u2}}
============================================================================
