-------------------------- MODULE HotReloadProofs --------------------------
(***************************************************************************)
(* Proofs about the business tables and the gate that loads them, for any  *)
(* routes, upstreams, page size, edits and failed queries: an upstream in  *)
(* use is not deleted, and no route is in service without the plugin chain *)
(* it was loaded with.                                                     *)
(***************************************************************************)
EXTENDS HotReload, TLAPS

(* Between the check of delete_upstream and the deletion only routes that  *)
(* were written in this window have the upstream.                          *)
TablesInv ==
    /\ TablesTypeOK
    /\ UsedUpstreamsKept
    /\ \A u \in Upstreams :
        op[u] = "checked" => \A r \in Routes : route[r] = u => r \in unguarded

(* The initial tables satisfy the invariant. *)
LEMMA TablesStart == TablesInit => TablesInv
<1> SUFFICES ASSUME TablesInit PROVE TablesInv
  OBVIOUS
<1>1. route \in [Routes -> Upstreams \cup {NoRoute}]
  BY TablesAssumption DEF TablesInit
<1>2. TablesTypeOK
  BY <1>1, TablesAssumption DEF TablesInit, TablesTypeOK
<1>3. UsedUpstreamsKept
  BY <1>1 DEF TablesInit, UsedUpstreamsKept
<1> QED BY <1>1, <1>2, <1>3 DEF TablesInit, TablesInv

(* A route is written with an upstream that is live and not being deleted, *)
(* or is noted.                                                            *)
LEMMA WriteRouteKeeps ==
    ASSUME TablesInv, NEW r \in Routes, NEW u \in Upstreams, WriteRoute(r, u),
           UNCHANGED <<upstream, op>>
    PROVE  /\ route' \in [Routes -> Upstreams \cup {NoRoute}] /\ unguarded' \in SUBSET Routes
           /\ UsedUpstreamsKept'
           /\ \A v \in Upstreams :
                op'[v] = "checked" => \A q \in Routes : route'[q] = v => q \in unguarded'
<1>1. /\ route \in [Routes -> Upstreams \cup {NoRoute}]
      /\ unguarded \in SUBSET Routes
      /\ \A q \in Routes : route'[q] = IF q = r THEN u ELSE route[q]
      /\ route' \in [Routes -> Upstreams \cup {NoRoute}]
  BY DEF TablesInv, TablesTypeOK, WriteRoute
<1>2. CASE upstream[u] = "live" /\ op[u] # "checked"
  <2>1. unguarded' = unguarded \ {r}
    BY <1>2 DEF WriteRoute
  <2> QED BY <1>1, <1>2, <2>1 DEF TablesInv, UsedUpstreamsKept
<1>3. CASE ~(upstream[u] = "live" /\ op[u] # "checked")
  <2>1. unguarded' = unguarded \cup {r}
    BY <1>3 DEF WriteRoute
  <2> QED BY <1>1, <2>1 DEF TablesInv, UsedUpstreamsKept
<1> QED BY <1>2, <1>3

(* Every statement of an operator's request keeps the invariant. *)
LEMMA TablesStep ==
    ASSUME TablesInv, Operate
    PROVE  TablesInv'
<1> USE DEF TablesTypeOK
<1>0. ASSUME NEW x \in Routes \cup Upstreams, Edits(x)
      PROVE  edits' \in 0..MaxEdits /\ touched' \in SUBSET (Routes \cup Upstreams)
  BY <1>0, TablesAssumption DEF Edits, TablesInv
<1>1. ASSUME NEW r \in Routes, DeleteRoute(r) PROVE TablesInv'
  BY <1>0, <1>1, TablesAssumption DEF DeleteRoute, TablesInv, UsedUpstreamsKept
<1>2. ASSUME NEW r \in Routes, NEW u \in Upstreams, CreateRoute(r, u) \/ UpdateRoute(r, u)
      PROVE  TablesInv'
  <2>1. WriteRoute(r, u) /\ UNCHANGED <<binding, upstream, nodes, op>> /\ Edits(r)
    BY <1>2 DEF CreateRoute, UpdateRoute
  <2>2. used' \in SUBSET Routes
    BY <1>2 DEF CreateRoute, UpdateRoute, TablesInv
  <2>3. TablesTypeOK'
    BY <1>0, <2>1, <2>2, WriteRouteKeeps DEF TablesInv
  <2> QED BY <2>1, <2>3, WriteRouteKeeps DEF TablesInv
<1>3. ASSUME NEW r \in Routes, NEW b \in {"none", "valid", "invalid"}, SetBinding(r, b)
      PROVE  TablesInv'
  BY <1>0, <1>3 DEF SetBinding, TablesInv, UsedUpstreamsKept
<1>4. ASSUME NEW u \in Upstreams, CreateUpstream(u) PROVE TablesInv'
  BY <1>0, <1>4 DEF CreateUpstream, TablesInv, UsedUpstreamsKept
<1>5. ASSUME NEW u \in Upstreams, ClearNodes(u) PROVE TablesInv'
  BY <1>0, <1>5 DEF ClearNodes, TablesInv, UsedUpstreamsKept
<1>6. ASSUME NEW u \in Upstreams, InsertNodes(u) PROVE TablesInv'
  BY <1>6 DEF InsertNodes, TablesInv, UsedUpstreamsKept
<1>7. ASSUME NEW u \in Upstreams, CheckUpstream(u) PROVE TablesInv'
  BY <1>0, <1>7 DEF CheckUpstream, TablesInv, UsedUpstreamsKept
<1>8. ASSUME NEW u \in Upstreams, DeleteUpstreamRow(u) PROVE TablesInv'
  <2>1. TablesTypeOK'
    BY <1>8 DEF DeleteUpstreamRow, TablesInv
  <2>2. UsedUpstreamsKept'
    BY <1>8 DEF DeleteUpstreamRow, TablesInv, UsedUpstreamsKept
  <2> QED BY <1>8, <2>1, <2>2 DEF DeleteUpstreamRow, TablesInv
<1>9. ASSUME NEW u \in Upstreams, DeleteNodes(u) PROVE TablesInv'
  BY <1>9 DEF DeleteNodes, TablesInv, UsedUpstreamsKept
<1>10. ASSUME NEW u \in Upstreams, Abandon(u) PROVE TablesInv'
  BY <1>10 DEF Abandon, TablesInv, UsedUpstreamsKept
<1> QED BY <1>1, <1>2, <1>3, <1>4, <1>5, <1>6, <1>7, <1>8, <1>9, <1>10 DEF Operate

(* A gate writes no table. *)
LEMMA TablesNext == TablesInv /\ [Next]_vars => TablesInv'
<1> SUFFICES ASSUME TablesInv, [Next]_vars PROVE TablesInv'
  OBVIOUS
<1>1. ASSUME UNCHANGED tables PROVE TablesInv'
  BY <1>1 DEF tables, TablesInv, TablesTypeOK, UsedUpstreamsKept
<1>2. CASE Control
  BY <1>2, TablesStep DEF Control
<1>3. ASSUME Gate PROVE UNCHANGED tables
  BY <1>3 DEF Gate, Load, Poll, ReadRoutes, ReadUpstreams, Count, PageRoutes, ReadNodes,
       ReadBindings, Start, BuildFails, SwapChains, SwapMatcher, SwapSelector, ReloadFails,
       InitialReadFails
<1> QED BY <1>1, <1>2, <1>3 DEF Next, vars

(* delete_upstream never takes an upstream from a route that was given it  *)
(* while it was there and not being deleted, whatever requests interleave  *)
(* and whichever statements fail.                                          *)
THEOREM UsedUpstreamsAlwaysKept == Spec => []UsedUpstreamsKept
<1>1. Init => TablesInv
  BY TablesStart DEF Init
<1>2. TablesInv => UsedUpstreamsKept
  BY DEF TablesInv
<1> QED BY <1>1, <1>2, TablesNext, PTL DEF Spec

----------------------------------------------------------------------------
(* The chains in use while the routes are about to be swapped are those of *)
(* the load; before the gate is up no reload has happened.                 *)
ChainsInv ==
    /\ read_bindings \in BindingViews
    /\ gpc = "matcher" => up /\ chains = read_bindings
    /\ ~up => ~reloaded
    /\ ServedWithChain

(* A step of a load that swaps nothing: it neither begins nor ends in the  *)
(* middle of the swaps.                                                    *)
Quiet ==
    /\ UNCHANGED <<matcher, bound, chains, reloaded, mode>>
    /\ gpc # "matcher" /\ gpc' # "matcher"
    /\ read_bindings' \in BindingViews
    /\ \/ UNCHANGED <<up, clean>>
       \/ ~up /\ ~clean'

(* Such a step keeps routes and chains together. *)
LEMMA QuietKeeps == ChainsInv /\ Quiet => ChainsInv'
  BY DEF ChainsInv, Quiet, ServedWithChain, Chained

(* Every query of a load, done or failed, is such a step. *)
LEMMA LoadQuiet ==
    ASSUME ChainsInv, TablesInv,
           \/ Poll \/ ReadRoutes \/ ReadUpstreams
           \/ Count(LiveRoutes, "routes", "route_page") \/ PageRoutes
           \/ Count(LiveUpstreams, "upstreams", "upstream_page")
           \/ \E u \in Upstreams : ReadNodes(u)
           \/ \E r \in Routes : ReadBindings(r)
           \/ BuildFails \/ ReloadFails \/ InitialReadFails
    PROVE  Quiet
<1> USE DEF Quiet, runtime, loaded, paging
<1>0. read_bindings \in BindingViews /\ NoBindings \in BindingViews /\ binding \in BindingViews
  BY DEF ChainsInv, TablesInv, TablesTypeOK, BindingViews, NoBindings
<1>1. CASE Poll
  BY <1>0, <1>1 DEF Poll
<1>2. CASE ReadRoutes
  BY <1>0, <1>2 DEF ReadRoutes
<1>3. CASE ReadUpstreams
  BY <1>0, <1>3 DEF ReadUpstreams, ReadRows, NodesOf, Bindings
<1>4. ASSUME NEW rows, Count(rows, "routes", "route_page")
             \/ Count(rows, "upstreams", "upstream_page")
      PROVE  Quiet
  BY <1>0, <1>4 DEF Count
<1>5. CASE PageRoutes
  BY <1>0, <1>5 DEF PageRoutes
<1>6. ASSUME NEW u \in Upstreams, ReadNodes(u) PROVE Quiet
  BY <1>0, <1>6 DEF ReadNodes, NodesOf, Bindings
<1>7. ASSUME NEW r \in Routes, ReadBindings(r) PROVE Quiet
  <2>1. read_bindings' \in BindingViews
    BY <1>0, <1>7 DEF ReadBindings, BindingViews
  <2> QED BY <1>7, <2>1 DEF ReadBindings
<1>8. CASE BuildFails
  BY <1>0, <1>8 DEF BuildFails, EndLoad
<1>9. CASE ReloadFails
  BY <1>0, <1>9 DEF ReloadFails, EndLoad, Reading
<1>10. CASE InitialReadFails
  BY <1>0, <1>10 DEF InitialReadFails, EndLoad, Bindings, Reading
<1>11. CASE Count(LiveRoutes, "routes", "route_page")
            \/ Count(LiveUpstreams, "upstreams", "upstream_page")
  BY <1>4, <1>11
<1> QED BY <1>1, <1>2, <1>3, <1>5, <1>6, <1>7, <1>8, <1>9, <1>10, <1>11

(* The swaps and everything else keep routes and chains together. *)
LEMMA ChainsNext == ChainsInv /\ TablesInv /\ [Next]_vars => ChainsInv'
<1> SUFFICES ASSUME ChainsInv, TablesInv, [Next]_vars PROVE ChainsInv'
  OBVIOUS
<1>0. NoBindings \in BindingViews
  BY DEF BindingViews, NoBindings
<1>1. CASE Start
  <2>1. read_bindings' \in BindingViews /\ gpc' # "matcher" /\ up'
    BY <1>0, <1>1 DEF Start, EndLoad
  <2>2. ASSUME clean', mode # "merged" PROVE \A r \in Routes : Chained(r)'
    BY <1>1, <2>2 DEF Start, Chained
  <2>3. ~reloaded' /\ mode' = mode
    BY <1>1 DEF Start, ChainsInv
  <2> QED BY <2>1, <2>2, <2>3 DEF ChainsInv, ServedWithChain
<1>2. CASE SwapChains
  <2>1. read_bindings' = read_bindings /\ gpc' = "matcher" /\ up' /\ chains' = read_bindings
    BY <1>2 DEF SwapChains, loaded
  <2>2. ASSUME NEW r \in Routes PROVE Chained(r)'
    <3>1. read_bindings[r] \in {"none", "valid"}
      BY <1>2 DEF SwapChains, Buildable, ChainsInv, BindingViews
    <3> QED BY <2>1, <3>1 DEF Chained
  <2> QED BY <2>1, <2>2 DEF ChainsInv, ServedWithChain
<1>3. CASE SwapMatcher
  <2>1. /\ read_bindings' = read_bindings /\ gpc' # "matcher" /\ up'
        /\ bound' = chains' /\ reloaded' = reloaded
    BY <1>3 DEF SwapMatcher, loaded, ChainsInv
  <2>2. \A r \in Routes : Chained(r)'
    BY <2>1 DEF Chained
  <2> QED BY <2>1, <2>2 DEF ChainsInv, ServedWithChain
<1>4. CASE SwapSelector
  BY <1>0, <1>4, QuietKeeps DEF SwapSelector, EndLoad, Quiet
<1>5. CASE Control
  BY <1>5 DEF Control, runtime, ChainsInv, ServedWithChain, Chained
<1>6. CASE UNCHANGED vars
  BY <1>6 DEF vars, runtime, loaded, ChainsInv, ServedWithChain, Chained
<1> QED BY <1>1, <1>2, <1>3, <1>4, <1>5, <1>6, LoadQuiet, QuietKeeps DEF Next, Gate, Load

(* No deployment puts a route in service before its plugins, or takes the  *)
(* plugins away before the route, whatever is edited and whichever queries *)
(* fail during a load: the chains are swapped first and all or nothing.    *)
THEOREM AlwaysServedWithChain == Spec => []ServedWithChain
<1>1. Init => ChainsInv
  BY DEF Init, ChainsInv, ServedWithChain, BindingViews, NoBindings
<1>2. Init => TablesInv
  BY TablesStart DEF Init
<1>3. ChainsInv => ServedWithChain
  BY DEF ChainsInv
<1> QED BY <1>1, <1>2, <1>3, ChainsNext, TablesNext, PTL DEF Spec
============================================================================
