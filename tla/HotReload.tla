----------------------------- MODULE HotReload -----------------------------
(***************************************************************************)
(* How a gate loads the tables of ControlTables and swaps them in, at      *)
(* start and in its poll loop, in the three ways it can be deployed:       *)
(* "gate" reads the database (from_config_with_db,                         *)
(* conrogate-gateway/src/server.rs), "merged" is the gate of conrogate     *)
(* serve (conrogate-cli/src/bootstrap.rs), "http" polls the control API    *)
(* (run_without_db, conrogate-cli/src/cmd_gate.rs).  A load is a series of *)
(* separate queries while operators go on; a query may fail.  The control  *)
(* API hands rows out in pages, newest first (HttpConfigLoader,            *)
(* conrogate-cli/src/http_config_loader.rs).  The snapshots in Redis, read *)
(* instead of the tables when there is one, are ConfigDistribution.        *)
(***************************************************************************)
EXTENDS ControlTables

CONSTANTS
    PageSize,   \* rows the control API returns at a time
    MaxFaults   \* bound: queries that fail

ASSUME ReloadAssumption ==
    /\ Routes \subseteq Nat /\ Upstreams \subseteq Nat
    /\ PageSize \in Nat \ {0}
    /\ MaxFaults \in Nat

VARIABLES
    mode,        \* how the gate is deployed
    gpc,         \* the gate's place in a load
    read_routes, read_upstreams, read_bindings,  \* what the load has read
    unread,      \* upstreams, then routes, it has yet to ask about
    page, total, got,  \* over HTTP: the page, the rows counted for it, and
                 \* how many the load of the table has read
    shifted,     \* history: tables that got or lost rows while this load
                 \* was paging through them
    matcher,     \* RouteMatcher: the routes served, and their upstream
    bound,       \* the bindings in the matcher's route snapshots
    chains,      \* PluginPipelineImpl: the plugin chain that runs
    selector,    \* UpstreamSelectorImpl
    up,          \* the gate serves requests
    lossy,       \* history: what is in use from a load that was shifted
    clean,       \* history: the initial load had no error
    reloaded,    \* history: a later load has been swapped in
    faults       \* how many queries have failed

paging == <<page, total, got, shifted>>
loaded == <<read_routes, read_upstreams, read_bindings, unread, paging>>
runtime == <<matcher, bound, chains, selector, lossy>>
vars == <<tables, mode, gpc, loaded, runtime, up, clean, reloaded, faults>>

NoRoutes == [r \in Routes |-> NoRoute]
NoUpstreams == [u \in Upstreams |-> "absent"]
NoBindings == [r \in Routes |-> "none"]

UpstreamViews == [Upstreams -> {"absent", "empty", "nodes"}]
BindingViews == [Routes -> {"none", "valid", "invalid"}]

TypeOK ==
    /\ TablesTypeOK
    /\ mode \in {"gate", "merged", "http"}
    /\ gpc \in {"wait", "routes", "route_page", "upstreams", "upstream_page", "nodes", "bindings",
               "build", "matcher", "selector"}
    /\ read_routes \in [Routes -> Upstreams \cup {NoRoute}]
    /\ read_upstreams \in UpstreamViews
    /\ read_bindings \in BindingViews
    /\ unread \in SUBSET (Routes \cup Upstreams)
    /\ page \in Nat \ {0} /\ total \in Nat /\ got \in Nat
    /\ shifted \in SUBSET {"routes", "upstreams"} /\ lossy \in SUBSET {"routes", "upstreams"}
    /\ matcher \in [Routes -> Upstreams \cup {NoRoute}]
    /\ bound \in BindingViews
    /\ chains \in [Routes -> {"none", "valid"}]
    /\ selector \in UpstreamViews
    /\ up \in BOOLEAN /\ clean \in BOOLEAN /\ reloaded \in BOOLEAN
    /\ faults \in 0..MaxFaults

Init ==
    /\ TablesInit
    /\ mode \in {"gate", "merged", "http"}
    /\ gpc = "routes"
    /\ read_routes = NoRoutes /\ read_upstreams = NoUpstreams /\ read_bindings = NoBindings
    /\ unread = {} /\ page = 1 /\ total = 0 /\ got = 0 /\ shifted = {} /\ lossy = {}
    /\ matcher = NoRoutes /\ bound = NoBindings /\ chains = NoBindings
    /\ selector = NoUpstreams
    /\ up = FALSE /\ clean = TRUE /\ reloaded = FALSE
    /\ faults = 0

----------------------------------------------------------------------------
(* The poll interval is over, or a change is announced. *)
Poll ==
    /\ up /\ gpc = "wait"
    /\ gpc' = "routes"
    /\ UNCHANGED <<tables, mode, loaded, runtime, up, clean, reloaded, faults>>

ReadRoutes ==
    /\ mode # "http" /\ gpc = "routes"
    /\ read_routes' = route
    /\ gpc' = "upstreams"
    /\ UNCHANGED <<tables, mode, read_upstreams, read_bindings, unread, paging, runtime, up, clean,
                   reloaded, faults>>

LiveRoutes == {r \in Routes : route[r] # NoRoute}
LiveUpstreams == {u \in Upstreams : upstream[u] = "live"}

(* list_paginated: the rows of a page by descending id.  They are counted  *)
(* by a query before.                                                      *)
PageOf(rows) ==
    {x \in rows : Cardinality({y \in rows : y > x}) \in (page - 1) * PageSize .. page * PageSize - 1}

Count(rows, pc, next) ==
    /\ mode = "http" /\ gpc = pc
    /\ total' = Cardinality(rows)
    /\ gpc' = next
    /\ UNCHANGED <<tables, mode, read_routes, read_upstreams, read_bindings, unread, page, got,
                   shifted, runtime, up, clean, reloaded, faults>>

LastPage(n) == n >= total \/ n = 0

(* On to the next page, or to the first of the next table. *)
Turn(n) ==
    /\ page' = IF LastPage(n) THEN 1 ELSE page + 1
    /\ got' = IF LastPage(n) THEN 0 ELSE n
    /\ UNCHANGED <<total, shifted>>

PageRoutes ==
    LET rows == PageOf(LiveRoutes)
        n == got + Cardinality(rows)
    IN  /\ gpc = "route_page"
        /\ read_routes' = [r \in Routes |-> IF r \in rows THEN route[r] ELSE read_routes[r]]
        /\ Turn(n)
        /\ gpc' = IF LastPage(n) THEN "upstreams" ELSE "routes"
        /\ UNCHANGED <<tables, mode, read_upstreams, read_bindings, unread, runtime, up, clean,
                       reloaded, faults>>

(* After the upstreams come the bindings of the routes that were read. *)
Bindings ==
    LET routes == {r \in Routes : read_routes[r] # NoRoute} IN
    /\ unread' = routes
    /\ gpc' = IF routes = {} THEN "build" ELSE "bindings"

(* list_all and list_paginated read rows, then the nodes of each. *)
NodesOf(rest, n) ==
    IF rest # {} THEN unread' = rest /\ gpc' = "nodes" /\ got' = n /\ UNCHANGED <<page, total, shifted>>
    ELSE /\ Turn(n)
         /\ IF mode # "http" \/ LastPage(n) THEN Bindings ELSE unread' = {} /\ gpc' = "upstreams"

ReadRows(rows) ==
    /\ read_upstreams' = [u \in Upstreams |-> IF u \in rows THEN "empty" ELSE read_upstreams[u]]
    /\ NodesOf(rows, got + Cardinality(rows))

ReadUpstreams ==
    /\ \/ mode # "http" /\ gpc = "upstreams" /\ ReadRows(LiveUpstreams)
       \/ gpc = "upstream_page" /\ ReadRows(PageOf(LiveUpstreams))
    /\ UNCHANGED <<tables, mode, read_routes, read_bindings, runtime, up, clean, reloaded, faults>>

ReadNodes(u) ==
    /\ gpc = "nodes" /\ u \in unread
    /\ read_upstreams' = [read_upstreams EXCEPT ![u] = IF nodes[u] THEN "nodes" ELSE "empty"]
    /\ NodesOf(unread \ {u}, got)
    /\ UNCHANGED <<tables, mode, read_routes, read_bindings, runtime, up, clean, reloaded, faults>>

ReadBindings(r) ==
    /\ gpc = "bindings" /\ r \in unread
    /\ read_bindings' = [read_bindings EXCEPT ![r] = binding[r]]
    /\ unread' = unread \ {r}
    /\ gpc' = IF unread = {r} THEN "build" ELSE gpc
    /\ UNCHANGED <<tables, mode, read_routes, read_upstreams, paging, runtime, up, clean, reloaded,
                   faults>>

(* The load is over; its locals are gone. *)
EndLoad ==
    /\ gpc' = "wait"
    /\ read_routes' = NoRoutes /\ read_upstreams' = NoUpstreams /\ read_bindings' = NoBindings
    /\ unread' = {}
    /\ page' = 1 /\ total' = 0 /\ got' = 0 /\ shifted' = {}

Reading == {"routes", "route_page", "upstreams", "upstream_page", "nodes", "bindings"}

ReloadFailsHalf ==
    /\ up /\ gpc \in {"upstreams", "nodes"}
    /\ faults < MaxFaults /\ faults' = faults + 1
    /\ read_upstreams' = NoUpstreams
    /\ Bindings
    /\ UNCHANGED <<tables, mode, read_routes, read_bindings, paging, runtime, up, clean, reloaded>>

(* load_config_snapshot returns None, reload_from_http an error: the       *)
(* configuration in use stays.                                             *)
ReloadFails ==
    /\ up /\ gpc \in Reading
    /\ faults < MaxFaults /\ faults' = faults + 1
    /\ EndLoad
    /\ UNCHANGED <<tables, mode, runtime, up, clean, reloaded>>

(* At start the database modes go on with nothing for the list that could  *)
(* not be read (unwrap_or_default); over HTTP the gate starts empty.       *)
InitialReadFails ==
    /\ ~up /\ gpc \in Reading
    /\ faults < MaxFaults /\ faults' = faults + 1
    /\ clean' = FALSE
    /\ \/ mode = "http" /\ up' = TRUE /\ EndLoad
       \/ /\ mode # "http" /\ gpc = "routes"
          /\ gpc' = "upstreams"
          /\ UNCHANGED <<loaded, up>>
       \/ /\ mode # "http" /\ gpc \in {"upstreams", "nodes"}
          /\ read_upstreams' = NoUpstreams
          /\ Bindings
          /\ UNCHANGED <<read_routes, read_bindings, paging, up>>
       \/ /\ mode # "http" /\ gpc = "bindings"
          /\ \E r \in unread :
                /\ unread' = unread \ {r}
                /\ gpc' = IF unread = {r} THEN "build" ELSE gpc
          /\ UNCHANGED <<read_routes, read_upstreams, read_bindings, paging, up>>
    /\ UNCHANGED <<tables, mode, runtime, reloaded>>

----------------------------------------------------------------------------
(* build_chains fails when one config is not accepted. *)
Buildable == \A r \in Routes : read_bindings[r] # "invalid"

(* The initial load is installed before the gate serves anything.  When    *)
(* the chains cannot be built, a database gate starts without plugins and  *)
(* an HTTP gate without routes.  The merged process installs no chains.    *)
Start ==
    /\ ~up /\ gpc = "build"
    /\ up' = TRUE
    /\ clean' = (clean /\ Buildable)
    /\ chains' = IF Buildable /\ mode # "merged" THEN read_bindings ELSE NoBindings
    /\ IF Buildable \/ mode # "http"
       THEN matcher' = read_routes /\ bound' = read_bindings
       ELSE UNCHANGED <<matcher, bound>>
    /\ selector' = read_upstreams
    /\ lossy' = shifted
    /\ EndLoad
    /\ UNCHANGED <<tables, mode, reloaded, faults>>

(* A reload whose chains cannot be built is skipped; over HTTP only its    *)
(* routes are, the upstreams are swapped all the same.                     *)
BuildFails ==
    /\ up /\ gpc = "build" /\ ~Buildable
    /\ \/ mode = "http" /\ gpc' = "selector" /\ UNCHANGED loaded
       \/ mode # "http" /\ EndLoad
    /\ UNCHANGED <<tables, mode, runtime, up, clean, reloaded, faults>>

SwapChainsLast ==
    /\ up /\ gpc = "build" /\ Buildable
    /\ matcher' = read_routes /\ bound' = read_bindings
    /\ gpc' = "matcher"
    /\ UNCHANGED <<chains, reloaded>>
    /\ UNCHANGED <<tables, mode, loaded, selector, lossy, up, clean, faults>>

(* set_route_chains, then load_with_bindings, then load_upstreams. *)
SwapChains ==
    /\ up /\ gpc = "build" /\ Buildable
    /\ chains' = read_bindings
    /\ reloaded' = TRUE
    /\ lossy' = lossy \cup (shifted \cap {"routes"})
    /\ gpc' = "matcher"
    /\ UNCHANGED <<tables, mode, loaded, matcher, bound, selector, up, clean, faults>>

SwapMatcher ==
    /\ gpc = "matcher"
    /\ matcher' = read_routes /\ bound' = read_bindings
    /\ lossy' = (lossy \ {"routes"}) \cup (shifted \cap {"routes"})
    /\ gpc' = "selector"
    /\ UNCHANGED <<tables, mode, loaded, chains, selector, up, clean, reloaded, faults>>

SwapSelectorMerges ==
    /\ gpc = "selector"
    /\ selector' = [u \in Upstreams |->
                        IF read_upstreams[u] = "absent" THEN selector[u] ELSE read_upstreams[u]]
    /\ lossy' = lossy
    /\ EndLoad
    /\ UNCHANGED <<tables, mode, matcher, bound, chains, up, clean, reloaded, faults>>

SwapSelector ==
    /\ gpc = "selector"
    /\ selector' = read_upstreams
    /\ lossy' = (lossy \ {"upstreams"}) \cup (shifted \cap {"upstreams"})
    /\ EndLoad
    /\ UNCHANGED <<tables, mode, matcher, bound, chains, up, clean, reloaded, faults>>

----------------------------------------------------------------------------
Load ==
    \/ Poll \/ ReadRoutes \/ ReadUpstreams
    \/ Count(LiveRoutes, "routes", "route_page") \/ PageRoutes
    \/ Count(LiveUpstreams, "upstreams", "upstream_page")
    \/ \E u \in Upstreams : ReadNodes(u)
    \/ \E r \in Routes : ReadBindings(r)
    \/ Start \/ BuildFails \/ SwapChains \/ SwapMatcher \/ SwapSelector

Gate == Load \/ ReloadFails \/ InitialReadFails

(* Tables of which a part has been read. *)
Paging ==
    IF mode # "http" THEN {}
    ELSE IF gpc = "route_page" \/ (gpc = "routes" /\ page > 1) THEN {"routes"}
    ELSE IF gpc \in {"upstream_page", "nodes"} \/ (gpc = "upstreams" /\ page > 1) THEN {"upstreams"}
    ELSE {}

Control ==
    /\ Operate
    /\ shifted' = shifted \cup {t \in Paging : IF t = "routes" THEN LiveRoutes' # LiveRoutes
                                               ELSE LiveUpstreams' # LiveUpstreams}
    /\ UNCHANGED <<mode, gpc, read_routes, read_upstreams, read_bindings, unread, page, total, got,
                   runtime, up, clean, reloaded, faults>>

Next == Gate \/ Control

Spec == Init /\ [][Next]_vars

(* The poll loop goes on; nothing is assumed of operators. *)
FairSpec == Spec /\ WF_vars(Load)

----------------------------------------------------------------------------
(* Whatever is edited next to it, whichever queries fail and however they  *)
(* interleave, a route that nobody edits and whose upstream nobody edits   *)
(* is served all the time, with its upstream's nodes and its plugins, from *)
(* a clean start on ("keep the configuration in use, so that half a        *)
(* configuration never interrupts traffic").  A merged process has its     *)
(* plugins from its first reload on.  Over HTTP the loader pages through   *)
(* the tables ("so that no configuration is lost silently"): it misses     *)
(* nothing unless rows come or go while it does.                           *)
UneditedRouteServed ==
    /\ TypeOK
    /\ up /\ clean =>
        \A r \in Routes :
            route[r] # NoRoute /\ {r, route[r]} \cap touched = {} =>
                /\ "routes" \notin lossy =>
                      /\ matcher[r] = route[r]
                      /\ mode # "merged" \/ reloaded => chains[r] = binding[r]
                /\ "upstreams" \notin lossy => selector[route[r]] = "nodes"

(* A route in the matcher runs the chain it was loaded with, but for the   *)
(* moment in which a load that no longer has the binding is being swapped. *)
Chained(r) ==
    matcher[r] # NoRoute /\ bound[r] = "valid" =>
        chains[r] = "valid" \/ (gpc = "matcher" /\ read_bindings[r] = "none")

(* No route is put in service before its plugins are: the chains are       *)
(* swapped before the routes.                                              *)
ServedWithChain ==
    up /\ (reloaded \/ (clean /\ mode # "merged")) => \A r \in Routes : Chained(r)

InService ==
    /\ up
    /\ matcher = route
    /\ \A u \in Upstreams :
        selector[u] = IF upstream[u] # "live" THEN "absent" ELSE IF nodes[u] THEN "nodes" ELSE "empty"
    /\ \A r \in Routes : route[r] # NoRoute => chains[r] = binding[r]

(* When operators stop editing, the gate comes to serve what the tables    *)
(* say, in spite of torn and failed loads, unless a live route has a       *)
(* binding no chain can be built from.                                     *)
GateCatchesUp ==
    <>[]((\A r \in Routes : route[r] # NoRoute => binding[r] # "invalid") => InService)
============================================================================
