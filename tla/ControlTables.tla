--------------------------- MODULE ControlTables ---------------------------
(***************************************************************************)
(* The business tables and the operations of ControlService that write     *)
(* them (conrogate-server/src/service.rs), through the repositories of     *)
(* conrogate-storage: routes, upstreams with their nodes, and the plugin   *)
(* bindings of a route.  No operation is a transaction: those of an        *)
(* upstream are several statements, and readers see what is in between.    *)
(*                                                                         *)
(* A row is soft-deleted and its id never used again.  Of an upstream's    *)
(* node rows the model keeps whether there are any, of a route's bindings  *)
(* whether there is one and whether build_chains accepts its config: the   *)
(* control plane stores any config.  Every route is enabled.               *)
(* One operation at a time works on an upstream.                           *)
(***************************************************************************)
EXTENDS Naturals, FiniteSets

CONSTANTS
    Routes,     \* route ids, those not yet used included
    Upstreams,  \* upstream ids
    InitialRoutes, \* the routes table an earlier session may have left
    MaxEdits,   \* bound: operations of operators
    NoRoute     \* no such row, or a deleted one

ASSUME TablesAssumption ==
    /\ NoRoute \notin Upstreams
    /\ InitialRoutes \subseteq [Routes -> Upstreams \cup {NoRoute}]
    /\ MaxEdits \in Nat

VARIABLES
    route,      \* the live routes' upstream_id
    binding,    \* plugin binding of a route
    upstream,   \* upstream rows
    nodes,      \* the upstream has live node rows
    op,         \* how far the operation on an upstream is
    used,       \* history: route ids that have been given out
    unguarded,  \* history: routes written while their upstream was not
                \* there or its deletion had passed its check
    touched,    \* history: the routes and upstreams written since the start
    edits       \* how many operations have begun

tables == <<route, binding, upstream, nodes, op, used, unguarded, touched, edits>>

TablesTypeOK ==
    /\ route \in [Routes -> Upstreams \cup {NoRoute}]
    /\ binding \in [Routes -> {"none", "valid", "invalid"}]
    /\ upstream \in [Upstreams -> {"unused", "live", "deleted"}]
    /\ nodes \in [Upstreams -> BOOLEAN]
    /\ op \in [Upstreams -> {"none", "created", "cleared", "checked", "row_deleted"}]
    /\ used \in SUBSET Routes
    /\ unguarded \in SUBSET Routes
    /\ touched \in SUBSET (Routes \cup Upstreams)
    /\ edits \in 0..MaxEdits

(* In the tables of an earlier session every route has a live upstream     *)
(* with nodes, and a binding that is valid.                                *)
TablesInit ==
    /\ route \in InitialRoutes
    /\ binding = [r \in Routes |-> IF route[r] = NoRoute THEN "none" ELSE "valid"]
    /\ upstream \in [Upstreams -> {"unused", "live"}]
    /\ \A r \in Routes : route[r] # NoRoute => upstream[route[r]] = "live"
    /\ nodes = [u \in Upstreams |-> upstream[u] = "live"]
    /\ op = [u \in Upstreams |-> "none"]
    /\ used = {r \in Routes : route[r] # NoRoute}
    /\ unguarded = {}
    /\ touched = {}
    /\ edits = 0

Edits(x) ==
    /\ edits < MaxEdits
    /\ edits' = edits + 1
    /\ touched' = touched \cup {x}

----------------------------------------------------------------------------
(* A route is written with an upstream nobody looks up. *)
WriteRoute(r, u) ==
    /\ route' = [route EXCEPT ![r] = u]
    /\ unguarded' = IF upstream[u] = "live" /\ op[u] # "checked"
                    THEN unguarded \ {r} ELSE unguarded \cup {r}

CreateRoute(r, u) ==
    /\ r \notin used
    /\ Edits(r)
    /\ WriteRoute(r, u)
    /\ used' = used \cup {r}
    /\ UNCHANGED <<binding, upstream, nodes, op>>

UpdateRoute(r, u) ==
    /\ route[r] \notin {NoRoute, u}
    /\ Edits(r)
    /\ WriteRoute(r, u)
    /\ UNCHANGED <<binding, upstream, nodes, op, used>>

(* The bindings of a deleted route stay; nothing reads them. *)
DeleteRoute(r) ==
    /\ route[r] # NoRoute
    /\ Edits(r)
    /\ route' = [route EXCEPT ![r] = NoRoute]
    /\ UNCHANGED <<binding, upstream, nodes, op, used, unguarded>>

(* bind_plugin, update_plugin_binding and unbind_plugin. *)
SetBinding(r, b) ==
    /\ route[r] # NoRoute /\ binding[r] # b
    /\ Edits(r)
    /\ binding' = [binding EXCEPT ![r] = b]
    /\ UNCHANGED <<route, upstream, nodes, op, used, unguarded>>

----------------------------------------------------------------------------
(* create_upstream inserts the row, then the nodes. *)
CreateUpstream(u) ==
    /\ upstream[u] = "unused"
    /\ Edits(u)
    /\ upstream' = [upstream EXCEPT ![u] = "live"]
    /\ op' = [op EXCEPT ![u] = "created"]
    /\ UNCHANGED <<route, binding, nodes, used, unguarded>>

(* update_upstream with nodes deletes the old ones, then inserts the new.  *)
ClearNodes(u) ==
    /\ upstream[u] = "live" /\ op[u] = "none"
    /\ Edits(u)
    /\ nodes' = [nodes EXCEPT ![u] = FALSE]
    /\ op' = [op EXCEPT ![u] = "cleared"]
    /\ UNCHANGED <<route, binding, upstream, used, unguarded>>

InsertNodes(u) ==
    /\ op[u] \in {"created", "cleared"}
    /\ nodes' = [nodes EXCEPT ![u] = TRUE]
    /\ op' = [op EXCEPT ![u] = "none"]
    /\ UNCHANGED <<route, binding, upstream, used, unguarded, touched, edits>>

CheckUpstreamUnchecked(u) ==
    /\ upstream[u] = "live" /\ op[u] = "none"
    /\ Edits(u)
    /\ op' = [op EXCEPT ![u] = "checked"]
    /\ UNCHANGED <<route, binding, upstream, nodes, used, unguarded>>

(* delete_upstream refuses while a live route names the upstream, ... *)
CheckUpstream(u) ==
    /\ upstream[u] = "live" /\ op[u] = "none"
    /\ \A r \in Routes : route[r] # u
    /\ Edits(u)
    /\ op' = [op EXCEPT ![u] = "checked"]
    /\ UNCHANGED <<route, binding, upstream, nodes, used, unguarded>>

(* ... then deletes the row, then the nodes. *)
DeleteUpstreamRow(u) ==
    /\ op[u] = "checked"
    /\ upstream' = [upstream EXCEPT ![u] = "deleted"]
    /\ op' = [op EXCEPT ![u] = "row_deleted"]
    /\ UNCHANGED <<route, binding, nodes, used, unguarded, touched, edits>>

DeleteNodes(u) ==
    /\ op[u] = "row_deleted"
    /\ nodes' = [nodes EXCEPT ![u] = FALSE]
    /\ op' = [op EXCEPT ![u] = "none"]
    /\ UNCHANGED <<route, binding, upstream, used, unguarded, touched, edits>>

(* A statement fails: the operation returns the error, what it has done    *)
(* stays.                                                                  *)
Abandon(u) ==
    /\ op[u] # "none"
    /\ op' = [op EXCEPT ![u] = "none"]
    /\ UNCHANGED <<route, binding, upstream, nodes, used, unguarded, touched, edits>>

Operate ==
    \/ \E r \in Routes :
        \/ DeleteRoute(r)
        \/ \E u \in Upstreams : CreateRoute(r, u) \/ UpdateRoute(r, u)
        \/ \E b \in {"none", "valid", "invalid"} : SetBinding(r, b)
    \/ \E u \in Upstreams :
        \/ CreateUpstream(u) \/ ClearNodes(u) \/ InsertNodes(u)
        \/ CheckUpstream(u) \/ DeleteUpstreamRow(u) \/ DeleteNodes(u) \/ Abandon(u)

----------------------------------------------------------------------------
(* delete_upstream protects an upstream that routes use: a route that was  *)
(* given its upstream while that was there, and not being deleted, does    *)
(* not lose it.                                                            *)
UsedUpstreamsKept ==
    \A r \in Routes :
        route[r] # NoRoute /\ upstream[route[r]] = "deleted" => r \in unguarded
============================================================================
