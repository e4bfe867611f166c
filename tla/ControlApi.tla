---------------------------- MODULE ControlApi ----------------------------
(***************************************************************************)
(* The writes of the control API (conrogate-server): the authentication    *)
(* middleware, the role check of each handler, the operation of            *)
(* ControlService with its statements, and the audit row at its end.       *)
(* Requests of several clients are served at the same time and interleave  *)
(* between statements; only apply_snapshot is a transaction.  A statement  *)
(* may fail and the process may stop, which leaves what was done so far.   *)
(*                                                                         *)
(* Requests that are refused before they have done anything have no step.  *)
(* The snapshot put in Redis is in ConfigDistribution, the node rows of    *)
(* upstreams one by one are in ControlTables.                              *)
(***************************************************************************)
EXTENDS Snapshots

CONSTANTS
    Clients,        \* requests that are served at the same time
    Setups,         \* configured tokens, and the tables clients write
    Presented,      \* tokens that clients present
    RouteNames, UpstreamNames, NodeLists,
    PluginNames, Configs,
    Batches,        \* batches of events that gates report
    Gates,
    InitialTables,  \* business tables, with version 1 published from them
    MaxRequests,    \* bound: requests admitted
    MaxFaults       \* bound: failed statements and restarts

ASSUME ApiAssumption == MaxRequests \in Nat /\ MaxFaults \in Nat

VARIABLES
    tokens,     \* AuthState
    scope,      \* which of the tables, which do not meet, clients write
    db,         \* routes, upstreams and bindings
    versions,   \* config_versions: the snapshots, version 1 first
    plugins,    \* installed_plugins: kind and status of the live rows
    blacklist,  \* ip_blacklist: its rows by id
    last_block, \* the last id of ip_blacklist
    nodes,      \* node_applications: the version each gate reported
    events,     \* gateway_events
    audit,      \* the row that the last step put into audit_logs
    req,        \* the request a client has in flight; `changed` is history
    admitted,   \* bound: counts the requests
    faults      \* bound: counts the faults

stored == <<db, versions, plugins, blacklist, last_block, nodes, events>>
vars == <<tokens, scope, stored, audit, req, admitted, faults>>

----------------------------------------------------------------------------
(* auth.rs.  A token is the sequence of its parts between colons. *)
parse_role(s) == CASE s = "admin" -> 3 [] s = "operator" -> 2 [] OTHER -> 1
Viewer == 1
Operator == 2
Admin == 3

(* Without configured tokens everyone is an administrator; with them a     *)
(* token must be one of them, and one not of the form operator:secret:role *)
(* may only read.                                                          *)
auth_middleware(token) ==
    IF tokens = {} THEN {[role |-> Admin, operator |-> "anonymous"]}
    ELSE IF token \notin tokens THEN {}
    ELSE IF Len(token) = 3 THEN {[role |-> parse_role(token[3]), operator |-> token[1]]}
    ELSE {[role |-> Viewer, operator |-> "unknown"]}

----------------------------------------------------------------------------
(* The requests each group of handlers serves, and the role they require.  *)
Ids(last) == 1..last

route_handlers ==
    [kind : {"create_route"}, name : RouteNames, upstream : Ids(db.last_upstream)]
        \cup [kind : {"update_route"}, id : Ids(db.last_route),
              set : [field : {"upstream"}, value : Ids(db.last_upstream)]
                        \cup [field : {"enabled"}, value : BOOLEAN]
                        \cup [field : {"name"}, value : RouteNames]]
        \cup [kind : {"delete_route"}, id : Ids(db.last_route)]

upstream_handlers ==
    [kind : {"create_upstream"}, name : UpstreamNames, nodes : NodeLists]
        \cup [kind : {"update_upstream"}, id : Ids(db.last_upstream),
              set : [field : {"name"}, value : UpstreamNames]
                        \cup [field : {"nodes"}, value : NodeLists]]
        \cup [kind : {"delete_upstream"}, id : Ids(db.last_upstream)]

binding_handlers ==
    [kind : {"bind_plugin"}, id : Ids(db.last_route), plugin : PluginNames, config : Configs]
        \cup [kind : {"update_plugin_binding"}, id : Ids(db.last_route), plugin : PluginNames,
              set : [field : {"config"}, value : Configs] \cup [field : {"enabled"}, value : BOOLEAN]]
        \cup [kind : {"unbind_plugin"}, id : Ids(db.last_route), plugin : PluginNames]

config_handlers ==
    [kind : {"publish_config"}, base_version : {0, Len(versions)}]
        \cup [kind : {"rollback_config"}, version : 1..Len(versions) + 1]

plugin_handlers ==
    [kind : {"update_plugin_status"}, name : PluginNames, status : {"active", "disabled"}]
        \cup [kind : {"delete_plugin"}, name : PluginNames]

blacklist_handlers ==
    [kind : {"create_ip_blacklist"}, net : {"net", "not a net"}]
        \cup [kind : {"delete_ip_blacklist"}, id : Ids(last_block)]

report_handlers ==
    [kind : {"receive_heartbeat"}, gate : Gates, version : {1, 2}]
        \cup [kind : {"receive_events"}, batch : Batches]

AdminKinds == {"update_plugin_status", "delete_plugin"}
ReportKinds == {"receive_heartbeat", "receive_events"}

Required(kind) ==
    IF kind \in AdminKinds THEN Admin ELSE IF kind \in ReportKinds THEN Viewer ELSE Operator

Requests ==
    IF scope = "configuration"
    THEN route_handlers \cup upstream_handlers \cup binding_handlers \cup config_handlers
    ELSE plugin_handlers \cup blacklist_handlers \cup report_handlers

----------------------------------------------------------------------------
Idle == [pc |-> "idle"]

TypeOK ==
    /\ DOMAIN db.routes \subseteq Ids(db.last_route)
    /\ DOMAIN db.upstreams \subseteq Ids(db.last_upstream)
    /\ \A i, j \in DOMAIN db.routes : db.routes[i].name = db.routes[j].name => i = j
    /\ \A b, d \in db.bindings : b.route = d.route /\ b.plugin = d.plugin => b = d
    /\ DOMAIN blacklist \subseteq Ids(last_block)
    /\ \A i, j \in DOMAIN blacklist : blacklist[i].net = blacklist[j].net => i = j
    /\ \A v \in DOMAIN versions : \A r \in versions[v].routes : r.id \in Ids(db.last_route)
    /\ admitted \in 0..MaxRequests
    /\ faults \in 0..MaxFaults

Init ==
    /\ \E setup \in Setups : tokens = setup.tokens /\ scope = setup.scope
    /\ db \in InitialTables
    /\ versions = <<Snapshot(db)>>
    /\ plugins \in [PluginNames -> [kind : {"native", "wasm"}, status : {"active"}]]
    /\ blacklist = <<>> /\ last_block = 0
    /\ nodes = <<>> /\ events = <<>>
    /\ audit = <<>>
    /\ req = [c \in Clients |-> Idle]
    /\ admitted = 0
    /\ faults = 0

----------------------------------------------------------------------------
First(kind) ==
    CASE kind = "delete_upstream" -> "bindings_of_upstream"
      [] kind \in {"delete_plugin", "create_ip_blacklist", "receive_heartbeat"} -> "find"
      [] kind = "publish_config" -> "routes"
      [] kind = "rollback_config" -> "snapshot"
      [] OTHER -> "write"

(* The middleware and require_role: the request that the service is called *)
(* with.                                                                   *)
Admitted(token, op) ==
    {[pc |-> First(op.kind), op |-> op, operator |-> caller.operator, changed |-> FALSE, fresh |-> TRUE] :
        caller \in {a \in auth_middleware(token) : a.role >= Required(op.kind)}}

(* Below, q is the request of client c: the one in flight, or a new one    *)
(* whose first statement is executed.                                      *)
At(q, pc, kind) == q.pc = pc /\ q.op.kind = kind

Counted(q) == admitted' = IF q.fresh THEN admitted + 1 ELSE admitted

(* The service goes on to pc.  The audit row needs only the kind. *)
Goto(c, q, pc) ==
    /\ req' = [req EXCEPT ![c] =
                  IF pc = "audit"
                  THEN [pc |-> pc, op |-> [kind |-> q.op.kind], operator |-> q.operator,
                        changed |-> q.changed, fresh |-> FALSE]
                  ELSE [q EXCEPT !.pc = pc, !.fresh = FALSE]]
    /\ Counted(q)

(* The operation returns an error.  (One that does so at its first         *)
(* statement changes nothing and has no step.)                             *)
Refuse(c, q) ==
    /\ req' = [req EXCEPT ![c] = Idle]
    /\ audit' = <<>>
    /\ UNCHANGED <<tokens, scope, stored, admitted, faults>>

(* A statement on the business tables. *)
WriteDb(c, q, new, pc) ==
    /\ db' = new
    /\ Goto(c, [q EXCEPT !.changed = @ \/ new # db], pc)
    /\ audit' = <<>>
    /\ UNCHANGED <<tokens, scope, versions, plugins, blacklist, last_block, nodes, events, faults>>

(* A query, whose result the request keeps. *)
Read(c, q, fields, pc) ==
    /\ Goto(c, [f \in DOMAIN q \cup DOMAIN fields |->
                    IF f \in DOMAIN fields THEN fields[f] ELSE q[f]], pc)
    /\ audit' = <<>>
    /\ UNCHANGED <<tokens, scope, stored, faults>>

----------------------------------------------------------------------------
(* Names of routes are unique. *)
NameTaken(name, id) == \E i \in DOMAIN db.routes \ {id} : db.routes[i].name = name

create_route(c, q) ==
    LET row == [name |-> q.op.name, upstream |-> q.op.upstream, enabled |-> TRUE]
    IN  /\ At(q, "write", "create_route")
        /\ ~NameTaken(q.op.name, 0)
        /\ WriteDb(c, q, [db EXCEPT !.routes = With(@, db.last_route + 1, row), !.last_route = @ + 1],
                   "audit")

update_route(c, q) ==
    LET id == q.op.id
        set == q.op.set
    IN  /\ At(q, "write", "update_route")
        /\ id \in DOMAIN db.routes
        /\ set.field = "name" => ~NameTaken(set.value, id)
        /\ WriteDb(c, q, [db EXCEPT !.routes[id][set.field] = set.value], "audit")

(* Deleting what is not there succeeds. *)
delete_route(c, q) ==
    /\ At(q, "write", "delete_route")
    /\ WriteDb(c, q, [db EXCEPT !.routes = Restrict(@, DOMAIN @ \ {q.op.id})], "audit")

----------------------------------------------------------------------------
WithNodes(id, value) ==
    [db EXCEPT !.upstreams = IF id \in DOMAIN @ THEN [@ EXCEPT ![id].nodes = value] ELSE @]

create_upstream(c, q) ==
    LET id == db.last_upstream + 1
        row == [name |-> q.op.name, nodes |-> NoNodes]
    IN  \/ /\ At(q, "write", "create_upstream")
           /\ WriteDb(c, With(q, "id", id),
                      [db EXCEPT !.upstreams = With(@, id, row), !.last_upstream = id], "nodes")
        \/ /\ At(q, "nodes", "create_upstream")
           /\ WriteDb(c, q, WithNodes(q.id, q.op.nodes), "audit")

(* A new list of nodes: the old ones go first. *)
update_upstream(c, q) ==
    LET id == q.op.id
        set == q.op.set
    IN  \/ /\ At(q, "write", "update_upstream")
           /\ id \in DOMAIN db.upstreams
           /\ IF set.field = "name"
              THEN WriteDb(c, q, [db EXCEPT !.upstreams[id].name = set.value], "audit")
              ELSE WriteDb(c, q, WithNodes(id, NoNodes), "nodes")
        \/ At(q, "nodes", "update_upstream") /\ WriteDb(c, q, WithNodes(id, set.value), "audit")

DeleteUpstream(q) == [db EXCEPT !.upstreams = Restrict(@, DOMAIN @ \ {q.op.id})]
InUse(id) == \E i \in DOMAIN db.routes : db.routes[i].upstream = id

delete_upstream_late_check(c, q) ==
    \/ /\ At(q, "bindings_of_upstream", "delete_upstream")
       /\ WriteDb(c, q, DeleteUpstream(q), "write")
    \/ /\ At(q, "write", "delete_upstream")
       /\ IF InUse(q.op.id) THEN Refuse(c, q) ELSE Read(c, q, <<>>, "audit")

delete_upstream(c, q) ==
    \/ /\ At(q, "bindings_of_upstream", "delete_upstream")
       /\ ~InUse(q.op.id)
       /\ Read(c, q, <<>>, "write")
    \/ At(q, "write", "delete_upstream") /\ WriteDb(c, q, DeleteUpstream(q), "audit")

----------------------------------------------------------------------------
Bound(op) == {b \in db.bindings : b.route = op.id /\ b.plugin = op.plugin}

bind_plugin(c, q) ==
    LET row == [route |-> q.op.id, plugin |-> q.op.plugin, config |-> q.op.config, enabled |-> TRUE]
    IN  /\ At(q, "write", "bind_plugin")
        /\ Bound(q.op) = {}
        /\ WriteDb(c, q, [db EXCEPT !.bindings = @ \cup {row}], "audit")

update_plugin_binding(c, q) ==
    LET Updated(b) == [b EXCEPT ![q.op.set.field] = q.op.set.value]
    IN  /\ At(q, "write", "update_plugin_binding")
        /\ Bound(q.op) # {}
        /\ WriteDb(c, q, [db EXCEPT !.bindings =
                            (@ \ Bound(q.op)) \cup {Updated(b) : b \in Bound(q.op)}], "audit")

unbind_plugin(c, q) ==
    /\ At(q, "write", "unbind_plugin")
    /\ WriteDb(c, q, [db EXCEPT !.bindings = @ \ Bound(q.op)], "audit")

----------------------------------------------------------------------------
PublishReadsTorn(c, q) ==
    \/ /\ At(q, "routes", "publish_config")
       /\ Read(c, q, [bindings |-> {b \in db.bindings : b.enabled}], "upstreams")
    \/ /\ At(q, "upstreams", "publish_config")
       /\ Read(c, q, [upstreams |-> list_all(db), routes |-> list_enabled(db)], "latest")

(* publish_config reads the enabled routes, the upstreams and the bindings *)
(* of each route it has read, one query after the other.                   *)
PublishReads(c, q) ==
    \/ /\ At(q, "routes", "publish_config")
       /\ Read(c, q, [routes |-> list_enabled(db), bindings |-> {}], "upstreams")
    \/ /\ At(q, "upstreams", "publish_config")
       /\ Read(c, q, [upstreams |-> list_all(db), unread |-> {r.id : r \in q.routes}],
               IF q.routes = {} THEN "latest" ELSE "bindings")
    \/ /\ At(q, "bindings", "publish_config")
       /\ LET id == Min(q.unread) IN
          Read(c, q, [bindings |-> q.bindings \cup list_by_route(db, id), unread |-> q.unread \ {id}],
               IF q.unread = {id} THEN "latest" ELSE "bindings")

(* Both ways to a new version read the latest and insert the one after it; *)
(* the number is unique.                                                   *)
InsertVersion(c, q, snapshot) ==
    IF q.new # Len(versions) + 1 THEN Refuse(c, q)
    ELSE /\ versions' = Append(versions, snapshot)
         /\ Goto(c, [q EXCEPT !.changed = TRUE], "audit")
         /\ audit' = <<>>
         /\ UNCHANGED <<tokens, scope, db, plugins, blacklist, last_block, nodes, events, faults>>

publish_config(c, q) ==
    \/ PublishReads(c, q)
    \/ /\ At(q, "latest", "publish_config")
       /\ IF q.op.base_version # Len(versions) THEN Refuse(c, q)
          ELSE Read(c, q, [new |-> Len(versions) + 1], "insert")
    \/ /\ At(q, "insert", "publish_config")
       /\ InsertVersion(c, q, [routes |-> q.routes, upstreams |-> q.upstreams, bindings |-> q.bindings])

(* The tables are written back before the version row is there. *)
rollback_config(c, q) ==
    \/ /\ At(q, "snapshot", "rollback_config")
       /\ q.op.version \in DOMAIN versions
       /\ Read(c, q, [target |-> versions[q.op.version]], "apply")
    \/ /\ At(q, "apply", "rollback_config")
       /\ IF ~Applicable(q.target) THEN Refuse(c, q)
          ELSE WriteDb(c, q, apply_snapshot(db, q.target), "latest")
    \/ At(q, "latest", "rollback_config") /\ Read(c, q, [new |-> Len(versions) + 1], "insert")
    \/ At(q, "insert", "rollback_config") /\ InsertVersion(c, q, q.target)

----------------------------------------------------------------------------
(* The tables that have no references to each other. *)
WriteOther(c, q) ==
    /\ Goto(c, [q EXCEPT !.changed = TRUE], "audit")
    /\ audit' = <<>>
    /\ UNCHANGED <<tokens, scope, db, versions, faults>>

update_plugin_status(c, q) ==
    /\ At(q, "write", "update_plugin_status")
    /\ plugins' = IF q.op.name \in DOMAIN plugins
                  THEN [plugins EXCEPT ![q.op.name].status = q.op.status] ELSE plugins
    /\ WriteOther(c, q)
    /\ UNCHANGED <<blacklist, last_block, nodes, events>>

(* A plugin that is compiled in is not removed. *)
delete_plugin(c, q) ==
    LET name == q.op.name
    IN  \/ /\ At(q, "find", "delete_plugin")
           /\ name \in DOMAIN plugins /\ plugins[name].kind # "native"
           /\ Read(c, q, <<>>, "write")
        \/ /\ At(q, "write", "delete_plugin")
           /\ plugins' = Restrict(plugins, DOMAIN plugins \ {name})
           /\ WriteOther(c, q)
           /\ UNCHANGED <<blacklist, last_block, nodes, events>>

(* The upsert looks for the row, then updates or inserts it: an update of  *)
(* a row that is gone and an insert of a net that has come are errors.     *)
BlockRows(net) == {i \in DOMAIN blacklist : blacklist[i].net = net}

upsert(net, operator) ==
    IF BlockRows(net) # {} THEN UNCHANGED <<blacklist, last_block>>
    ELSE /\ blacklist' = With(blacklist, last_block + 1, [net |-> net, created_by |-> operator])
         /\ last_block' = last_block + 1

create_ip_blacklist(c, q) ==
    LET net == q.op.net
    IN  \/ /\ At(q, "find", "create_ip_blacklist")
           /\ net # "not a net"
           /\ Read(c, q, [found |-> BlockRows(net)], "write")
        \/ /\ At(q, "write", "create_ip_blacklist")
           /\ IF BlockRows(net) # q.found THEN Refuse(c, q)
              ELSE upsert(net, q.operator) /\ WriteOther(c, q) /\ UNCHANGED <<plugins, nodes, events>>

delete_ip_blacklist(c, q) ==
    /\ At(q, "write", "delete_ip_blacklist")
    /\ q.op.id \in DOMAIN blacklist
    /\ blacklist' = Restrict(blacklist, DOMAIN blacklist \ {q.op.id})
    /\ WriteOther(c, q)
    /\ UNCHANGED <<plugins, last_block, nodes, events>>

(* Reports of gates leave no audit row. *)
Reported(c, q) ==
    /\ req' = [req EXCEPT ![c] = Idle]
    /\ Counted(q)
    /\ audit' = <<>>
    /\ UNCHANGED <<tokens, scope, db, versions, plugins, blacklist, last_block, faults>>

receive_heartbeat(c, q) ==
    LET gate == q.op.gate
    IN  \/ /\ At(q, "find", "receive_heartbeat")
           /\ Read(c, q, [found |-> gate \in DOMAIN nodes], "write")
        \/ /\ At(q, "write", "receive_heartbeat")
           /\ IF ~q.found /\ gate \in DOMAIN nodes THEN Refuse(c, q)
              ELSE nodes' = With(nodes, gate, q.op.version) /\ Reported(c, q) /\ UNCHANGED events

(* An event with the trace, time and type of one that is stored, or of one *)
(* before it in the batch, is left out; events without a trace never are.  *)
Stored(table, e) == IF e.traced /\ e \in Range(table) THEN table ELSE Append(table, e)

receive_events(c, q) ==
    /\ At(q, "write", "receive_events")
    /\ events' = FoldLeft(Stored, events, q.op.batch)
    /\ Reported(c, q)
    /\ UNCHANGED nodes

----------------------------------------------------------------------------
(* AuditService::log, once the operation has succeeded; if the row cannot  *)
(* be inserted that is only logged.                                        *)
log(c, q) ==
    /\ q.pc = "audit"
    /\ audit' = <<[operator |-> q.operator, kind |-> q.op.kind]>>
    /\ req' = [req EXCEPT ![c] = Idle]
    /\ UNCHANGED <<tokens, scope, stored, admitted, faults>>

Statement(c, q) ==
    \/ create_route(c, q) \/ update_route(c, q) \/ delete_route(c, q)
    \/ create_upstream(c, q) \/ update_upstream(c, q) \/ delete_upstream(c, q)
    \/ bind_plugin(c, q) \/ update_plugin_binding(c, q) \/ unbind_plugin(c, q)
    \/ publish_config(c, q) \/ rollback_config(c, q)
    \/ update_plugin_status(c, q) \/ delete_plugin(c, q)
    \/ create_ip_blacklist(c, q) \/ delete_ip_blacklist(c, q)
    \/ receive_heartbeat(c, q) \/ receive_events(c, q)
    \/ log(c, q)

(* The request in flight, or a new one of which the first statement is     *)
(* executed.                                                               *)
Served(c) ==
    IF req[c] # Idle THEN {req[c]}
    ELSE IF admitted = MaxRequests THEN {}
    ELSE UNION {Admitted(token, op) : token \in Presented, op \in Requests}

Serve(c) == \E q \in Served(c) : Statement(c, q)

(* A statement fails: the audit row's is only logged, any other ends the   *)
(* operation with an error.                                                *)
StatementFails(c) ==
    /\ req[c] # Idle
    /\ faults < MaxFaults /\ faults' = faults + 1
    /\ req' = [req EXCEPT ![c] = Idle]
    /\ audit' = <<>>
    /\ UNCHANGED <<tokens, scope, stored, admitted>>

(* The process stops and is started again. *)
Crash ==
    /\ \E c \in Clients : req[c] # Idle
    /\ faults < MaxFaults /\ faults' = faults + 1
    /\ req' = [c \in Clients |-> Idle]
    /\ audit' = <<>>
    /\ UNCHANGED <<tokens, scope, stored, admitted>>

Next ==
    \/ \E c \in Clients : Serve(c) \/ StatementFails(c)
    \/ Crash

(* Nothing is left to do; until then some request can go on. *)
Quiet ==
    /\ \A c \in Clients : req[c] = Idle
    /\ admitted = MaxRequests
    /\ UNCHANGED vars

Spec == Init /\ [][Next \/ Quiet]_vars

----------------------------------------------------------------------------
(* No write goes without its audit row, which names the operation and the  *)
(* operator the token was issued to, unless a statement or the process     *)
(* fails, with one exception: a rollback that has written the tables back  *)
(* and loses the race for its version number ends with an error.           *)
ChangesAudited ==
    [][\A c \in Clients :
        req[c] # Idle /\ req'[c] = Idle /\ req[c].changed /\ faults' = faults =>
            \/ audit' = <<[operator |-> req[c].operator, kind |-> req[c].op.kind]>>
            \/ At(req[c], "insert", "rollback_config")]_vars

(* A snapshot is put together from separate queries while the tables are   *)
(* written, and a rollback to it still never fails on it: each binding in  *)
(* it is of a route in it.                                                 *)
SnapshotsApply == TypeOK /\ \A v \in DOMAIN versions : Applicable(versions[v])

Applies(c) ==
    /\ req[c] # Idle /\ At(req[c], "apply", "rollback_config")
    /\ req'[c] # Idle /\ req'[c].pc = "latest"

RestoredByName(target) ==
    /\ Content(Snapshot(db')) = Content(target)
    /\ LET changes == diff(target, Snapshot(db')) IN changes.added \cup changes.removed = {}
    /\ Names(list_all(db')) = Names(target.upstreams)
    /\ \A r \in list_enabled(db') : r.upstream \in DOMAIN db'.upstreams \cup {NoUpstream}

DisabledKept(target) ==
    \A i \in DOMAIN db.routes :
        ~db.routes[i].enabled /\ db.routes[i].name \notin Names(target.routes) =>
            /\ i \in DOMAIN db'.routes /\ db'.routes[i] = db.routes[i]
            /\ {b \in db'.bindings : b.route = i} = {b \in db.bindings : b.route = i}

NodesRestored(target) ==
    \A r \in list_enabled(db') :
        r.upstream # NoUpstream /\ db'.upstreams[r.upstream].name \in Names(list_all(db)) =>
            \E u \in target.upstreams :
                u.name = db'.upstreams[r.upstream].name /\ u.nodes = db'.upstreams[r.upstream].nodes

(* A rollback restores what the version says, in terms of names: the same  *)
(* routes with the same plugins and configs on upstreams of the same name, *)
(* whatever was deleted, renamed or created since and whichever ids rows   *)
(* have now; diff of the two adds and removes nothing; and no route in     *)
(* service is left with an upstream that is gone (apply_snapshot's "upsert *)
(* by name, remap references, realign bindings").  Disabled routes that    *)
(* the version does not name stay as they are, with their bindings.  An    *)
(* upstream that still has its name gets the nodes of the version, also    *)
(* when its row is another one by now; one that is gone comes back without *)
(* any.                                                                    *)
RollbackRestores ==
    [][\A c \in Clients : Applies(c) =>
        /\ RestoredByName(req[c].target)
        /\ DisabledKept(req[c].target)
        /\ NodesRestored(req[c].target)]_vars
============================================================================
