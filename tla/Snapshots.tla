----------------------------- MODULE Snapshots -----------------------------
(***************************************************************************)
(* The business tables with their row ids and names, the snapshot of them  *)
(* that a config version holds, and how a rollback writes a snapshot back  *)
(* (apply_snapshot, conrogate-storage config_version_repo.rs).             *)
(*                                                                         *)
(* Every query asks for rows that are not soft-deleted, so a table is the  *)
(* function from the ids of its live rows to the rows; ids count up and    *)
(* are never used again.  Of a row the model keeps its name and what the   *)
(* rows of other tables refer to: the nodes of an upstream are one value,  *)
(* and so is the config of a binding.                                      *)
(***************************************************************************)
EXTENDS Naturals, FiniteSets, Sequences, SequencesExt, FiniteSetsExt, Functions

NoUpstream == 0      \* upstream_id is NULL
NoNodes == "no nodes"

With(f, k, v) == [i \in DOMAIN f \cup {k} |-> IF i = k THEN v ELSE f[i]]

(* A snapshot: the enabled routes, the upstreams, and the enabled bindings *)
(* of those routes, each with the id it had.                               *)
ById(rows) == SetToSortSeq(rows, LAMBDA a, b : a.id < b.id)

Names(rows) == {x.name : x \in rows}

list_enabled(db) ==
    {[id |-> i, name |-> db.routes[i].name, upstream |-> db.routes[i].upstream] :
        i \in {j \in DOMAIN db.routes : db.routes[j].enabled}}

list_all(db) ==
    {[id |-> i, name |-> db.upstreams[i].name, nodes |-> db.upstreams[i].nodes] :
        i \in DOMAIN db.upstreams}

list_by_route(db, id) == {b \in db.bindings : b.route = id /\ b.enabled}

Snapshot(db) ==
    LET routes == list_enabled(db)
    IN [routes |-> routes, upstreams |-> list_all(db),
        bindings |-> UNION {list_by_route(db, r.id) : r \in routes}]

----------------------------------------------------------------------------
(* 1. Every upstream of the snapshot is matched by name, with the first    *)
(* row if several have the name: a row that is there gets the nodes of the *)
(* snapshot, one that is not is inserted through a conversion that leaves  *)
(* the nodes out.  `map` takes ids of the snapshot to ids of the table.    *)

UpsertUpstream(acc, up) ==
    LET same == {i \in DOMAIN acc.db.upstreams : acc.db.upstreams[i].name = up.name}
        id == IF same = {} THEN acc.db.last_upstream + 1 ELSE Min(same)
        row == [name |-> up.name, nodes |-> IF same = {} THEN NoNodes ELSE up.nodes]
    IN [db |-> [acc.db EXCEPT !.upstreams = With(@, id, row), !.last_upstream = Max({@, id})],
        map |-> With(acc.map, up.id, id)]

UpsertUpstreams(db, snapshot) ==
    FoldLeft(UpsertUpstream, [db |-> db, map |-> <<>>], ById(snapshot.upstreams))

(* 2. Upstreams with other names are deleted, whichever routes use them. *)
DropUpstreams(db, snapshot) ==
    [db EXCEPT !.upstreams =
        Restrict(@, {i \in DOMAIN @ : @[i].name \in Names(snapshot.upstreams)})]

(* 3. Every route is matched by name; its upstream_id becomes the row its  *)
(* upstream now has, or NULL if the snapshot has no such upstream.         *)
UpsertRoute(acc, r, upstream_map) ==
    LET same == {i \in DOMAIN acc.db.routes : acc.db.routes[i].name = r.name}
        id == IF same = {} THEN acc.db.last_route + 1 ELSE Min(same)
        row == [name |-> r.name, enabled |-> TRUE,
                upstream |-> IF r.upstream \in DOMAIN upstream_map
                             THEN upstream_map[r.upstream] ELSE NoUpstream]
    IN [db |-> [acc.db EXCEPT !.routes = With(@, id, row), !.last_route = Max({@, id})],
        map |-> With(acc.map, r.id, id)]

UpsertRoutes(db, snapshot, upstream_map) ==
    FoldLeft(LAMBDA acc, r : UpsertRoute(acc, r, upstream_map),
             [db |-> db, map |-> <<>>], ById(snapshot.routes))

(* 4 and 5a. Enabled routes with other names are deleted, with their       *)
(* bindings; disabled ones stay.                                           *)
DropRoutes(db, snapshot) ==
    LET dropped == {i \in DOMAIN db.routes :
                        db.routes[i].enabled /\ db.routes[i].name \notin Names(snapshot.routes)}
    IN [db EXCEPT !.routes = Restrict(@, DOMAIN @ \ dropped),
                  !.bindings = {b \in @ : b.route \notin dropped}]

(* 5b and 5c. The bindings of the snapshot's routes become those of the    *)
(* snapshot.                                                               *)
AlignBindingsMerged(db, snapshot, route_map) ==
    LET desired == {[b EXCEPT !.route = route_map[b.route]] : b \in snapshot.bindings}
    IN [db EXCEPT !.bindings =
            desired \cup {b \in @ : ~\E d \in desired : d.route = b.route /\ d.plugin = b.plugin}]

AlignBindings(db, snapshot, route_map) ==
    [db EXCEPT !.bindings =
        {[b EXCEPT !.route = route_map[b.route]] : b \in snapshot.bindings}
            \cup {b \in @ : b.route \notin Range(route_map)}]

(* A binding of a route the snapshot has not got fails the transaction. *)
Applicable(snapshot) == \A b \in snapshot.bindings : \E r \in snapshot.routes : r.id = b.route

apply_snapshot(db, snapshot) ==
    LET upstreams == UpsertUpstreams(db, snapshot)
        routes == UpsertRoutes(DropUpstreams(upstreams.db, snapshot), snapshot, upstreams.map)
    IN AlignBindings(DropRoutes(routes.db, snapshot), snapshot, routes.map)

----------------------------------------------------------------------------
(* diff: routes by name; those in both count as modified. *)
diff(from, to) ==
    [added |-> Names(to.routes) \ Names(from.routes),
     removed |-> Names(from.routes) \ Names(to.routes),
     modified |-> Names(to.routes) \cap Names(from.routes)]

(* What a snapshot says of a route, by names alone. *)
Described(snapshot, r) ==
    [name |-> r.name,
     upstream |-> {u.name : u \in {v \in snapshot.upstreams : v.id = r.upstream}},
     plugins |-> {<<b.plugin, b.config>> : b \in {d \in snapshot.bindings : d.route = r.id}}]

Content(snapshot) == {Described(snapshot, r) : r \in snapshot.routes}
============================================================================
