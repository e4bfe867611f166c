------------------------- MODULE ConfigDistribution -------------------------
(***************************************************************************)
(* How a configuration gets from the control plane to the gates:           *)
(* ControlService::publish_config and rollback_config                      *)
(* (conrogate-server/src/service.rs), the version rows they insert         *)
(* (conrogate-storage/src/repository/config_version_repo.rs), the Redis    *)
(* cache they write (conrogate-storage/src/config_cache.rs) and the gate's *)
(* poll loop (load_config_snapshot in conrogate-gateway/src/server.rs).    *)
(*                                                                         *)
(* The content of the business tables is one value; the columns of a       *)
(* snapshot and reads that are not atomic belong to HotReload.  Redis      *)
(* keeps every snapshot ever written: no key of a snapshot is deleted.     *)
(***************************************************************************)
EXTENDS Naturals, Sequences, FiniteSets

CONSTANTS
    Publishers,     \* control-plane requests that may run at the same time
    Gates,
    Contents,       \* contents the business tables may have
    Faults,         \* a subset of AllFaults
    RetryMax,       \* RedisConfigCache::RETRY_MAX
    MaxVersions,    \* bound: versions published or rolled back to
    MaxEdits,       \* bound: edits of the business tables
    MaxFaults,      \* bound: failed calls, crashes
    NoContent

(* A write to Redis fails, before or after it was applied; the DEL of      *)
(* invalidate fails; the control plane dies between inserting a version    *)
(* and writing the cache; a read of a gate fails.                          *)
AllFaults == {"write", "invalidate", "crash", "read"}

ASSUME DistributionAssumption ==
    /\ Faults \subseteq AllFaults
    /\ RetryMax \in Nat \ {0}
    /\ MaxVersions \in Nat /\ MaxEdits \in Nat /\ MaxFaults \in Nat
    /\ NoContent \notin Contents

VARIABLES
    draft,          \* content of the business tables
    versions,       \* config_versions: the rows' base_version and snapshot
    redis_version,  \* VERSION_KEY, 0 = no such key
    redis_snapshot, \* the snapshot keys
    ppc,            \* publisher's place
    base,           \* its base_version argument
    snapshot,       \* its snapshot
    latest,         \* current_latest it has read
    tries,          \* failed attempts of put_snapshot
    gpc,            \* gate's place in its poll
    got,            \* the version get_version returned
    active,         \* the configuration the gate serves with
    adopted,        \* history: the version the gate last took from Redis
    orderly,        \* history: publishes did not overlap, none was cut short
    edits, faults   \* how much of the bounds is used

store == <<draft, versions>>
redis == <<redis_version, redis_snapshot>>
publisher == <<ppc, base, snapshot, latest, tries>>
gate == <<gpc, got, active, adopted>>
used == <<edits, faults>>
vars == <<store, redis, publisher, gate, orderly, used>>

Rows == [base : Nat, content : Contents]

TypeOK ==
    /\ draft \in Contents
    /\ versions \in Seq(Rows)
    /\ redis_version \in Nat
    /\ redis_snapshot \in [1..MaxVersions -> Contents \cup {NoContent}]
    /\ ppc \in [Publishers -> {"idle", "read", "read_latest", "insert", "put", "invalidate"}]
    /\ base \in [Publishers -> Nat]
    /\ snapshot \in [Publishers -> Contents \cup {NoContent}]
    /\ latest \in [Publishers -> Nat]
    /\ tries \in [Publishers -> 0..RetryMax]
    /\ gpc \in [Gates -> {"wait", "get_snapshot", "database"}]
    /\ got \in [Gates -> Nat]
    /\ active \in [Gates -> Contents]
    /\ adopted \in [Gates -> Nat]
    /\ orderly \in BOOLEAN
    /\ edits \in 0..MaxEdits /\ faults \in 0..MaxFaults

(* The gate's initial load reads the business tables. *)
Init ==
    /\ draft \in Contents
    /\ versions = <<>>
    /\ redis_version = 0
    /\ redis_snapshot = [v \in 1..MaxVersions |-> NoContent]
    /\ ppc = [p \in Publishers |-> "idle"]
    /\ base = [p \in Publishers |-> 0]
    /\ snapshot = [p \in Publishers |-> NoContent]
    /\ latest = [p \in Publishers |-> 0]
    /\ tries = [p \in Publishers |-> 0]
    /\ gpc = [g \in Gates |-> "wait"]
    /\ got = [g \in Gates |-> 0]
    /\ active = [g \in Gates |-> draft]
    /\ adopted = [g \in Gates |-> 0]
    /\ orderly = TRUE
    /\ edits = 0 /\ faults = 0

Fault(kind) == kind \in Faults /\ faults < MaxFaults /\ faults' = faults + 1

----------------------------------------------------------------------------
(* An operator changes routes, upstreams or bindings. *)
Edit(c) ==
    /\ edits < MaxEdits
    /\ c # draft
    /\ draft' = c
    /\ edits' = edits + 1
    /\ UNCHANGED <<versions, redis, publisher, gate, orderly, faults>>

(* The request is answered; its locals are gone. *)
Return(p) ==
    /\ ppc' = [ppc EXCEPT ![p] = "idle"]
    /\ snapshot' = [snapshot EXCEPT ![p] = NoContent]
    /\ base' = [base EXCEPT ![p] = 0]
    /\ latest' = [latest EXCEPT ![p] = 0]
    /\ tries' = [tries EXCEPT ![p] = 0]

(* publish_config reads the tables for a client that names a base.         *)
StartPublish(p, b) ==
    /\ ppc[p] = "idle"
    /\ ppc' = [ppc EXCEPT ![p] = "read"]
    /\ base' = [base EXCEPT ![p] = b]
    /\ snapshot' = [snapshot EXCEPT ![p] = draft]
    /\ UNCHANGED <<store, redis, latest, tries, gate, orderly, used>>

(* publish reads the latest version and compares it with the base. *)
CheckBase(p) ==
    /\ ppc[p] = "read"
    /\ \/ /\ base[p] = Len(versions)
          /\ latest' = [latest EXCEPT ![p] = Len(versions)]
          /\ ppc' = [ppc EXCEPT ![p] = "insert"]
          /\ UNCHANGED <<base, snapshot, tries>>
       \/ base[p] # Len(versions) /\ Return(p)
    /\ UNCHANGED <<store, redis, gate, orderly, used>>

(* rollback_config writes the target's snapshot back to the tables, in one *)
(* transaction.                                                            *)
StartRollback(p, v) ==
    /\ ppc[p] = "idle"
    /\ ppc' = [ppc EXCEPT ![p] = "read_latest"]
    /\ draft' = versions[v].content
    /\ snapshot' = [snapshot EXCEPT ![p] = versions[v].content]
    /\ UNCHANGED <<versions, redis, base, latest, tries, gate, orderly, used>>

(* rollback bases the new row on whatever version is the latest. *)
ReadLatest(p) ==
    /\ ppc[p] = "read_latest"
    /\ latest' = [latest EXCEPT ![p] = Len(versions)]
    /\ base' = [base EXCEPT ![p] = Len(versions)]
    /\ ppc' = [ppc EXCEPT ![p] = "insert"]
    /\ UNCHANGED <<store, redis, snapshot, tries, gate, orderly, used>>

(* The row is there and the cache is still to follow. *)
Writing(p) == ppc[p] \in {"put", "invalidate"}

(* The unique index on the version column refuses a second row.            *)
(* Mutant: the row is inserted after whatever is there.                    *)
VersionFreeUnchecked(p) == TRUE
VersionFree(p) == latest[p] = Len(versions)

Insert(p) ==
    /\ ppc[p] = "insert"
    /\ Len(versions) < MaxVersions
    /\ \/ /\ VersionFree(p)
          /\ versions' = Append(versions, [base |-> base[p], content |-> snapshot[p]])
          /\ latest' = [latest EXCEPT ![p] = Len(versions) + 1]
          /\ ppc' = [ppc EXCEPT ![p] = "put"]
          /\ orderly' = (orderly /\ \A q \in Publishers : ~Writing(q))
          /\ UNCHANGED <<base, snapshot, tries>>
       \/ /\ ~VersionFree(p)
          /\ Return(p)
          /\ UNCHANGED <<versions, orderly>>
    /\ UNCHANGED <<draft, redis, gate, used>>

----------------------------------------------------------------------------
(* Mutant: the version is written without its snapshot. *)
WrittenVersionOnly(p) ==
    /\ redis_version' = latest[p]
    /\ UNCHANGED redis_snapshot

(* put_snapshot of the version just inserted.  The MULTI writes the        *)
(* version and its snapshot together and compares with nothing.            *)
Written(p) ==
    /\ redis_version' = latest[p]
    /\ redis_snapshot' = [redis_snapshot EXCEPT ![latest[p]] = snapshot[p]]

PutSnapshot(p) ==
    /\ ppc[p] = "put"
    /\ Written(p)
    /\ Return(p)
    /\ UNCHANGED <<store, gate, orderly, used>>

(* After RETRY_MAX failures publish_config invalidates.  Mutant: it gives  *)
(* up.                                                                     *)
PutAbandoned(p) ==
    /\ ppc[p] = "put"
    /\ Fault("write")
    /\ Return(p)
    /\ UNCHANGED <<store, redis, gate, orderly, edits>>

AttemptsLeft(p) == tries[p] + 1 < RetryMax

PutFails(p) ==
    /\ ppc[p] = "put"
    /\ Fault("write")
    /\ Written(p) \/ UNCHANGED redis
    /\ tries' = [tries EXCEPT ![p] = @ + 1]
    /\ ppc' = [ppc EXCEPT ![p] = IF AttemptsLeft(p) THEN "put" ELSE "invalidate"]
    /\ UNCHANGED <<store, base, snapshot, latest, gate, orderly, edits>>

(* Mutant: the version key goes back to the previous version. *)
InvalidateToPrevious(p) ==
    /\ ppc[p] = "invalidate"
    /\ redis_version' = latest[p] - 1
    /\ Return(p)
    /\ UNCHANGED <<redis_snapshot, store, gate, orderly, used>>

Invalidate(p) ==
    /\ ppc[p] = "invalidate"
    /\ \/ redis_version' = 0 /\ UNCHANGED <<redis_snapshot, orderly, faults>>
       \/ Fault("invalidate") /\ orderly' = FALSE /\ UNCHANGED redis
    /\ Return(p)
    /\ UNCHANGED <<store, gate, edits>>

(* The process dies, or a statement fails: the insert, or the read of the  *)
(* new row that rollback_config caches.  What was written before stays.    *)
Crash(p) ==
    /\ ppc[p] # "idle"
    /\ Fault("crash")
    /\ orderly' = (orderly /\ ~Writing(p))
    /\ Return(p)
    /\ UNCHANGED <<store, redis, gate, edits>>

----------------------------------------------------------------------------
(* Mutant: a gate skips a version it has already taken. *)
GetVersionSkipsKnown(g) ==
    /\ gpc[g] = "wait"
    /\ LET known == redis_version # 0 /\ redis_version = adopted[g]
       IN  \/ /\ got' = [got EXCEPT ![g] = redis_version]
              /\ gpc' = [gpc EXCEPT ![g] = IF known THEN "wait"
                                           ELSE IF redis_version = 0 THEN "database"
                                           ELSE "get_snapshot"]
              /\ UNCHANGED faults
           \/ /\ Fault("read")
              /\ gpc' = [gpc EXCEPT ![g] = "database"]
              /\ UNCHANGED got
    /\ UNCHANGED <<store, redis, publisher, active, adopted, orderly, edits>>

(* A gate's poll: get_snapshot is two GETs; no version, no snapshot or an  *)
(* error send it to the tables.                                            *)
GetVersion(g) ==
    /\ gpc[g] = "wait"
    /\ \/ /\ got' = [got EXCEPT ![g] = redis_version]
          /\ gpc' = [gpc EXCEPT ![g] = IF redis_version = 0 THEN "database" ELSE "get_snapshot"]
          /\ UNCHANGED faults
       \/ /\ Fault("read")
          /\ gpc' = [gpc EXCEPT ![g] = "database"]
          /\ UNCHANGED got
    /\ UNCHANGED <<store, redis, publisher, active, adopted, orderly, edits>>

GetSnapshot(g) ==
    /\ gpc[g] = "get_snapshot"
    /\ got' = [got EXCEPT ![g] = 0]
    /\ \/ /\ redis_snapshot[got[g]] # NoContent
          /\ active' = [active EXCEPT ![g] = redis_snapshot[got[g]]]
          /\ adopted' = [adopted EXCEPT ![g] = got[g]]
          /\ gpc' = [gpc EXCEPT ![g] = "wait"]
          /\ UNCHANGED faults
       \/ /\ redis_snapshot[got[g]] = NoContent \/ "read" \in Faults
          /\ IF redis_snapshot[got[g]] = NoContent THEN UNCHANGED faults ELSE Fault("read")
          /\ gpc' = [gpc EXCEPT ![g] = "database"]
          /\ UNCHANGED <<active, adopted>>
    /\ UNCHANGED <<store, redis, publisher, orderly, edits>>

(* Read the tables; a failure keeps the current configuration. *)
ReadTables(g) ==
    /\ gpc[g] = "database"
    /\ gpc' = [gpc EXCEPT ![g] = "wait"]
    /\ \/ active' = [active EXCEPT ![g] = draft] /\ UNCHANGED faults
       \/ Fault("read") /\ UNCHANGED active
    /\ UNCHANGED <<store, redis, publisher, got, adopted, orderly, edits>>

PublisherStep(p) ==
    CheckBase(p) \/ ReadLatest(p) \/ Insert(p) \/ PutSnapshot(p) \/ PutFails(p) \/ Invalidate(p)

GateStep(g) == GetVersion(g) \/ GetSnapshot(g) \/ ReadTables(g)

Next ==
    \/ \E c \in Contents : Edit(c)
    \/ \E p \in Publishers :
        \/ Len(versions) < MaxVersions /\ \E b \in 0..Len(versions) : StartPublish(p, b)
        \/ Len(versions) < MaxVersions /\ \E v \in 1..Len(versions) : StartRollback(p, v)
        \/ PublisherStep(p)
        \/ Crash(p)
    \/ \E g \in Gates : GateStep(g)

Spec == Init /\ [][Next]_vars

(* A started publish runs on and every gate keeps polling. *)
FairSpec ==
    /\ Spec
    /\ \A p \in Publishers : WF_vars(PublisherStep(p))
    /\ \A g \in Gates : WF_vars(GateStep(g))

----------------------------------------------------------------------------
(* Optimistic concurrency: whatever publishes and rollbacks race, the      *)
(* rows form one chain, each version based on the one before it, so no     *)
(* operator's version replaces one its author has not seen.                *)
VersionsChain == \A v \in 1..Len(versions) : versions[v].base = v - 1

(* What the version key names is in the cache, and every cached snapshot   *)
(* is the one of its version row, so the two GETs of a gate, with any      *)
(* number of publishes between them, return a published configuration.     *)
CacheMatchesVersions ==
    /\ redis_version # 0 => redis_snapshot[redis_version] # NoContent
    /\ \A v \in 1..MaxVersions :
        redis_snapshot[v] # NoContent =>
            v <= Len(versions) /\ redis_snapshot[v] = versions[v].content

(* Once no publish is under way the cache holds the latest version or      *)
(* none.  Failed writes, with or without effect, and reads in between do   *)
(* not change that; only publishes that overlap, an invalidation that      *)
(* fails and a control plane that dies before it has written do.           *)
CacheNotStale ==
    orderly /\ (\A p \in Publishers : ~Writing(p)) => redis_version \in {0, Len(versions)}

(* When publishing has stopped every gate ends up with the latest version, *)
(* or, if the cache was invalidated, with the business tables, although    *)
(* any of its reads may have failed on the way.                            *)
GatesConverge ==
    [](orderly) =>
        \A g \in Gates :
            <>[](IF redis_version = 0 THEN active[g] = draft
                 ELSE active[g] = versions[Len(versions)].content)

(* The abstract service: versions are only appended, and the version a     *)
(* gate has taken from the cache never goes back.                          *)
Promise == INSTANCE ConfigPromise
    WITH published <- [v \in 1..Len(versions) |-> versions[v].content],
         taken <- adopted

(* The distribution through Redis implements the abstract service: every   *)
(* publish, retry, invalidation, fallback and late second GET of a gate is *)
(* a step the promise allows.                                              *)
ImplementsPromise == Promise!Spec
============================================================================
