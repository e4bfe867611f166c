---------------------- MODULE ConfigDistributionProofs ----------------------
(***************************************************************************)
(* Proofs about ConfigDistribution, for any publishers, gates, faults and  *)
(* bounds.  The inductive invariant adds to the properties what a request  *)
(* between two of its statements relies on: the snapshot it carries, the   *)
(* base it has checked, and that the version it writes to the cache is its *)
(* own row.                                                                *)
(***************************************************************************)
EXTENDS ConfigDistribution, TLAPS

CarriesSnapshot == \A p \in Publishers : ppc[p] # "idle" => snapshot[p] \in Contents

BaseChecked == \A p \in Publishers : ppc[p] = "insert" => base[p] = latest[p]

OwnRow ==
    \A p \in Publishers : Writing(p) =>
        /\ latest[p] \in 1..Len(versions)
        /\ versions[latest[p]].content = snapshot[p]

TriesLeft ==
    \A p \in Publishers :
        /\ ppc[p] = "put" => tries[p] < RetryMax
        /\ ~Writing(p) => tries[p] = 0

GotCached ==
    \A g \in Gates : gpc[g] = "get_snapshot" =>
        got[g] \in 1..MaxVersions /\ redis_snapshot[got[g]] # NoContent

Bounded == Len(versions) <= MaxVersions /\ redis_version <= Len(versions)

IInv ==
    /\ TypeOK /\ CarriesSnapshot /\ BaseChecked /\ OwnRow /\ TriesLeft /\ GotCached /\ Bounded
    /\ VersionsChain /\ CacheMatchesVersions

----------------------------------------------------------------------------
(* No version, an empty cache and no request under way. *)
LEMMA InitIInv == Init => IInv
BY DistributionAssumption
   DEF Init, IInv, TypeOK, CarriesSnapshot, BaseChecked, OwnRow, TriesLeft, GotCached, Bounded,
       VersionsChain, CacheMatchesVersions, Rows, Writing

(* An answered request leaves nothing to maintain. *)
LEMMA ReturnStep ==
    ASSUME IInv, NEW p \in Publishers, Return(p)
    PROVE  /\ ppc' \in [Publishers -> {"idle", "read", "read_latest", "insert", "put", "invalidate"}]
           /\ base' \in [Publishers -> Nat]
           /\ snapshot' \in [Publishers -> Contents \cup {NoContent}]
           /\ latest' \in [Publishers -> Nat]
           /\ tries' \in [Publishers -> 0..RetryMax]
           /\ CarriesSnapshot' /\ BaseChecked' /\ TriesLeft'
           /\ UNCHANGED versions => OwnRow'
BY DistributionAssumption
   DEF IInv, TypeOK, Return, CarriesSnapshot, BaseChecked, OwnRow, TriesLeft, Writing

(* write_snapshot puts the row of the request in the cache. *)
LEMMA WrittenStep ==
    ASSUME IInv, NEW p \in Publishers, Writing(p), Written(p), UNCHANGED <<store, gate>>
    PROVE  /\ redis_version' \in Nat
           /\ redis_snapshot' \in [1..MaxVersions -> Contents \cup {NoContent}]
           /\ GotCached' /\ Bounded' /\ CacheMatchesVersions'
<1>1. latest[p] \in 1..Len(versions) /\ versions[latest[p]].content = snapshot[p]
  BY DEF IInv, OwnRow
<1>2. latest[p] \in 1..MaxVersions /\ snapshot[p] \in Contents
  BY <1>1, DistributionAssumption DEF IInv, Bounded, CarriesSnapshot, Writing, TypeOK
<1>3. redis_version' = latest[p]
      /\ redis_snapshot' = [redis_snapshot EXCEPT ![latest[p]] = snapshot[p]]
  BY DEF Written
<1>4. redis_snapshot \in [1..MaxVersions -> Contents \cup {NoContent}]
  BY DEF IInv, TypeOK
<1>5. GotCached'
  BY <1>2, <1>3, <1>4, DistributionAssumption DEF IInv, GotCached, gate
<1>6. Bounded'
  BY <1>1, <1>3 DEF IInv, Bounded, TypeOK, store
<1>7. CacheMatchesVersions'
  BY <1>1, <1>2, <1>3, <1>4, DistributionAssumption DEF IInv, CacheMatchesVersions, store
<1> QED BY <1>2, <1>3, <1>4, <1>5, <1>6, <1>7

----------------------------------------------------------------------------
(* A step that leaves the rows and the cache alone has only its own locals *)
(* to answer for.                                                          *)
LEMMA DataUnchanged ==
    ASSUME IInv, UNCHANGED <<versions, redis>>
    PROVE  /\ versions' \in Seq(Rows)
           /\ redis_version' \in Nat
           /\ redis_snapshot' \in [1..MaxVersions -> Contents \cup {NoContent}]
           /\ Bounded' /\ VersionsChain' /\ CacheMatchesVersions'
           /\ UNCHANGED gate => GotCached'
           /\ UNCHANGED publisher =>
                CarriesSnapshot' /\ BaseChecked' /\ OwnRow' /\ TriesLeft'
<1>1. versions' = versions /\ redis_version' = redis_version /\ redis_snapshot' = redis_snapshot
  BY DEF redis
<1>2. /\ versions' \in Seq(Rows)
      /\ redis_version' \in Nat
      /\ redis_snapshot' \in [1..MaxVersions -> Contents \cup {NoContent}]
  BY <1>1 DEF IInv, TypeOK
<1>3. Bounded' /\ VersionsChain' /\ CacheMatchesVersions'
  BY <1>1 DEF IInv, Bounded, VersionsChain, CacheMatchesVersions
<1>4. UNCHANGED gate => GotCached'
  BY <1>1 DEF IInv, GotCached, gate
<1>5. ASSUME UNCHANGED publisher
      PROVE  CarriesSnapshot' /\ BaseChecked' /\ OwnRow' /\ TriesLeft'
  BY <1>1, <1>5 DEF IInv, CarriesSnapshot, BaseChecked, OwnRow, TriesLeft, Writing, publisher
<1> QED BY <1>2, <1>3, <1>4, <1>5

(* A fault stays within the bound. *)
LEMMA FaultCounted ==
    ASSUME IInv, NEW k, Fault(k)
    PROVE  faults' \in 0..MaxFaults
BY DistributionAssumption DEF IInv, TypeOK, Fault

(* An edit of the business tables keeps the invariant. *)
LEMMA EditKeeps ==
    ASSUME IInv, NEW c \in Contents, Edit(c)
    PROVE  IInv'
<1>1. UNCHANGED <<versions, redis>> /\ UNCHANGED gate /\ UNCHANGED publisher
  BY DEF Edit
<1>2. TypeOK'
  <2>1. draft' \in Contents /\ edits' \in 0..MaxEdits
    BY DistributionAssumption DEF Edit, IInv, TypeOK
  <2> QED BY <1>1, <2>1, DataUnchanged DEF Edit, IInv, TypeOK, publisher, gate
<1> QED BY <1>1, <1>2, DataUnchanged DEF IInv

(* The start of publish_config keeps the invariant. *)
LEMMA StartPublishKeeps ==
    ASSUME IInv, NEW p \in Publishers, NEW b \in Nat, StartPublish(p, b)
    PROVE  IInv'
<1>1. UNCHANGED <<versions, redis>> /\ UNCHANGED gate
  BY DEF StartPublish, store
<1>2. TypeOK'
  BY <1>1, DataUnchanged DEF StartPublish, IInv, TypeOK, gate, store, used
<1>3. CarriesSnapshot' /\ BaseChecked' /\ OwnRow' /\ TriesLeft'
  BY <1>1 DEF StartPublish, IInv, TypeOK, CarriesSnapshot, BaseChecked, OwnRow, TriesLeft, Writing
<1> QED BY <1>1, <1>2, <1>3, DataUnchanged DEF IInv

(* The check of the base version keeps the invariant. *)
LEMMA CheckBaseKeeps ==
    ASSUME IInv, NEW p \in Publishers, CheckBase(p)
    PROVE  IInv'
<1>1. UNCHANGED <<versions, redis>> /\ UNCHANGED gate /\ UNCHANGED <<draft, orderly, edits, faults>>
  BY DEF CheckBase, store, used
<1>2. CASE Return(p)
  BY <1>1, <1>2, DataUnchanged, ReturnStep DEF IInv, TypeOK, gate
<1>3. CASE /\ base[p] = Len(versions)
           /\ latest' = [latest EXCEPT ![p] = Len(versions)]
           /\ ppc' = [ppc EXCEPT ![p] = "insert"]
           /\ UNCHANGED <<base, snapshot, tries>>
  <2>1. Len(versions) \in Nat
    BY DEF IInv, TypeOK
  <2>2. TypeOK'
    BY <1>1, <1>3, <2>1, DataUnchanged DEF IInv, TypeOK, gate
  <2>3. CarriesSnapshot' /\ BaseChecked' /\ OwnRow' /\ TriesLeft'
    BY <1>1, <1>3, <2>1
       DEF CheckBase, IInv, TypeOK, CarriesSnapshot, BaseChecked, OwnRow, TriesLeft, Writing
  <2> QED BY <1>1, <2>2, <2>3, DataUnchanged DEF IInv
<1> QED BY <1>2, <1>3 DEF CheckBase

(* The start of rollback_config keeps the invariant. *)
LEMMA StartRollbackKeeps ==
    ASSUME IInv, NEW p \in Publishers, NEW v \in 1..Len(versions), StartRollback(p, v)
    PROVE  IInv'
<1>1. UNCHANGED <<versions, redis>> /\ UNCHANGED gate
  BY DEF StartRollback
<1>2. versions[v].content \in Contents
  <2>1. versions[v] \in Rows
    BY DEF IInv, TypeOK
  <2> QED BY <2>1 DEF Rows
<1>3. TypeOK'
  BY <1>1, <1>2, DataUnchanged DEF StartRollback, IInv, TypeOK, gate, used
<1>4. CarriesSnapshot' /\ BaseChecked' /\ OwnRow' /\ TriesLeft'
  BY <1>1, <1>2
     DEF StartRollback, IInv, TypeOK, CarriesSnapshot, BaseChecked, OwnRow, TriesLeft, Writing
<1> QED BY <1>1, <1>3, <1>4, DataUnchanged DEF IInv

(* A rollback's read of the latest version keeps the invariant. *)
LEMMA ReadLatestKeeps ==
    ASSUME IInv, NEW p \in Publishers, ReadLatest(p)
    PROVE  IInv'
<1>1. UNCHANGED <<versions, redis>> /\ UNCHANGED gate
  BY DEF ReadLatest, store
<1>2. Len(versions) \in Nat
  BY DEF IInv, TypeOK
<1>3. TypeOK'
  BY <1>1, <1>2, DataUnchanged DEF ReadLatest, IInv, TypeOK, gate, store, used
<1>4. CarriesSnapshot' /\ BaseChecked' /\ OwnRow' /\ TriesLeft'
  BY <1>1, <1>2
     DEF ReadLatest, IInv, TypeOK, CarriesSnapshot, BaseChecked, OwnRow, TriesLeft, Writing
<1> QED BY <1>1, <1>3, <1>4, DataUnchanged DEF IInv

----------------------------------------------------------------------------
(* The new row extends the chain because the unique index let it in only   *)
(* after the version it was based on.                                      *)
LEMMA InsertKeeps ==
    ASSUME IInv, NEW p \in Publishers, Insert(p)
    PROVE  IInv'
<1>1. UNCHANGED redis /\ UNCHANGED gate /\ UNCHANGED <<draft, edits, faults>>
  BY DEF Insert, used
<1>2. CASE ~VersionFree(p)
  <2>1. Return(p) /\ UNCHANGED <<versions, orderly>>
    BY <1>2 DEF Insert
  <2> QED BY <1>1, <2>1, DataUnchanged, ReturnStep DEF IInv, TypeOK, gate
<1>3. CASE VersionFree(p)
  <2> DEFINE row == [base |-> base[p], content |-> snapshot[p]]
  <2>1. /\ ppc[p] = "insert" /\ Len(versions) < MaxVersions
        /\ versions' = Append(versions, row)
        /\ latest' = [latest EXCEPT ![p] = Len(versions) + 1]
        /\ ppc' = [ppc EXCEPT ![p] = "put"]
        /\ orderly' = (orderly /\ \A q \in Publishers : ~Writing(q))
        /\ UNCHANGED <<base, snapshot, tries>>
    BY <1>3 DEF Insert
  <2>2. snapshot[p] \in Contents /\ base[p] = Len(versions) /\ Len(versions) \in Nat
    BY <1>3, <2>1 DEF IInv, CarriesSnapshot, BaseChecked, VersionFree, TypeOK
  <2>3. row \in Rows
    BY <2>2 DEF Rows
  <2>4. /\ versions' \in Seq(Rows) /\ Len(versions') = Len(versions) + 1
        /\ \A v \in 1..Len(versions) : versions'[v] = versions[v]
        /\ versions'[Len(versions) + 1] = row
    BY <2>1, <2>3 DEF IInv, TypeOK
  <2>5. orderly' \in BOOLEAN
    BY <2>1
  <2>6. TypeOK'
    BY <1>1, <2>1, <2>2, <2>4, <2>5 DEF IInv, TypeOK, redis, gate
  <2>7. CarriesSnapshot' /\ BaseChecked'
    BY <2>1 DEF IInv, TypeOK, CarriesSnapshot, BaseChecked
  <2>8. OwnRow'
    BY <2>1, <2>2, <2>4 DEF IInv, TypeOK, OwnRow, Writing
  <2>9. TriesLeft'
    BY <2>1, DistributionAssumption DEF IInv, TypeOK, TriesLeft, Writing
  <2>10. GotCached'
    BY <1>1 DEF IInv, GotCached, gate, redis
  <2>11. Bounded'
    BY <1>1, <2>1, <2>2, <2>4, DistributionAssumption DEF IInv, TypeOK, Bounded, redis
  <2>12. VersionsChain'
    BY <2>2, <2>4 DEF IInv, VersionsChain
  <2>13. CacheMatchesVersions'
    BY <1>1, <2>2, <2>4, DistributionAssumption DEF IInv, TypeOK, CacheMatchesVersions, redis
  <2> QED BY <2>6, <2>7, <2>8, <2>9, <2>10, <2>11, <2>12, <2>13 DEF IInv
<1> QED BY <1>2, <1>3

(* A successful write of the cache keeps the invariant. *)
LEMMA PutSnapshotKeeps ==
    ASSUME IInv, NEW p \in Publishers, PutSnapshot(p)
    PROVE  IInv'
<1>1. /\ Writing(p) /\ Written(p) /\ Return(p)
      /\ UNCHANGED <<store, gate>> /\ UNCHANGED versions /\ UNCHANGED <<orderly, used>>
  BY DEF PutSnapshot, Writing, store
<1>2. VersionsChain' /\ versions' \in Seq(Rows)
  BY <1>1 DEF IInv, TypeOK, VersionsChain
<1>3. TypeOK'
  BY <1>1, <1>2, WrittenStep, ReturnStep DEF IInv, TypeOK, gate, store, used
<1> QED BY <1>1, <1>2, <1>3, WrittenStep, ReturnStep DEF IInv

(* A failed write, with or without effect, keeps the invariant. *)
LEMMA PutFailsKeeps ==
    ASSUME IInv, NEW p \in Publishers, PutFails(p)
    PROVE  IInv'
<1>1. /\ Writing(p) /\ ppc[p] = "put" /\ Fault("write")
      /\ Written(p) \/ UNCHANGED redis
      /\ UNCHANGED <<store, gate>> /\ UNCHANGED versions /\ UNCHANGED gate
      /\ UNCHANGED <<base, snapshot, latest, orderly, edits>>
  BY DEF PutFails, Writing, store
<1>2. /\ redis_version' \in Nat
      /\ redis_snapshot' \in [1..MaxVersions -> Contents \cup {NoContent}]
      /\ GotCached' /\ Bounded' /\ CacheMatchesVersions'
  BY <1>1, WrittenStep, DataUnchanged
<1>3. VersionsChain' /\ versions' \in Seq(Rows)
  BY <1>1 DEF IInv, TypeOK, VersionsChain
<1>4. tries[p] < RetryMax /\ tries[p] \in Nat
  BY <1>1, DistributionAssumption DEF IInv, TriesLeft, TypeOK
<1>5. /\ tries' = [tries EXCEPT ![p] = tries[p] + 1]
      /\ ppc' = [ppc EXCEPT ![p] = IF AttemptsLeft(p) THEN "put" ELSE "invalidate"]
  BY DEF PutFails
<1>6. /\ tries' \in [Publishers -> 0..RetryMax]
      /\ ppc' \in [Publishers -> {"idle", "read", "read_latest", "insert", "put", "invalidate"}]
  BY <1>4, <1>5, DistributionAssumption DEF IInv, TypeOK
<1>7. TypeOK'
  BY <1>1, <1>2, <1>3, <1>6, FaultCounted DEF IInv, TypeOK, gate, store
<1>8. CarriesSnapshot' /\ BaseChecked' /\ OwnRow'
  BY <1>1, <1>5 DEF IInv, TypeOK, CarriesSnapshot, BaseChecked, OwnRow, Writing
<1>9. TriesLeft'
  BY <1>1, <1>4, <1>5, DistributionAssumption DEF IInv, TypeOK, TriesLeft, Writing, AttemptsLeft
<1> QED BY <1>2, <1>3, <1>7, <1>8, <1>9 DEF IInv

(* The invalidation, and its failure, keep the invariant. *)
LEMMA InvalidateKeeps ==
    ASSUME IInv, NEW p \in Publishers, Invalidate(p)
    PROVE  IInv'
<1>1. Return(p) /\ UNCHANGED <<store, gate, edits>> /\ UNCHANGED versions /\ UNCHANGED gate
  BY DEF Invalidate, store
<1>2. redis_snapshot' = redis_snapshot /\ redis_version' \in {0, redis_version}
  BY DEF Invalidate, redis
<1>3. faults' \in 0..MaxFaults /\ orderly' \in BOOLEAN
  <2>1. CASE redis_version' = 0 /\ UNCHANGED <<redis_snapshot, orderly, faults>>
    BY <2>1 DEF IInv, TypeOK
  <2>2. CASE Fault("invalidate") /\ orderly' = FALSE /\ UNCHANGED redis
    BY <2>2, FaultCounted
  <2> QED BY <2>1, <2>2 DEF Invalidate
<1>4. VersionsChain' /\ versions' \in Seq(Rows) /\ Len(versions) \in Nat
  BY <1>1 DEF IInv, TypeOK, VersionsChain
<1>5. TypeOK'
  <2>1. redis_version' \in Nat
    BY <1>2 DEF IInv, TypeOK
  <2>2. UNCHANGED <<draft, edits, gpc, got, active, adopted>>
    BY <1>1 DEF gate, store
  <2>3. redis_snapshot' \in [1..MaxVersions -> Contents \cup {NoContent}]
    BY <1>2 DEF IInv, TypeOK
  <2> QED BY <1>1, <1>3, <1>4, <2>1, <2>2, <2>3, ReturnStep DEF IInv, TypeOK
<1>6. GotCached' /\ Bounded' /\ CacheMatchesVersions'
  BY <1>1, <1>2, <1>4 DEF IInv, GotCached, Bounded, CacheMatchesVersions, gate
<1> QED BY <1>1, <1>4, <1>5, <1>6, ReturnStep DEF IInv

(* A control plane that dies keeps the invariant. *)
LEMMA CrashKeeps ==
    ASSUME IInv, NEW p \in Publishers, Crash(p)
    PROVE  IInv'
<1>1. /\ Return(p) /\ Fault("crash")
      /\ UNCHANGED <<store, gate, edits>> /\ UNCHANGED <<versions, redis>> /\ UNCHANGED gate
  BY DEF Crash, store
<1>2. orderly' \in BOOLEAN
  BY DEF Crash
<1>3. TypeOK'
  BY <1>1, <1>2, FaultCounted, ReturnStep, DataUnchanged DEF IInv, TypeOK, gate, store
<1> QED BY <1>1, <1>3, ReturnStep, DataUnchanged DEF IInv

----------------------------------------------------------------------------
(* A gate's GET of the version key keeps the invariant. *)
LEMMA GetVersionKeeps ==
    ASSUME IInv, NEW g \in Gates, GetVersion(g)
    PROVE  IInv'
<1>1. /\ UNCHANGED <<versions, redis>> /\ UNCHANGED publisher
      /\ UNCHANGED <<draft, active, adopted, orderly, edits>>
  BY DEF GetVersion, store
<1>2. faults' \in 0..MaxFaults
  BY FaultCounted DEF GetVersion, IInv, TypeOK
<1>3. /\ got' \in [Gates -> Nat]
      /\ gpc' \in [Gates -> {"wait", "get_snapshot", "database"}]
  BY DEF GetVersion, IInv, TypeOK
<1>4. redis_version # 0 => redis_version \in 1..MaxVersions /\ redis_snapshot[redis_version] # NoContent
  BY DistributionAssumption DEF IInv, TypeOK, Bounded, CacheMatchesVersions
<1>5. GotCached'
  BY <1>1, <1>4 DEF GetVersion, IInv, TypeOK, GotCached, redis
<1>6. TypeOK'
  BY <1>1, <1>2, <1>3, DataUnchanged DEF IInv, TypeOK, publisher
<1> QED BY <1>1, <1>5, <1>6, DataUnchanged DEF IInv

(* A gate's GET of the snapshot keeps the invariant. *)
LEMMA GetSnapshotKeeps ==
    ASSUME IInv, NEW g \in Gates, GetSnapshot(g)
    PROVE  IInv'
<1>1. /\ UNCHANGED <<versions, redis>> /\ UNCHANGED publisher
      /\ UNCHANGED <<draft, orderly, edits>>
  BY DEF GetSnapshot, store
<1>2. faults' \in 0..MaxFaults
  BY FaultCounted DEF GetSnapshot, IInv, TypeOK
<1>3. redis_snapshot[got[g]] \in Contents
  BY DEF GetSnapshot, IInv, TypeOK, GotCached
<1>4. /\ got' \in [Gates -> Nat] /\ active' \in [Gates -> Contents]
      /\ adopted' \in [Gates -> Nat]
      /\ gpc' \in [Gates -> {"wait", "get_snapshot", "database"}]
  BY <1>3 DEF GetSnapshot, IInv, TypeOK
<1>5. GotCached'
  BY <1>1 DEF GetSnapshot, IInv, TypeOK, GotCached, redis
<1>6. TypeOK'
  BY <1>1, <1>2, <1>4, DataUnchanged DEF IInv, TypeOK, publisher
<1> QED BY <1>1, <1>5, <1>6, DataUnchanged DEF IInv

(* A gate's fallback to the business tables keeps the invariant. *)
LEMMA ReadTablesKeeps ==
    ASSUME IInv, NEW g \in Gates, ReadTables(g)
    PROVE  IInv'
<1>1. /\ UNCHANGED <<versions, redis>> /\ UNCHANGED publisher
      /\ UNCHANGED <<draft, got, adopted, orderly, edits>>
  BY DEF ReadTables, store
<1>2. faults' \in 0..MaxFaults
  BY FaultCounted DEF ReadTables, IInv, TypeOK
<1>3. /\ active' \in [Gates -> Contents]
      /\ gpc' \in [Gates -> {"wait", "get_snapshot", "database"}]
  BY DEF ReadTables, IInv, TypeOK
<1>4. GotCached'
  BY <1>1 DEF ReadTables, IInv, TypeOK, GotCached, redis
<1>5. TypeOK'
  BY <1>1, <1>2, <1>3, DataUnchanged DEF IInv, TypeOK, publisher
<1> QED BY <1>1, <1>4, <1>5, DataUnchanged DEF IInv

(* Every step keeps the invariant. *)
LEMMA NextIInv == IInv /\ [Next]_vars => IInv'
<1> SUFFICES ASSUME IInv, [Next]_vars
             PROVE  IInv'
  OBVIOUS
<1>1. CASE UNCHANGED vars
  <2>1. /\ UNCHANGED <<versions, redis>> /\ UNCHANGED gate /\ UNCHANGED publisher
        /\ UNCHANGED <<draft, orderly, edits, faults>>
    BY <1>1 DEF vars, store, used
  <2>2. TypeOK'
    BY <2>1, DataUnchanged DEF IInv, TypeOK, gate, publisher
  <2> QED BY <2>1, <2>2, DataUnchanged DEF IInv
<1>2. ASSUME NEW c \in Contents, Edit(c) PROVE IInv'
  BY <1>2, EditKeeps
<1>3. ASSUME NEW p \in Publishers, NEW b \in 0..Len(versions), StartPublish(p, b) PROVE IInv'
  <2>1. b \in Nat
    OBVIOUS
  <2> QED BY <1>3, <2>1, StartPublishKeeps
<1>4. ASSUME NEW p \in Publishers, NEW v \in 1..Len(versions), StartRollback(p, v) PROVE IInv'
  BY <1>4, StartRollbackKeeps
<1>5. ASSUME NEW p \in Publishers, PublisherStep(p) PROVE IInv'
  BY <1>5, CheckBaseKeeps, ReadLatestKeeps, InsertKeeps, PutSnapshotKeeps, PutFailsKeeps,
     InvalidateKeeps DEF PublisherStep
<1>6. ASSUME NEW p \in Publishers, Crash(p) PROVE IInv'
  BY <1>6, CrashKeeps
<1>7. ASSUME NEW g \in Gates, GateStep(g) PROVE IInv'
  BY <1>7, GetVersionKeeps, GetSnapshotKeeps, ReadTablesKeeps DEF GateStep
<1> QED BY <1>1, <1>2, <1>3, <1>4, <1>5, <1>6, <1>7 DEF Next

(* The inductive invariant holds in every reachable state. *)
THEOREM DistributionInvariant == Spec => []IInv
BY InitIInv, NextIInv, PTL DEF Spec

(* Types, for any publishers, gates, faults and bounds. *)
THEOREM DistributionTypeOK == Spec => []TypeOK
<1>1. IInv => TypeOK
  BY DEF IInv
<1> QED BY <1>1, DistributionInvariant, PTL

(* Optimistic concurrency: whatever publishes and rollbacks race, each     *)
(* version row of config_versions is based on the one before it.           *)
THEOREM VersionsAlwaysChain == Spec => []VersionsChain
<1>1. IInv => VersionsChain
  BY DEF IInv
<1> QED BY <1>1, DistributionInvariant, PTL

(* The Redis cache never names a version it does not hold, and what it     *)
(* holds are the snapshots of the version rows.                            *)
THEOREM CacheAlwaysMatches == Spec => []CacheMatchesVersions
<1>1. IInv => CacheMatchesVersions
  BY DEF IInv
<1> QED BY <1>1, DistributionInvariant, PTL

----------------------------------------------------------------------------
(* While publishes are orderly there is at most one request between its    *)
(* row and its cache write, and its row is the latest.                     *)
Fresh ==
    orderly =>
        /\ \A p, q \in Publishers : Writing(p) /\ Writing(q) => p = q
        /\ \A p \in Publishers : Writing(p) => latest[p] = Len(versions)
        /\ (\A p \in Publishers : ~Writing(p)) => redis_version \in {0, Len(versions)}

(* Steps that insert no row, write no cache and leave who is writing. *)
LEMMA FreshQuiet ==
    ASSUME Fresh, UNCHANGED <<versions, redis, orderly>>,
           \A p \in Publishers : Writing(p)' = Writing(p),
           \A p \in Publishers : Writing(p) => latest'[p] = latest[p]
    PROVE  Fresh'
BY DEF Fresh, redis

(* The only writer has answered: what it leaves in the cache is the latest *)
(* version, or nothing.                                                    *)
LEMMA FreshReturn ==
    ASSUME IInv, Fresh, NEW p \in Publishers, Writing(p), Return(p),
           UNCHANGED versions, orderly' => orderly,
           orderly' => redis_version' \in {0, latest[p]}
    PROVE  Fresh'
<1> SUFFICES ASSUME orderly'
             PROVE  /\ \A q \in Publishers : ~Writing(q)'
                    /\ redis_version' \in {0, Len(versions)'}
  BY DEF Fresh
<1>1. \A q \in Publishers : Writing(q) => q = p
  BY DEF Fresh
<1>2. \A q \in Publishers : ~Writing(q)'
  BY <1>1 DEF Return, Writing, IInv, TypeOK
<1>3. redis_version' \in {0, Len(versions)'}
  BY DEF Fresh
<1> QED BY <1>2, <1>3

(* Every step of a publish or rollback keeps the cache fresh. *)
LEMMA FreshPublisher ==
    ASSUME IInv, Fresh, NEW p \in Publishers, PublisherStep(p)
    PROVE  Fresh'
<1>1. CASE CheckBase(p)
  <2>1. UNCHANGED <<versions, redis, orderly>>
    BY <1>1 DEF CheckBase, store
  <2>2. \A q \in Publishers : Writing(q)' = Writing(q)
    BY <1>1 DEF CheckBase, Return, Writing, IInv, TypeOK
  <2>3. \A q \in Publishers : Writing(q) => latest'[q] = latest[q]
    BY <1>1 DEF CheckBase, Return, Writing, IInv, TypeOK
  <2> QED BY <2>1, <2>2, <2>3, FreshQuiet
<1>2. CASE ReadLatest(p)
  <2>1. UNCHANGED <<versions, redis, orderly>>
    BY <1>2 DEF ReadLatest, store
  <2>2. \A q \in Publishers : Writing(q)' = Writing(q)
    BY <1>2 DEF ReadLatest, Writing, IInv, TypeOK
  <2>3. \A q \in Publishers : Writing(q) => latest'[q] = latest[q]
    BY <1>2 DEF ReadLatest, Writing, IInv, TypeOK
  <2> QED BY <2>1, <2>2, <2>3, FreshQuiet
<1>3. CASE Insert(p)
  <2>1. CASE VersionFree(p)
    <3>1. /\ versions' = Append(versions, [base |-> base[p], content |-> snapshot[p]])
          /\ latest' = [latest EXCEPT ![p] = Len(versions) + 1]
          /\ ppc' = [ppc EXCEPT ![p] = "put"]
          /\ orderly' = (orderly /\ \A q \in Publishers : ~Writing(q))
      BY <1>3, <2>1 DEF Insert
    <3>2. snapshot[p] \in Contents /\ base[p] \in Nat
      BY <1>3 DEF Insert, IInv, CarriesSnapshot, TypeOK
    <3>3. Len(versions') = Len(versions) + 1
      BY <3>1, <3>2 DEF IInv, TypeOK, Rows
    <3>4. orderly' => \A q \in Publishers : Writing(q)' => q = p
      BY <3>1 DEF Writing, IInv, TypeOK
    <3>5. Writing(p)' /\ latest'[p] = Len(versions')
      BY <3>1, <3>3 DEF Writing, IInv, TypeOK
    <3> QED BY <3>4, <3>5 DEF Fresh
  <2>2. CASE ~VersionFree(p)
    <3>1. UNCHANGED <<versions, redis, orderly>> /\ Return(p) /\ ppc[p] = "insert"
      BY <1>3, <2>2 DEF Insert
    <3>2. \A q \in Publishers : Writing(q)' = Writing(q)
      BY <3>1 DEF Return, Writing, IInv, TypeOK
    <3>3. \A q \in Publishers : Writing(q) => latest'[q] = latest[q]
      BY <3>1 DEF Return, Writing, IInv, TypeOK
    <3> QED BY <3>1, <3>2, <3>3, FreshQuiet
  <2> QED BY <2>1, <2>2
<1>4. CASE PutSnapshot(p)
  BY <1>4, FreshReturn DEF PutSnapshot, Written, Writing, store
<1>5. CASE PutFails(p)
  <2>1. /\ UNCHANGED <<versions, latest, orderly>> /\ Writing(p)
        /\ ppc' = [ppc EXCEPT ![p] = IF AttemptsLeft(p) THEN "put" ELSE "invalidate"]
    BY <1>5 DEF PutFails, Writing, store
  <2>2. \A q \in Publishers : Writing(q)' = Writing(q)
    BY <2>1 DEF Writing, IInv, TypeOK
  <2> QED BY <2>1, <2>2 DEF Fresh
<1>6. CASE Invalidate(p)
  <2>1. Writing(p) /\ Return(p) /\ UNCHANGED versions
    BY <1>6 DEF Invalidate, Writing, store
  <2>2. CASE redis_version' = 0 /\ UNCHANGED orderly
    BY <2>1, <2>2, FreshReturn
  <2>3. CASE orderly' = FALSE
    BY <2>3 DEF Fresh
  <2> QED BY <1>6, <2>2, <2>3 DEF Invalidate
<1> QED BY <1>1, <1>2, <1>3, <1>4, <1>5, <1>6 DEF PublisherStep

(* Every step keeps the cache fresh. *)
LEMMA NextFresh == IInv /\ Fresh /\ [Next]_vars => Fresh'
<1> SUFFICES ASSUME IInv, Fresh, [Next]_vars
             PROVE  Fresh'
  OBVIOUS
<1>1. ASSUME UNCHANGED <<versions, redis, publisher, orderly>> PROVE Fresh'
  <2>1. UNCHANGED <<versions, redis, orderly>>
    BY <1>1
  <2>2. \A q \in Publishers : Writing(q)' = Writing(q)
    BY <1>1 DEF Writing, publisher
  <2>3. \A q \in Publishers : Writing(q) => latest'[q] = latest[q]
    BY <1>1 DEF publisher
  <2> QED BY <2>1, <2>2, <2>3, FreshQuiet
<1>2. CASE UNCHANGED vars
  BY <1>1, <1>2 DEF vars, store
<1>3. ASSUME NEW c \in Contents, Edit(c) PROVE Fresh'
  BY <1>1, <1>3 DEF Edit
<1>4. ASSUME NEW p \in Publishers, NEW b, StartPublish(p, b) PROVE Fresh'
  <2>1. UNCHANGED <<versions, redis, orderly>> /\ UNCHANGED latest
    BY <1>4 DEF StartPublish, store
  <2>2. \A q \in Publishers : Writing(q)' = Writing(q)
    BY <1>4 DEF StartPublish, Writing, IInv, TypeOK
  <2> QED BY <2>1, <2>2, FreshQuiet
<1>5. ASSUME NEW p \in Publishers, NEW v, StartRollback(p, v) PROVE Fresh'
  <2>1. UNCHANGED <<versions, redis, orderly>> /\ UNCHANGED latest
    BY <1>5 DEF StartRollback
  <2>2. \A q \in Publishers : Writing(q)' = Writing(q)
    BY <1>5 DEF StartRollback, Writing, IInv, TypeOK
  <2> QED BY <2>1, <2>2, FreshQuiet
<1>6. ASSUME NEW p \in Publishers, PublisherStep(p) PROVE Fresh'
  BY <1>6, FreshPublisher
<1>7. ASSUME NEW p \in Publishers, Crash(p) PROVE Fresh'
  <2>1. CASE Writing(p)
    BY <1>7, <2>1 DEF Crash, Fresh
  <2>2. CASE ~Writing(p)
    <3>1. UNCHANGED <<versions, redis>> /\ Return(p) /\ orderly' = orderly
      BY <1>7, <2>2 DEF Crash, store, IInv, TypeOK
    <3>2. \A q \in Publishers : Writing(q)' = Writing(q)
      BY <2>2, <3>1 DEF Return, Writing, IInv, TypeOK
    <3>3. \A q \in Publishers : Writing(q) => latest'[q] = latest[q]
      BY <2>2, <3>1 DEF Return, Writing, IInv, TypeOK
    <3> QED BY <3>1, <3>2, <3>3, FreshQuiet
  <2> QED BY <2>1, <2>2
<1>8. ASSUME NEW g \in Gates, GateStep(g) PROVE Fresh'
  BY <1>1, <1>8 DEF GateStep, GetVersion, GetSnapshot, ReadTables, store
<1> QED BY <1>2, <1>3, <1>4, <1>5, <1>6, <1>7, <1>8 DEF Next

(* As long as publishes do not overlap and are not cut short, the cache    *)
(* holds the latest version or none whenever no publish is under way,      *)
(* however many of its writes and reads have failed.                       *)
THEOREM CacheNeverLeftStale == Spec => []CacheNotStale
<1>1. Init => Fresh
  BY DEF Init, Fresh, Writing
<1>2. Fresh => CacheNotStale
  BY DEF Fresh, CacheNotStale
<1> QED BY <1>1, <1>2, NextFresh, DistributionInvariant, PTL DEF Spec
=============================================================================
