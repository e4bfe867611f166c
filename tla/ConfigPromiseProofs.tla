------------------------ MODULE ConfigPromiseProofs ------------------------
(***************************************************************************)
(* Proof that ConfigDistribution implements ConfigPromise, for any         *)
(* publishers, gates, faults and bounds.  What it needs beyond the         *)
(* invariants of ConfigDistributionProofs is that, while publishes are     *)
(* orderly, the cache never names a version older than one some gate has   *)
(* taken or is about to take.                                              *)
(***************************************************************************)
EXTENDS ConfigDistributionProofs

GateOrdered ==
    \A g \in Gates :
        /\ adopted[g] <= Len(versions)
        /\ gpc[g] = "get_snapshot" => got[g] <= Len(versions)
        /\ orderly /\ redis_version # 0 => adopted[g] <= redis_version
        /\ orderly /\ gpc[g] = "get_snapshot" =>
               /\ adopted[g] <= got[g]
               /\ redis_version # 0 => got[g] <= redis_version

(* Versions are only added, and what is written to the cache in an orderly *)
(* history is the latest version, or nothing.                              *)
LEMMA OrderedKept ==
    ASSUME IInv, GateOrdered, UNCHANGED gate,
           Len(versions') \in Nat, Len(versions) <= Len(versions'),
           orderly' => orderly,
           orderly' => redis_version' \in {0, redis_version, Len(versions')}
    PROVE  GateOrdered'
<1>1. /\ adopted \in [Gates -> Nat] /\ got \in [Gates -> Nat]
      /\ Len(versions) \in Nat /\ redis_version \in Nat
  BY DEF IInv, TypeOK
<1>2. UNCHANGED <<gpc, got, adopted>>
  BY DEF gate
<1> QED BY <1>1, <1>2 DEF GateOrdered

(* What a step of a publisher does to rows, cache and order. *)
LEMMA PublisherOrdered ==
    ASSUME IInv, Fresh, NEW p \in Publishers, PublisherStep(p)
    PROVE  /\ UNCHANGED gate
           /\ Len(versions') \in Nat /\ Len(versions) <= Len(versions')
           /\ orderly' => orderly
           /\ orderly' => redis_version' \in {0, redis_version, Len(versions')}
<1>0. Len(versions) \in Nat
  BY DEF IInv, TypeOK
<1>1. CASE CheckBase(p) \/ ReadLatest(p)
  BY <1>0, <1>1 DEF CheckBase, ReadLatest, store, redis
<1>2. CASE Insert(p)
  <2>1. UNCHANGED <<redis, gate>>
    BY <1>2 DEF Insert
  <2>4. orderly' => orderly
    BY <1>2 DEF Insert, IInv, TypeOK
  <2>2. CASE VersionFree(p)
    <3>1. snapshot[p] \in Contents /\ base[p] \in Nat
      BY <1>2 DEF Insert, IInv, CarriesSnapshot, TypeOK
    <3>2. Len(versions') = Len(versions) + 1
      BY <1>2, <2>2, <3>1 DEF Insert, IInv, TypeOK, Rows
    <3> QED BY <1>0, <2>1, <2>4, <3>2 DEF redis
  <2>3. CASE ~VersionFree(p)
    BY <1>0, <1>2, <2>1, <2>3, <2>4 DEF Insert, redis
  <2> QED BY <2>2, <2>3
<1>3. CASE PutSnapshot(p) \/ PutFails(p)
  <2>1. UNCHANGED <<versions, gate, orderly>> /\ Writing(p)
    BY <1>3 DEF PutSnapshot, PutFails, store, Writing
  <2>2. redis_version' \in {latest[p], redis_version}
    BY <1>3 DEF PutSnapshot, PutFails, Written, redis
  <2>3. orderly => latest[p] = Len(versions)
    BY <2>1 DEF Fresh
  <2> QED BY <1>0, <2>1, <2>2, <2>3
<1>4. CASE Invalidate(p)
  BY <1>0, <1>4 DEF Invalidate, store, redis
<1> QED BY <1>1, <1>2, <1>3, <1>4 DEF PublisherStep

(* A gate takes the version it was given, which is the cache's. *)
LEMMA GateOrderedStep ==
    ASSUME IInv, GateOrdered, NEW g \in Gates, GateStep(g)
    PROVE  GateOrdered'
<1>1. /\ adopted \in [Gates -> Nat] /\ got \in [Gates -> Nat]
      /\ gpc \in [Gates -> {"wait", "get_snapshot", "database"}]
      /\ Len(versions) \in Nat /\ redis_version \in Nat /\ redis_version <= Len(versions)
  BY DEF IInv, TypeOK, Bounded
<1>2. UNCHANGED <<versions, redis_version, orderly>>
  BY DEF GateStep, GetVersion, GetSnapshot, ReadTables, store, redis
<1>3. CASE GetVersion(g)
  BY <1>1, <1>2, <1>3 DEF GetVersion, GateOrdered
<1>4. CASE GetSnapshot(g)
  BY <1>1, <1>2, <1>4 DEF GetSnapshot, GateOrdered
<1>5. CASE ReadTables(g)
  BY <1>1, <1>2, <1>5 DEF ReadTables, GateOrdered
<1> QED BY <1>3, <1>4, <1>5 DEF GateStep

(* Every step keeps the gates in order. *)
LEMMA NextOrdered == IInv /\ Fresh /\ GateOrdered /\ [Next]_vars => GateOrdered'
<1> SUFFICES ASSUME IInv, Fresh, GateOrdered, [Next]_vars
             PROVE  GateOrdered'
  OBVIOUS
<1>0. Len(versions) \in Nat
  BY DEF IInv, TypeOK
<1>1. ASSUME UNCHANGED <<versions, redis, gate>>, orderly' => orderly PROVE GateOrdered'
  BY <1>0, <1>1, OrderedKept DEF redis
<1>2. CASE UNCHANGED vars
  BY <1>1, <1>2 DEF vars, store
<1>3. ASSUME NEW c \in Contents, Edit(c) PROVE GateOrdered'
  BY <1>1, <1>3 DEF Edit
<1>4. ASSUME NEW p \in Publishers, NEW b, StartPublish(p, b) PROVE GateOrdered'
  BY <1>1, <1>4 DEF StartPublish, store
<1>5. ASSUME NEW p \in Publishers, NEW v, StartRollback(p, v) PROVE GateOrdered'
  BY <1>1, <1>5 DEF StartRollback
<1>6. ASSUME NEW p \in Publishers, PublisherStep(p) PROVE GateOrdered'
  BY <1>6, PublisherOrdered, OrderedKept
<1>7. ASSUME NEW p \in Publishers, Crash(p) PROVE GateOrdered'
  BY <1>1, <1>7 DEF Crash, store
<1>8. ASSUME NEW g \in Gates, GateStep(g) PROVE GateOrdered'
  BY <1>8, GateOrderedStep
<1> QED BY <1>2, <1>3, <1>4, <1>5, <1>6, <1>7, <1>8 DEF Next

----------------------------------------------------------------------------
(* A published version appends its content to the abstract history. *)
LEMMA PublishedAppended ==
    ASSUME IInv, NEW c \in Contents, NEW b \in Nat,
           versions' = Append(versions, [base |-> b, content |-> c])
    PROVE  [v \in 1..Len(versions') |-> versions'[v].content]
               = Append([v \in 1..Len(versions) |-> versions[v].content], c)
<1> DEFINE row == [base |-> b, content |-> c]
           old == [v \in 1..Len(versions) |-> versions[v].content]
           new == [v \in 1..Len(versions') |-> versions'[v].content]
<1>1. versions \in Seq(Rows) /\ row \in Rows /\ Len(versions) \in Nat
  BY DEF IInv, TypeOK, Rows
<1>2. /\ Len(versions') = Len(versions) + 1
      /\ \A v \in 1..Len(versions) : versions'[v] = versions[v]
      /\ versions'[Len(versions) + 1] = row
  BY <1>1
<1>3. old \in Seq(Contents) /\ Len(old) = Len(versions)
  <2>1. ASSUME NEW v \in 1..Len(versions) PROVE versions[v].content \in Contents
    <3>1. versions[v] \in Rows
      BY <1>1
    <3> QED BY <3>1 DEF Rows
  <2>2. old \in [1..Len(versions) -> Contents]
    BY <2>1, Zenon
  <2> QED BY <1>1, <2>2
<1>4. /\ Append(old, c) \in Seq(Contents) /\ Len(Append(old, c)) = Len(versions) + 1
      /\ \A v \in 1..Len(versions) : Append(old, c)[v] = versions[v].content
      /\ Append(old, c)[Len(versions) + 1] = c
  BY <1>3
<1>5. \A v \in 1..Len(versions') : new[v] = Append(old, c)[v]
  BY <1>1, <1>2, <1>4
<1>6. DOMAIN Append(old, c) = 1..Len(versions')
  BY <1>2, <1>4
<1> QED BY <1>4, <1>5, <1>6

(* Every step of the distribution is a step of the promise, or none. *)
LEMMA NextPromised ==
    IInv /\ GateOrdered /\ [Next]_vars => [Promise!Next]_(Promise!vars)
<1> SUFFICES ASSUME IInv, GateOrdered, [Next]_vars
             PROVE  [Promise!Next]_(Promise!vars)
  OBVIOUS
<1>1. ASSUME UNCHANGED <<versions, adopted, orderly>> PROVE UNCHANGED Promise!vars
  BY <1>1 DEF Promise!vars
<1>2. ASSUME UNCHANGED <<versions, adopted>>, orderly' \in {orderly, FALSE}
      PROVE  [Promise!Next]_(Promise!vars)
  BY <1>1, <1>2 DEF Promise!Next, Promise!Disorder
<1>3. ASSUME NEW p \in Publishers, Insert(p) PROVE [Promise!Next]_(Promise!vars)
  <2>1. CASE VersionFree(p)
    <3>1. snapshot[p] \in Contents /\ base[p] \in Nat
      BY <1>3 DEF Insert, IInv, CarriesSnapshot, TypeOK
    <3>2. [v \in 1..Len(versions') |-> versions'[v].content]
              = Append([v \in 1..Len(versions) |-> versions[v].content], snapshot[p])
      BY <1>3, <2>1, <3>1, PublishedAppended DEF Insert
    <3>3. orderly' \in {orderly, FALSE}
      BY <1>3, <2>1 DEF Insert, IInv, TypeOK
    <3>4. UNCHANGED adopted
      BY <1>3 DEF Insert, gate
    <3>5. Promise!Publish(snapshot[p])
      BY <3>2, <3>3, <3>4 DEF Promise!Publish
    <3> QED BY <3>1, <3>5 DEF Promise!Next, Promise!Publish
  <2>2. CASE ~VersionFree(p)
    BY <1>1, <1>3, <2>2 DEF Insert, gate
  <2> QED BY <2>1, <2>2
<1>4. ASSUME NEW p \in Publishers, PublisherStep(p) PROVE [Promise!Next]_(Promise!vars)
  <2>1. CASE CheckBase(p) \/ ReadLatest(p) \/ PutSnapshot(p) \/ PutFails(p)
    BY <1>1, <2>1 DEF CheckBase, ReadLatest, PutSnapshot, PutFails, store, gate
  <2>2. CASE Invalidate(p)
    BY <1>2, <2>2 DEF Invalidate, store, gate
  <2> QED BY <1>3, <1>4, <2>1, <2>2 DEF PublisherStep
<1>5. ASSUME NEW p \in Publishers, Crash(p) PROVE [Promise!Next]_(Promise!vars)
  <2>1. orderly' \in {orderly, FALSE}
    BY <1>5 DEF Crash, IInv, TypeOK
  <2> QED BY <1>2, <1>5, <2>1 DEF Crash, store, gate
<1>6. ASSUME NEW g \in Gates, GetSnapshot(g) PROVE [Promise!Next]_(Promise!vars)
  <2>1. UNCHANGED <<versions, orderly>>
    BY <1>6 DEF GetSnapshot, store
  <2>2. CASE adopted' = [adopted EXCEPT ![g] = got[g]]
    <3>1. /\ got[g] \in 1..Len(versions)
          /\ orderly => got[g] >= adopted[g]
      BY <1>6 DEF GetSnapshot, GateOrdered, IInv, TypeOK, GotCached
    <3>2. Len([v \in 1..Len(versions) |-> versions[v].content]) = Len(versions)
      BY DEF IInv, TypeOK
    <3>3. Promise!Take(g, got[g])
      BY <2>1, <2>2, <3>1 DEF Promise!Take
    <3> QED BY <3>1, <3>2, <3>3 DEF Promise!Next
  <2>3. CASE UNCHANGED adopted
    BY <1>1, <2>1, <2>3
  <2> QED BY <1>6, <2>2, <2>3 DEF GetSnapshot
<1>7. ASSUME NEW g \in Gates, GetVersion(g) \/ ReadTables(g) PROVE [Promise!Next]_(Promise!vars)
  BY <1>1, <1>7 DEF GetVersion, ReadTables, store
<1>8. CASE UNCHANGED vars
  BY <1>1, <1>8 DEF vars, store, gate
<1>9. ASSUME NEW c \in Contents, Edit(c) PROVE [Promise!Next]_(Promise!vars)
  BY <1>1, <1>9 DEF Edit, gate
<1>10. ASSUME NEW p \in Publishers, NEW b, StartPublish(p, b) \/ StartRollback(p, b)
       PROVE  [Promise!Next]_(Promise!vars)
  BY <1>1, <1>10 DEF StartPublish, StartRollback, store, gate
<1> QED BY <1>4, <1>5, <1>6, <1>7, <1>8, <1>9, <1>10 DEF Next, GateStep

(* The publish and poll paths through the database and Redis implement the *)
(* abstract service: the history only grows, and while publishes are       *)
(* orderly no gate goes back behind a version it has taken from the cache. *)
THEOREM DistributionImplementsPromise == Spec => ImplementsPromise
<1>1. Init => Promise!Init
  <2>1. ASSUME versions = <<>> PROVE [v \in 1..Len(versions) |-> versions[v].content] = <<>>
    BY <2>1
  <2> QED BY <2>1 DEF Init, Promise!Init
<1>2. Init => Fresh /\ GateOrdered
  BY DEF Init, Fresh, Writing, GateOrdered
<1>3. Spec => [](IInv /\ Fresh /\ GateOrdered)
  BY <1>2, NextFresh, NextOrdered, DistributionInvariant, PTL DEF Spec
<1> QED BY <1>1, <1>3, NextPromised, PTL DEF Spec, ImplementsPromise, Promise!Spec
============================================================================
