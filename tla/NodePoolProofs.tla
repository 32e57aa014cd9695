--------------------------- MODULE NodePoolProofs ---------------------------
(***************************************************************************)
(* What holds of the NodePool controller for every value of the constants. *)
(***************************************************************************)
EXTENDS NodePool, TLAPS

-----------------------------------------------------------------------------
(* Type correctness                                                        *)

LEMMA StatusType == NoStatus \in Status
BY BoundsAssumption DEF NoStatus, Status, States, NoVersion

LEMMA DeletedType ==
    ASSUME NEW s \in NodeSetObject
    PROVE  Deleted(s) \in NodeSetObject \cup {Absent}
BY DEF Deleted, NodeSetObject

\* The copies a reconciliation works on are objects once it has read them, and
\* it holds NodeSets to delete only while it deletes.
Copies ==
    \A p \in Pools :
        /\ pc[p] # "idle" => instance[p] # Absent
        /\ pc[p] \in {"update", "list", "delete", "status"} => found[p] # Absent
        /\ pc[p] # "delete" => doomed[p] = {}

LEMMA FinishType ==
    ASSUME TypeOK, Copies, NEW p \in Pools, NEW again \in BOOLEAN,
           Finish(p, again)
    PROVE  /\ pc' \in [Pools -> Steps]
           /\ queued' \in [Pools -> BOOLEAN]
           /\ instance' \in [Pools -> PoolObject \cup {Absent}]
           /\ found' \in [Pools -> NodeSetObject \cup {Absent}]
           /\ doomed' \in [Pools -> SUBSET Names]
           /\ Copies'
BY DEF Finish, TypeOK, Copies, Steps

LEMMA InitType == Init => TypeOK /\ Copies
BY StatusType, BoundsAssumption
DEF Init, TypeOK, Copies, Steps, PoolObject, Names

LEMMA ReconcileType ==
    ASSUME TypeOK, Copies, NEW p \in Pools, Reconcile(p)
    PROVE  TypeOK' /\ Copies'
<1> USE DEF vars, api, caches, worker, bounds
<1>1. CASE Start(p)
  BY <1>1 DEF Start, TypeOK, Copies, Steps
<1>2. CASE Fetch(p)
  <2>1. Target(p) \in Names
    BY <1>2 DEF Fetch, Target, Name, Names, TypeOK, Copies, PoolObject
  <2> QED
    BY <1>2, <2>1 DEF Fetch, TypeOK, Copies, Steps, AfterSpec
<1>3. CASE Create(p)
  <2>1. Target(p) \in Names /\ NewNodeSet(instance[p]) \in NodeSetObject
    BY <1>3, StatusType
    DEF Create, Target, Name, Names, TypeOK, Copies, PoolObject, NewNodeSet,
        NodeSetObject
  <2>2. nodeSet' \in [Names -> NodeSetObject \cup {Absent}]
    BY <1>3, <2>1 DEF Create, TypeOK
  <2> QED
    BY <1>3, <2>2, FinishType DEF Create, Retry, TypeOK
<1>4. CASE Update(p)
  <2>1. Target(p) \in Names /\ instance[p] \in PoolObject
        /\ found[p] \in NodeSetObject
    BY <1>4 DEF Update, Target, Name, Names, TypeOK, Copies, PoolObject
  <2>2. CASE nodeSet[Target(p)] = found[p]
    <3> DEFINE s == [found[p] EXCEPT !.sku = instance[p].sku,
                                     !.replicas = instance[p].replicas]
    <3>1. s \in NodeSetObject
      BY <2>1 DEF NodeSetObject, PoolObject
    <3>2. /\ nodeSet' = [nodeSet EXCEPT ![Target(p)] = s]
          /\ found' = [found EXCEPT ![p] = s]
          /\ pc' = [pc EXCEPT ![p] = AfterSpec(p, s)]
          /\ UNCHANGED <<queued, instance, doomed>>
      BY <1>4, <2>2 DEF Update
    <3>3. AfterSpec(p, s) \in {"list", "status"}
      BY DEF AfterSpec
    <3> QED
      BY <1>4, <2>1, <3>1, <3>2, <3>3, AbsentAssumption
      DEF Update, TypeOK, Copies, Steps
  <2>3. CASE nodeSet[Target(p)] # found[p]
    BY <1>4, <2>3, FinishType DEF Update, Retry, TypeOK
  <2> QED BY <2>2, <2>3
<1>5. CASE List(p)
  BY <1>5 DEF List, Condemned, TypeOK, Copies, Steps
<1>6. CASE Collect(p)
  <2> PICK n \in doomed[p] :
        IF nodeSet[n] = Absent
        THEN Retry(p) /\ UNCHANGED nodeSet
        ELSE /\ nodeSet' = [nodeSet EXCEPT ![n] = Deleted(@)]
             /\ doomed' = [doomed EXCEPT ![p] = @ \ {n}]
             /\ pc' = [pc EXCEPT ![p] = IF doomed[p] = {n} THEN "status"
                                        ELSE "delete"]
             /\ UNCHANGED <<queued, instance, found>>
    BY <1>6 DEF Collect
  <2>1. CASE nodeSet[n] = Absent
    BY <1>6, <2>1, FinishType DEF Collect, Retry, TypeOK
  <2>2. CASE nodeSet[n] # Absent
    <3>1. n \in Names /\ Deleted(nodeSet[n]) \in NodeSetObject \cup {Absent}
      BY <2>2, DeletedType DEF TypeOK
    <3> QED
      BY <1>6, <2>2, <3>1 DEF Collect, TypeOK, Copies, Steps
  <2> QED BY <2>1, <2>2
<1>7. CASE UpdateStatus(p)
  <2>1. CASE pool[p] = instance[p]
    <3>1. [pool[p] EXCEPT !.status = ReportedStatus(p)] \in PoolObject
      BY <1>7, <2>1
      DEF UpdateStatus, ReportedStatus, TypeOK, Copies, PoolObject, NodeSetObject
    <3>2. pool' \in [Pools -> PoolObject \cup {Absent}]
      BY <1>7, <2>1, <3>1 DEF UpdateStatus, TypeOK
    <3> QED
      BY <1>7, <2>1, <3>2, FinishType
      DEF UpdateStatus, Done, TypeOK
  <2>2. CASE pool[p] # instance[p]
    BY <1>7, <2>2, FinishType DEF UpdateStatus, Retry, TypeOK
  <2> QED BY <2>1, <2>2
<1> QED
  BY <1>1, <1>2, <1>3, <1>4, <1>5, <1>6, <1>7 DEF Reconcile

LEMMA ManagerType ==
    ASSUME TypeOK, Copies, Manager
    PROVE  TypeOK' /\ Copies'
<1> USE DEF api, caches, worker, bounds
<1>1. ASSUME NEW p \in Pools, WatchPool(p) PROVE TypeOK' /\ Copies'
  BY <1>1 DEF WatchPool, TypeOK, Copies
<1>2. ASSUME NEW p \in Pools, Resync(p) PROVE TypeOK' /\ Copies'
  BY <1>2 DEF Resync, TypeOK, Copies
<1>3. ASSUME NEW p \in Pools, Fail(p) PROVE TypeOK' /\ Copies'
  <2>1. faults' \in 0 .. MaxFaults
    BY <1>3, BoundsAssumption DEF Fail, TypeOK
  <2>2. Finish(p, TRUE) /\ UNCHANGED <<api, caches, succeeded, edits>>
    BY <1>3 DEF Fail, Retry
  <2> QED BY <2>1, <2>2, FinishType DEF TypeOK
<1>4. ASSUME NEW n \in Names, WatchNodeSet(n) PROVE TypeOK' /\ Copies'
  BY <1>4 DEF WatchNodeSet, TypeOK, Copies
<1>5. CASE Restart
  BY <1>5, BoundsAssumption DEF Restart, TypeOK, Copies, Steps
<1> QED
  BY <1>1, <1>2, <1>3, <1>4, <1>5, ReconcileType DEF Manager

LEMMA UserType ==
    ASSUME TypeOK, Copies, NEW p \in Pools, User(p)
    PROVE  TypeOK' /\ Copies'
<1> USE BoundsAssumption DEF api, caches, worker, bounds, Edit
<1>1. ASSUME NEW v \in Versions, Upgrade(p, v) PROVE TypeOK' /\ Copies'
  BY <1>1 DEF Upgrade, TypeOK, Copies, PoolObject
<1>2. ASSUME NEW r \in Replicas, Scale(p, r) PROVE TypeOK' /\ Copies'
  BY <1>2 DEF Scale, TypeOK, Copies, PoolObject
<1>3. ASSUME NEW k \in SKUs, Resize(p, k) PROVE TypeOK' /\ Copies'
  BY <1>3 DEF Resize, TypeOK, Copies, PoolObject
<1>4. CASE Remove(p)
  BY <1>4 DEF Remove, TypeOK, Copies
<1> QED
  BY <1>1, <1>2, <1>3, <1>4 DEF User

LEMMA RelapseType ==
    ASSUME TypeOK, NEW n, NEW from, Relapse(n, from)
    PROVE  faults' \in 0 .. MaxFaults
<1>1. MaxFaults \in Nat /\ faults \in 0 .. MaxFaults
  BY BoundsAssumption DEF TypeOK
<1>2. faults' = faults \/ (faults < MaxFaults /\ faults' = faults + 1)
  BY DEF Relapse
<1> QED BY <1>1, <1>2

LEMMA OthersType ==
    ASSUME TypeOK, Copies, NEW n \in Names,
           OwnerCollect(n) \/ NodeSetController(n)
    PROVE  TypeOK' /\ Copies'
<1> USE DEF api, caches, worker, bounds
<1>1. CASE OwnerCollect(n)
  <2>1. Deleted(nodeSet[n]) \in NodeSetObject \cup {Absent}
    BY <1>1, DeletedType DEF OwnerCollect, TypeOK
  <2> QED BY <1>1, <2>1 DEF OwnerCollect, TypeOK, Copies
<1>2. CASE AddFinalizer(n)
  <2>0. nodeSet[n] \in NodeSetObject
    BY <1>2 DEF AddFinalizer, Serving, TypeOK
  <2>1. [nodeSet[n] EXCEPT !.finalizer = TRUE] \in NodeSetObject
    BY <2>0 DEF NodeSetObject
  <2>2. nodeSet' \in [Names -> NodeSetObject \cup {Absent}]
    BY <1>2, <2>1 DEF AddFinalizer, TypeOK
  <2> QED BY <1>2, <2>2 DEF AddFinalizer, TypeOK, Copies
<1>3. CASE Provision(n)
  <2>1. nodeSet[n] \in NodeSetObject
    BY <1>3 DEF Provision, Serving, TypeOK
  <2>2. [nodeSet[n] EXCEPT !.status.state = "Updating"] \in NodeSetObject
    BY <2>1 DEF NodeSetObject, Status, States
  <2>3. faults' \in 0 .. MaxFaults
    BY <1>3, RelapseType DEF Provision
  <2> QED BY <1>3, <2>2, <2>3 DEF Provision, TypeOK, Copies
<1>4. CASE Rescale(n)
  <2>1. nodeSet[n] \in NodeSetObject
    BY <1>4 DEF Rescale, Serving, TypeOK
  <2> PICK k \in (0 .. MaxReplicas) \ {nodeSet[n].replicas} :
        nodeSet' = [nodeSet EXCEPT ![n].status.state = "Scaling",
                                   ![n].status.nodes = k]
    BY <1>4 DEF Rescale
  <2>2. [nodeSet[n] EXCEPT !.status.state = "Scaling",
                           !.status.nodes = k] \in NodeSetObject
    BY <2>1 DEF NodeSetObject, Status, States
  <2>3. faults' \in 0 .. MaxFaults
    BY <1>4, RelapseType DEF Rescale
  <2>4. nodeSet' \in [Names -> NodeSetObject \cup {Absent}]
    BY <2>2 DEF TypeOK
  <2> QED BY <1>4, <2>3, <2>4 DEF Rescale, TypeOK, Copies
<1>5. CASE ReportSuccess(n)
  <2>1. nodeSet[n] \in NodeSetObject
    BY <1>5 DEF ReportSuccess, Serving, TypeOK
  <2>a. n[2] \in Versions /\ nodeSet[n].replicas \in 0 .. MaxReplicas
    BY <2>1, BoundsAssumption DEF NodeSetObject, Replicas, Names
  <2>2. SuccessStatus(n) \in Status
    BY <2>a DEF SuccessStatus, Status, States
  <2>3. [nodeSet[n] EXCEPT !.status = SuccessStatus(n)] \in NodeSetObject
    BY <2>1, <2>2 DEF NodeSetObject
  <2> QED BY <1>5, <2>3 DEF ReportSuccess, TypeOK, Copies
<1>6. CASE Release(n)
  BY <1>6, BoundsAssumption DEF Release, TypeOK, Copies
<1> QED
  BY <1>1, <1>2, <1>3, <1>4, <1>5, <1>6 DEF NodeSetController

LEMMA NextType == TypeOK /\ Copies /\ [Next]_vars => TypeOK' /\ Copies'
<1> SUFFICES ASSUME TypeOK, Copies, [Next]_vars PROVE TypeOK' /\ Copies'
  OBVIOUS
<1>1. CASE UNCHANGED vars
  BY <1>1 DEF vars, api, caches, worker, bounds, TypeOK, Copies
<1> QED
  BY <1>1, ManagerType, UserType, OthersType DEF Next

\* Every object, cached copy and working copy keeps its type, and a
\* reconciliation never works on a copy it has not read.
THEOREM Typing == Spec => [](TypeOK /\ Copies)
BY InitType, NextType, PTL DEF Spec

-----------------------------------------------------------------------------
(* Rollouts.  One pool in the namespace (a pool's garbage collection spares *)
(* no other pool's NodeSets) whose version only goes up.                    *)

OnePool == \A p, q \in Pools : p = q

\* The version the manager works for: what it creates is never above, what it
\* deletes is always below, and it never goes back.
Floor(p) == IF pc[p] = "idle" THEN poolCache[p].version ELSE instance[p].version

Monotone(p) ==
    /\ poolCache[p] # Absent
    /\ poolCache[p].version <= pool[p].version
    /\ pc[p] # "idle" => /\ instance[p].version <= poolCache[p].version
                         /\ Target(p) \notin doomed[p]
    /\ \A v \in Versions :
         /\ nodeSet[Name(p, v)] # Absent =>
              v <= Floor(p) /\ (nodeSet[Name(p, v)].deleting => v < Floor(p))
         /\ setCache[Name(p, v)] # Absent => v <= Floor(p)

MonotoneInv == \A p \in Pools : pool[p] # Absent => Monotone(p)

LEMMA Numbers ==
    ASSUME TypeOK, Copies, NEW p \in Pools, pool[p] # Absent, Monotone(p)
    PROVE  /\ pool[p] \in PoolObject /\ pool[p].version \in Nat
           /\ poolCache[p] \in PoolObject /\ poolCache[p].version \in Nat
           /\ pc[p] # "idle" => /\ instance[p] \in PoolObject
                                /\ instance[p].version \in Versions
                                /\ Target(p) \in Names
           /\ Floor(p) \in Nat /\ Floor(p) <= poolCache[p].version
<1>1. pool[p] \in PoolObject /\ poolCache[p] \in PoolObject
  BY DEF TypeOK, Monotone
<1>2. pc[p] # "idle" => instance[p] \in PoolObject
  BY DEF TypeOK, Copies
<1>3. \A o \in PoolObject : o.version \in Versions /\ o.version \in Nat
  BY VersionsAssumption DEF PoolObject
<1>4. pc[p] # "idle" => Target(p) \in Names
  BY <1>2, <1>3 DEF Target, Name, Names
<1>5. Floor(p) \in Nat /\ Floor(p) <= poolCache[p].version
  BY <1>1, <1>2, <1>3 DEF Floor, Monotone
<1> QED BY <1>1, <1>2, <1>3, <1>4, <1>5

\* Ending a reconciliation leaves the floor where it is or raises it.
LEMMA MonotoneFinish ==
    ASSUME TypeOK, Copies, NEW p \in Pools, pool[p] # Absent, Monotone(p),
           NEW again \in BOOLEAN, Finish(p, again), UNCHANGED poolCache
    PROVE  pc'[p] = "idle" /\ Floor(p)' \in Nat /\ Floor(p) <= Floor(p)'
<1>1. pc'[p] = "idle"
  BY DEF Finish, TypeOK
<1>2. Floor(p)' = poolCache[p].version
  BY <1>1 DEF Floor
<1> QED BY <1>1, <1>2, Numbers

\* What a step may do to the objects of a pool.
LEMMA MonotoneStep ==
    ASSUME TypeOK, Copies, NEW p \in Pools, pool[p] # Absent, Monotone(p),
           pool'[p].version = pool[p].version, UNCHANGED poolCache,
           Floor(p)' \in Nat, Floor(p) <= Floor(p)',
           pc'[p] # "idle" => /\ instance'[p].version <= poolCache[p].version
                              /\ Target(p)' \notin doomed'[p],
           \A v \in Versions :
             nodeSet'[Name(p, v)] # Absent =>
               \/ nodeSet[Name(p, v)] # Absent
                  /\ nodeSet'[Name(p, v)].deleting = nodeSet[Name(p, v)].deleting
               \/ v <= Floor(p)
                  /\ (nodeSet'[Name(p, v)].deleting => v < Floor(p)),
           \A v \in Versions :
             setCache'[Name(p, v)] # Absent =>
               setCache[Name(p, v)] # Absent \/ nodeSet[Name(p, v)] # Absent
    PROVE  Monotone(p)'
<1> USE DEF Name
<1>1. Floor(p) \in Nat
  BY Numbers
<1>2. poolCache'[p] # Absent /\ poolCache'[p].version <= pool'[p].version
  BY DEF Monotone
<1>3. ASSUME NEW v \in Versions, nodeSet'[<<p, v>>] # Absent
      PROVE  v <= Floor(p)' /\ (nodeSet'[<<p, v>>].deleting => v < Floor(p)')
  <2>1. v <= Floor(p) /\ (nodeSet'[<<p, v>>].deleting => v < Floor(p))
    BY <1>3 DEF Monotone
  <2> QED BY <1>1, <2>1, VersionsAssumption
<1>4. ASSUME NEW v \in Versions, setCache'[<<p, v>>] # Absent
      PROVE  v <= Floor(p)'
  <2>1. v <= Floor(p)
    BY <1>4 DEF Monotone
  <2> QED BY <1>1, <2>1, VersionsAssumption
<1> QED
  BY <1>2, <1>3, <1>4 DEF Monotone

LEMMA MonotoneReconcile ==
    ASSUME OnePool, TypeOK, Copies, NEW p \in Pools, pool[p] # Absent,
           Monotone(p), Reconcile(p)
    PROVE  Monotone(p)'
<1> USE DEF api, caches, worker, bounds
<1>0. /\ Floor(p) \in Nat
      /\ pc[p] # "idle" =>
           Target(p) \in Names /\ instance[p].version \in Versions
      /\ \A v \in Versions : Name(p, v) \in Names
  BY Numbers DEF Name, Names
<1>1. CASE Start(p)
  <2>1. Floor(p)' = Floor(p)
    BY <1>1 DEF Start, Floor, TypeOK, Monotone
  <2>2. pc'[p] # "idle" => instance'[p].version <= poolCache[p].version
                           /\ Target(p)' \notin doomed'[p]
    BY <1>1, Numbers DEF Start, TypeOK, Copies, Monotone, Target
  <2>3. UNCHANGED <<pool, nodeSet, poolCache, setCache>>
    BY <1>1 DEF Start
  <2> QED
    BY <1>0, <2>1, <2>2, <2>3, MonotoneStep
<1>2. CASE Fetch(p)
  <2>1. Floor(p)' = Floor(p) /\ Target(p)' = Target(p)
    BY <1>2 DEF Fetch, Floor, Target, AfterSpec, TypeOK
  <2> QED
    BY <1>0, <1>2, <2>1, MonotoneStep DEF Fetch, Monotone
<1>3. CASE Create(p)
  <2>1. pc'[p] = "idle" /\ Floor(p)' \in Nat /\ Floor(p) <= Floor(p)'
    BY <1>3, MonotoneFinish DEF Create, Retry
  <2>2. ASSUME NEW v \in Versions, nodeSet'[Name(p, v)] # Absent
        PROVE  \/ nodeSet[Name(p, v)] # Absent
                  /\ nodeSet'[Name(p, v)].deleting = nodeSet[Name(p, v)].deleting
               \/ v <= Floor(p) /\ ~nodeSet'[Name(p, v)].deleting
    <3>1. CASE v = instance[p].version
      <4>1. Target(p) = Name(p, v) /\ Floor(p) = v
        BY <1>3, <3>1 DEF Create, Target, Floor
      <4>2. CASE nodeSet[Target(p)] = Absent
        <5>1. nodeSet'[Name(p, v)] = NewNodeSet(instance[p])
          BY <1>0, <1>3, <4>1, <4>2 DEF Create, TypeOK
        <5>2. NewNodeSet(instance[p]).deleting = FALSE
          BY DEF NewNodeSet
        <5> QED BY <1>0, <4>1, <5>1, <5>2
      <4>3. CASE nodeSet[Target(p)] # Absent
        BY <1>3, <4>1, <4>3 DEF Create
      <4> QED BY <4>2, <4>3
    <3>2. CASE v # instance[p].version
      BY <1>0, <1>3, <2>2, <3>2 DEF Create, Target, Name, Names, TypeOK
    <3> QED BY <3>1, <3>2
  <2> QED
    BY <1>0, <1>3, <2>1, <2>2, MonotoneStep DEF Create, Monotone
<1>4. CASE Update(p)
  <2>1. CASE nodeSet[Target(p)] = found[p]
    <3>1. Floor(p)' = Floor(p) /\ Target(p)' = Target(p)
      BY <1>4, <2>1 DEF Update, Floor, Target, AfterSpec, TypeOK
    <3>2. found[p] # Absent /\ found[p] \in NodeSetObject
      BY <1>4 DEF Update, TypeOK, Copies
    <3>3. ASSUME NEW v \in Versions, nodeSet'[Name(p, v)] # Absent
          PROVE  nodeSet[Name(p, v)] # Absent
                 /\ nodeSet'[Name(p, v)].deleting = nodeSet[Name(p, v)].deleting
      <4>1. CASE Name(p, v) = Target(p)
        <5> DEFINE s == [found[p] EXCEPT !.sku = instance[p].sku,
                                         !.replicas = instance[p].replicas]
        <5>1. nodeSet'[Name(p, v)] = s
          BY <1>0, <1>4, <2>1, <4>1 DEF Update, TypeOK
        <5>2. s.deleting = found[p].deleting
          BY <3>2 DEF NodeSetObject
        <5> QED BY <2>1, <3>2, <4>1, <5>1, <5>2
      <4>2. CASE Name(p, v) # Target(p)
        BY <1>0, <1>4, <2>1, <3>3, <4>2 DEF Update, TypeOK
      <4> QED BY <4>1, <4>2
    <3> QED
      BY <1>0, <1>4, <2>1, <3>1, <3>3, MonotoneStep DEF Update, Monotone
  <2>2. CASE nodeSet[Target(p)] # found[p]
    <3>1. pc'[p] = "idle" /\ Floor(p)' \in Nat /\ Floor(p) <= Floor(p)'
      BY <1>4, <2>2, MonotoneFinish DEF Update, Retry
    <3> QED
      BY <1>4, <2>2, <3>1, MonotoneStep DEF Update
  <2> QED BY <2>1, <2>2
<1>5. CASE List(p)
  <2>1. Floor(p)' = Floor(p) /\ Target(p)' = Target(p)
    BY <1>5 DEF List, Floor, Target, TypeOK
  <2>2. Target(p)' \notin doomed'[p]
    BY <1>5, <2>1 DEF List, Condemned, TypeOK
  <2> QED
    BY <1>0, <1>5, <2>1, <2>2, MonotoneStep DEF List, Monotone
<1>6. CASE Collect(p)
  <2> PICK n \in doomed[p] :
        IF nodeSet[n] = Absent
        THEN Retry(p) /\ UNCHANGED nodeSet
        ELSE /\ nodeSet' = [nodeSet EXCEPT ![n] = Deleted(@)]
             /\ doomed' = [doomed EXCEPT ![p] = @ \ {n}]
             /\ pc' = [pc EXCEPT ![p] = IF doomed[p] = {n} THEN "status"
                                        ELSE "delete"]
             /\ UNCHANGED <<queued, instance, found>>
    BY <1>6 DEF Collect
  <2>1. CASE nodeSet[n] = Absent
    <3>1. pc'[p] = "idle" /\ Floor(p)' \in Nat /\ Floor(p) <= Floor(p)'
      BY <1>6, <2>1, MonotoneFinish DEF Collect, Retry
    <3> QED
      BY <1>6, <2>1, <3>1, MonotoneStep DEF Collect
  <2>2. CASE nodeSet[n] # Absent
    <3>1. Floor(p)' = Floor(p) /\ Target(p)' = Target(p)
      BY <1>6, <2>2 DEF Collect, Floor, Target, TypeOK
    <3>2. Target(p) \notin doomed[p] /\ n \in Names
      BY <1>6 DEF Collect, Monotone, TypeOK
    <3>3. ASSUME NEW v \in Versions, nodeSet'[Name(p, v)] # Absent
          PROVE  /\ nodeSet[Name(p, v)] # Absent
                 /\ \/ nodeSet'[Name(p, v)].deleting
                         = nodeSet[Name(p, v)].deleting
                    \/ v < Floor(p)
      <4>1. CASE n = Name(p, v)
        <5>1. v # Floor(p) /\ v <= Floor(p)
          BY <1>6, <2>2, <3>2, <4>1
          DEF Collect, Target, Floor, Monotone
        <5> QED BY <1>0, <2>2, <4>1, <5>1, VersionsAssumption
      <4>2. CASE n # Name(p, v)
        BY <1>0, <2>2, <3>2, <3>3, <4>2 DEF TypeOK
      <4> QED BY <4>1, <4>2
    <3>4. \A v \in Versions : nodeSet[Name(p, v)] # Absent => v <= Floor(p)
      BY DEF Monotone
    <3>5. pc'[p] # "idle" => instance'[p].version <= poolCache[p].version
                             /\ Target(p)' \notin doomed'[p]
      BY <1>6, <2>2, <3>1, <3>2 DEF Collect, Monotone, TypeOK
    <3> QED
      BY <1>0, <1>6, <2>2, <3>1, <3>3, <3>4, <3>5, MonotoneStep DEF Collect
  <2> QED BY <2>1, <2>2
<1>7. CASE UpdateStatus(p)
  <2>1. pc'[p] = "idle" /\ Floor(p)' \in Nat /\ Floor(p) <= Floor(p)'
    BY <1>7, MonotoneFinish DEF UpdateStatus, Done, Retry, TypeOK
  <2>2. pool'[p].version = pool[p].version
    BY <1>7, Numbers DEF UpdateStatus, TypeOK, PoolObject
  <2> QED
    BY <1>7, <2>1, <2>2, MonotoneStep DEF UpdateStatus
<1> QED
  BY <1>1, <1>2, <1>3, <1>4, <1>5, <1>6, <1>7 DEF Reconcile

LEMMA MonotoneManager ==
    ASSUME OnePool, TypeOK, Copies, NEW p \in Pools, pool[p] # Absent,
           Monotone(p), Manager
    PROVE  Monotone(p)'
<1> USE DEF api, caches, worker, bounds
<1>0. Floor(p) \in Nat /\ Floor(p) <= poolCache[p].version
  BY Numbers
<1>1. ASSUME NEW q \in Pools, Reconcile(q) PROVE Monotone(p)'
  BY <1>1, MonotoneReconcile DEF OnePool
<1>2. ASSUME NEW q \in Pools, WatchPool(q) PROVE Monotone(p)'
  <2>1. q = p
    BY DEF OnePool
  <2>2. /\ UNCHANGED <<pool, nodeSet, setCache, pc, instance, doomed>>
        /\ poolCache'[p] = pool[p]
    BY <1>2, <2>1 DEF WatchPool, TypeOK
  <2>3. poolCache[p].version <= poolCache'[p].version
    BY <2>2 DEF Monotone
  <2>4. Floor(p)' \in Nat /\ Floor(p) <= Floor(p)'
    BY <1>0, <2>2, <2>3, Numbers DEF Floor
  <2>a. pool[p].version \in Nat /\ poolCache[p].version \in Nat
        /\ (pc[p] # "idle" => instance[p].version \in Nat)
    BY Numbers, VersionsAssumption
  <2>b. pc[p] # "idle" => instance[p].version <= poolCache[p].version
    BY DEF Monotone
  <2>5. /\ poolCache'[p].version <= pool'[p].version
        /\ pc'[p] # "idle" => instance'[p].version <= poolCache'[p].version
    BY <2>2, <2>3, <2>a, <2>b
  <2>6. pc'[p] # "idle" => Target(p)' \notin doomed'[p]
    BY <2>2 DEF Monotone, Target
  <2>7. ASSUME NEW v \in Versions
        PROVE  /\ nodeSet'[Name(p, v)] # Absent =>
                    /\ v <= Floor(p)'
                    /\ nodeSet'[Name(p, v)].deleting => v < Floor(p)'
               /\ setCache'[Name(p, v)] # Absent => v <= Floor(p)'
    BY <1>0, <2>2, <2>4, VersionsAssumption DEF Monotone, Name
  <2> QED
    BY <2>2, <2>5, <2>6, <2>7 DEF Monotone, Name
<1>3. ASSUME NEW q \in Pools, Resync(q) PROVE Monotone(p)'
  BY <1>3 DEF Resync, Monotone, Floor, Target
<1>4. ASSUME NEW q \in Pools, Fail(q) PROVE Monotone(p)'
  <2>1. Finish(p, TRUE) /\ UNCHANGED <<api, caches>>
    BY <1>4 DEF Fail, Retry, OnePool
  <2>2. pc'[p] = "idle" /\ Floor(p)' \in Nat /\ Floor(p) <= Floor(p)'
    BY <2>1, MonotoneFinish
  <2> QED
    BY <2>1, <2>2, MonotoneStep
<1>5. ASSUME NEW n \in Names, WatchNodeSet(n) PROVE Monotone(p)'
  <2>1. UNCHANGED <<pool, nodeSet, poolCache, pc, instance, doomed>>
    BY <1>5 DEF WatchNodeSet
  <2>2. Floor(p)' = Floor(p) /\ Target(p)' = Target(p)
    BY <2>1 DEF Floor, Target
  <2>3. ASSUME NEW v \in Versions, setCache'[Name(p, v)] # Absent
        PROVE  setCache[Name(p, v)] # Absent \/ nodeSet[Name(p, v)] # Absent
    BY <1>5, <2>3 DEF WatchNodeSet, TypeOK, Name, Names
  <2>4. pc'[p] # "idle" => instance'[p].version <= poolCache[p].version
                           /\ Target(p)' \notin doomed'[p]
    BY <2>1, <2>2 DEF Monotone
  <2> QED
    BY <1>0, <2>1, <2>2, <2>3, <2>4, MonotoneStep
<1>6. CASE Restart
  <2>1. /\ UNCHANGED <<pool, nodeSet>> /\ poolCache' = pool
        /\ setCache' = nodeSet /\ pc'[p] = "idle"
    BY <1>6 DEF Restart
  <2>2. Floor(p)' = pool[p].version
    BY <2>1 DEF Floor
  <2>3. pool[p].version \in Nat /\ Floor(p) <= pool[p].version
    BY <1>0, Numbers DEF Monotone
  <2>4. ASSUME NEW v \in Versions, nodeSet[Name(p, v)] # Absent
        PROVE  v <= pool[p].version
               /\ (nodeSet[Name(p, v)].deleting => v < pool[p].version)
    BY <1>0, <2>3, <2>4, VersionsAssumption DEF Monotone
  <2> QED
    BY <2>1, <2>2, <2>3, <2>4 DEF Monotone, Name
<1> QED
  BY <1>1, <1>2, <1>3, <1>4, <1>5, <1>6 DEF Manager

LEMMA MonotoneOthers ==
    ASSUME TypeOK, Copies, NEW p \in Pools, pool[p] # Absent, Monotone(p),
           NEW n \in Names, OwnerCollect(n) \/ NodeSetController(n)
    PROVE  Monotone(p)'
<1> USE DEF api, caches, worker, bounds
<1>1. /\ UNCHANGED <<pool, setCache, poolCache, pc, instance, doomed>>
      /\ \A m \in Names \ {n} : nodeSet'[m] = nodeSet[m]
  BY DEF OwnerCollect, NodeSetController, AddFinalizer, Provision, Rescale,
         ReportSuccess, Release, TypeOK
<1>2. Floor(p)' = Floor(p) /\ Target(p)' = Target(p) /\ Floor(p) \in Nat
  BY <1>1, Numbers DEF Floor, Target
<1>3. nodeSet'[n] # Absent /\ n[1] = p =>
        nodeSet[n] # Absent /\ nodeSet'[n].deleting = nodeSet[n].deleting
  <2>1. CASE OwnerCollect(n)
    BY <2>1 DEF OwnerCollect
  <2>2. CASE AddFinalizer(n)
    <3>1. nodeSet[n] \in NodeSetObject
      BY <2>2 DEF AddFinalizer, Serving, TypeOK
    <3> QED BY <2>2, <3>1 DEF AddFinalizer, Serving, TypeOK, NodeSetObject
  <2>3. CASE Provision(n)
    <3>1. nodeSet[n] \in NodeSetObject
      BY <2>3 DEF Provision, Serving, TypeOK
    <3> QED BY <2>3, <3>1 DEF Provision, Serving, TypeOK, NodeSetObject
  <2>4. CASE Rescale(n)
    <3>1. nodeSet[n] \in NodeSetObject
      BY <2>4 DEF Rescale, Serving, TypeOK
    <3> QED BY <2>4, <3>1 DEF Rescale, Serving, TypeOK, NodeSetObject
  <2>5. CASE ReportSuccess(n)
    <3>1. nodeSet[n] \in NodeSetObject
      BY <2>5 DEF ReportSuccess, Serving, TypeOK
    <3> QED BY <2>5, <3>1 DEF ReportSuccess, Serving, TypeOK, NodeSetObject
  <2>6. CASE Release(n)
    BY <2>6 DEF Release, TypeOK
  <2> QED
    BY <2>1, <2>2, <2>3, <2>4, <2>5, <2>6 DEF NodeSetController
<1>4. ASSUME NEW v \in Versions, nodeSet'[Name(p, v)] # Absent
      PROVE  nodeSet[Name(p, v)] # Absent
             /\ nodeSet'[Name(p, v)].deleting = nodeSet[Name(p, v)].deleting
  <2>1. CASE n = Name(p, v)
    BY <1>3, <1>4, <2>1 DEF Name
  <2>2. CASE n # Name(p, v)
    BY <1>1, <1>4, <2>2 DEF Name, Names
  <2> QED BY <2>1, <2>2
<1>5. pc'[p] # "idle" => instance'[p].version <= poolCache[p].version
                         /\ Target(p)' \notin doomed'[p]
  BY <1>1, <1>2 DEF Monotone
<1> QED
  BY <1>1, <1>2, <1>4, <1>5, MonotoneStep

LEMMA MonotoneUser ==
    ASSUME ~CanRevert, TypeOK, NEW p \in Pools, pool[p] # Absent,
           pool'[p] # Absent, Monotone(p), NEW q \in Pools, User(q)
    PROVE  Monotone(p)'
<1> USE DEF api, caches, worker, bounds
<1>1. UNCHANGED <<nodeSet, setCache, poolCache, pc, instance, doomed>>
  BY DEF User, Upgrade, Scale, Resize, Remove
<1>2. pool[p] \in PoolObject /\ poolCache[p] \in PoolObject
  BY DEF TypeOK, Monotone
<1>3. \A o \in PoolObject : o.version \in Nat
  BY VersionsAssumption DEF PoolObject
<1>4. pool'[p].version \in Nat /\ pool[p].version <= pool'[p].version
  <2>1. ASSUME NEW v \in Versions, Upgrade(q, v)
        PROVE  pool'[p].version \in Nat /\ pool[p].version <= pool'[p].version
    BY <1>2, <1>3, <2>1, VersionsAssumption DEF Upgrade, TypeOK, PoolObject
  <2>2. ASSUME NEW r \in Replicas, Scale(q, r)
        PROVE  pool'[p].version = pool[p].version
    BY <1>2, <2>2 DEF Scale, TypeOK, PoolObject
  <2>3. ASSUME NEW k \in SKUs, Resize(q, k)
        PROVE  pool'[p].version = pool[p].version
    BY <1>2, <2>3 DEF Resize, TypeOK, PoolObject
  <2>4. Remove(q) => pool'[p].version = pool[p].version
    BY DEF Remove, TypeOK
  <2> QED
    BY <1>2, <1>3, <2>1, <2>2, <2>3, <2>4 DEF User
<1>5. poolCache'[p].version <= pool'[p].version
  BY <1>1, <1>2, <1>3, <1>4 DEF Monotone
<1> QED
  BY <1>1, <1>5 DEF Monotone, Floor, Target

\* Users and reconciliations never bring a pool back.
LEMMA PoolStays ==
    ASSUME TypeOK, Copies, [Next]_vars, NEW p \in Pools, pool'[p] # Absent
    PROVE  pool[p] # Absent
<1> USE DEF api, caches, worker, bounds
<1>1. ASSUME NEW q \in Pools, UpdateStatus(q) PROVE pool[p] # Absent
  BY <1>1 DEF UpdateStatus, TypeOK, Copies
<1>2. ASSUME NEW q \in Pools, User(q) PROVE pool[p] # Absent
  BY <1>2 DEF User, Upgrade, Scale, Resize, Remove, TypeOK
<1>3. CASE UNCHANGED pool
  BY <1>3
<1> QED
  BY <1>1, <1>2, <1>3
  DEF Next, vars, Manager, Reconcile, Start, Fetch, Create, Update, List,
      Collect, WatchPool, Resync, Fail, WatchNodeSet, Restart, OwnerCollect,
      NodeSetController, AddFinalizer, Provision, Rescale, ReportSuccess, Release

LEMMA MonotoneNext ==
    ASSUME OnePool, ~CanRevert, TypeOK, Copies, MonotoneInv, [Next]_vars
    PROVE  MonotoneInv'
<1> SUFFICES ASSUME NEW p \in Pools, pool'[p] # Absent
             PROVE  Monotone(p)'
  BY DEF MonotoneInv
<1>1. pool[p] # Absent /\ Monotone(p)
  BY PoolStays DEF MonotoneInv
<1>2. CASE UNCHANGED vars
  BY <1>1, <1>2
  DEF vars, api, caches, worker, bounds, Monotone, Floor, Target
<1>3. CASE Manager
  BY <1>1, <1>3, MonotoneManager
<1>4. ASSUME NEW q \in Pools, User(q) PROVE Monotone(p)'
  BY <1>1, <1>4, MonotoneUser
<1>5. ASSUME NEW n \in Names, OwnerCollect(n) \/ NodeSetController(n)
      PROVE  Monotone(p)'
  BY <1>1, <1>5, MonotoneOthers
<1> QED
  BY <1>2, <1>3, <1>4, <1>5 DEF Next

LEMMA MonotoneInit == Init => MonotoneInv
<1> SUFFICES ASSUME Init, NEW p \in Pools PROVE Monotone(p)
  BY DEF MonotoneInv
<1>0. pool[p] \in PoolObject
  BY StatusType DEF Init, PoolObject
<1>1. pool[p] \in PoolObject /\ pool[p].version \in Nat
  BY <1>0, VersionsAssumption DEF PoolObject
<1>2. poolCache[p] = pool[p] /\ pc[p] = "idle" /\ pool[p] # Absent
  BY <1>1, AbsentAssumption DEF Init
<1>3. \A v \in Versions :
        nodeSet[Name(p, v)] = Absent /\ setCache[Name(p, v)] = Absent
  BY DEF Init, Name, Names
<1> QED
  BY <1>1, <1>2, <1>3 DEF Monotone

\* The floor of a pool's manager only rises, and what exists is not above it.
THEOREM FloorHolds ==
    ASSUME OnePool, ~CanRevert
    PROVE  Spec => []MonotoneInv
<1>1. Init => MonotoneInv
  BY MonotoneInit
<1>2. TypeOK /\ Copies /\ MonotoneInv /\ [Next]_vars => MonotoneInv'
  BY MonotoneNext
<1> QED
  BY <1>1, <1>2, Typing, PTL DEF Spec

-----------------------------------------------------------------------------
(* Deletions                                                               *)

LEMMA CollectSpares ==
    ASSUME TypeOK, NEW q \in Pools, Collect(q), NEW n \in Names,
           n \notin doomed[q]
    PROVE  nodeSet'[n] = nodeSet[n] /\ succeeded' = succeeded
BY DEF Collect, TypeOK

\* Only a garbage collection takes a NodeSet away from a pool that exists, and
\* a NodeSet that stays keeps having succeeded.
LEMMA ServingStays ==
    ASSUME TypeOK, Copies, [Next]_vars, NEW n \in Names, Serving(n),
           pool[n[1]] # Absent
    PROVE  /\ succeeded[n] => succeeded'[n]
           /\ Serving(n)' \/ \E q \in Pools : Collect(q) /\ n \in doomed[q]
<1> USE DEF api, caches, worker, bounds
<1>0. nodeSet[n] \in NodeSetObject /\ nodeSet[n].deleting = FALSE
  BY DEF Serving, TypeOK, NodeSetObject
<1>1. ASSUME NEW q \in Pools, Create(q)
      PROVE  succeeded' = succeeded /\ Serving(n)'
  BY <1>1 DEF Create, Serving, TypeOK
<1>2. ASSUME NEW q \in Pools, Update(q)
      PROVE  succeeded' = succeeded /\ Serving(n)'
  <2>1. CASE nodeSet[Target(q)] = found[q] /\ n = Target(q)
    <3> DEFINE s == [found[q] EXCEPT !.sku = instance[q].sku,
                                     !.replicas = instance[q].replicas]
    <3>1. found[q] \in NodeSetObject /\ instance[q] \in PoolObject
      BY <1>0, <1>2, <2>1 DEF Update, TypeOK, Copies
    <3>2. s \in NodeSetObject /\ s.deleting = found[q].deleting
      BY <3>1 DEF NodeSetObject, PoolObject
    <3>3. nodeSet'[n] = s /\ succeeded' = succeeded
      BY <1>2, <2>1 DEF Update, TypeOK
    <3> QED
      BY <1>0, <2>1, <3>2, <3>3, AbsentAssumption DEF Serving
  <2>2. CASE ~(nodeSet[Target(q)] = found[q] /\ n = Target(q))
    <3>1. nodeSet'[n] = nodeSet[n] /\ succeeded' = succeeded
      BY <1>2, <2>2 DEF Update, TypeOK
    <3> QED BY <3>1 DEF Serving
  <2> QED BY <2>1, <2>2
<1>3. ASSUME NEW q \in Pools, Collect(q)
      PROVE  succeeded' = succeeded /\ (Serving(n)' \/ n \in doomed[q])
  BY <1>3, CollectSpares DEF Serving, Collect
<1>4. ASSUME NEW m \in Names, OwnerCollect(m) \/ NodeSetController(m), m # n
      PROVE  succeeded'[n] = succeeded[n] /\ Serving(n)'
  <2>1. nodeSet'[n] = nodeSet[n] /\ succeeded'[n] = succeeded[n]
    BY <1>4
    DEF OwnerCollect, NodeSetController, AddFinalizer, Provision, Rescale,
        ReportSuccess, Release, TypeOK
  <2> QED BY <2>1 DEF Serving
<1>5. CASE OwnerCollect(n)
  BY <1>5 DEF OwnerCollect
<1>6. CASE NodeSetController(n)
  <2>1. CASE AddFinalizer(n)
    <3>1. [nodeSet[n] EXCEPT !.finalizer = TRUE].deleting = FALSE
          /\ [nodeSet[n] EXCEPT !.finalizer = TRUE] \in NodeSetObject
      BY <1>0 DEF NodeSetObject
    <3> QED
      BY <2>1, <3>1, AbsentAssumption DEF AddFinalizer, Serving, TypeOK
  <2>2. CASE Provision(n)
    <3>1. [nodeSet[n] EXCEPT !.status.state = "Updating"].deleting = FALSE
          /\ [nodeSet[n] EXCEPT !.status.state = "Updating"] \in NodeSetObject
      BY <1>0 DEF NodeSetObject, Status, States
    <3> QED
      BY <2>2, <3>1, AbsentAssumption DEF Provision, Serving, TypeOK
  <2>3. CASE Rescale(n)
    <3> PICK k \in (0 .. MaxReplicas) \ {nodeSet[n].replicas} :
          nodeSet' = [nodeSet EXCEPT ![n].status.state = "Scaling",
                                     ![n].status.nodes = k]
      BY <2>3 DEF Rescale
    <3> DEFINE s == [nodeSet[n] EXCEPT !.status.state = "Scaling",
                                       !.status.nodes = k]
    <3>1. s.deleting = FALSE /\ s \in NodeSetObject
      BY <1>0 DEF NodeSetObject, Status, States, TypeOK
    <3>2. nodeSet'[n] = s /\ succeeded' = succeeded
      BY <2>3 DEF Rescale, TypeOK
    <3> QED
      BY <3>1, <3>2, AbsentAssumption DEF Serving
  <2>4. CASE ReportSuccess(n)
    <3>1. nodeSet'[n] # Absent /\ nodeSet'[n].deleting = FALSE
      <4>1. nodeSet'[n] = [nodeSet[n] EXCEPT !.status = SuccessStatus(n)]
        BY <2>4 DEF ReportSuccess, TypeOK
      <4>3. [nodeSet[n] EXCEPT !.status = SuccessStatus(n)].deleting = FALSE
        BY <1>0 DEF NodeSetObject
      <4>5. SuccessStatus(n) \in Status
        <5>1. n[2] \in Versions /\ nodeSet[n].replicas \in 0 .. MaxReplicas
          BY <1>0, BoundsAssumption DEF NodeSetObject, Replicas, Names
        <5> QED BY <5>1 DEF SuccessStatus, Status, States
      <4>6. [nodeSet[n] EXCEPT !.status = SuccessStatus(n)] \in NodeSetObject
        BY <1>0, <4>5 DEF NodeSetObject
      <4> QED BY <4>1, <4>3, <4>6, AbsentAssumption
    <3>2. succeeded'[n] = TRUE
      BY <2>4 DEF ReportSuccess, TypeOK
    <3> QED BY <3>1, <3>2 DEF Serving
  <2>5. CASE Release(n)
    BY <1>0, <2>5 DEF Release
  <2> QED
    BY <1>6, <2>1, <2>2, <2>3, <2>4, <2>5 DEF NodeSetController
<1>7. CASE UNCHANGED <<nodeSet, succeeded>>
  BY <1>7 DEF Serving
<1> QED
  BY <1>1, <1>2, <1>3, <1>4, <1>5, <1>6, <1>7
  DEF Next, vars, Manager, Reconcile, Start, Fetch, List, UpdateStatus,
      WatchPool, Resync, Fail, WatchNodeSet, Restart, User, Upgrade, Scale,
      Resize, Remove

\* What a garbage collection deletes is older than what it works for.
LEMMA CollectsOlder ==
    ASSUME OnePool, TypeOK, Copies, NEW q \in Pools, Collect(q),
           NEW p \in Pools, pool[p] # Absent, Monotone(p),
           NEW v \in Versions, Serving(Name(p, v)), Name(p, v) \in doomed[q]
    PROVE  q = p /\ v < instance[p].version
<1>1. q = p
  BY DEF OnePool
<1>2. Name(p, v) # Target(p) /\ Floor(p) = instance[p].version /\ v <= Floor(p)
  BY <1>1 DEF Collect, Monotone, Floor, Serving
<1>3. v # instance[p].version /\ Floor(p) \in Nat
  BY <1>2, Numbers DEF Target
<1> QED BY <1>1, <1>2, <1>3, VersionsAssumption

LEMMA WantedStep ==
    ASSUME OnePool, TypeOK, Copies, MonotoneInv, [Next]_vars, NEW p \in Pools,
           pool[p] # Absent, NEW v \in Versions, v = pool[p].version,
           Serving(Name(p, v))
    PROVE  Serving(Name(p, v))'
<1>1. Monotone(p) /\ Name(p, v) \in Names /\ Name(p, v)[1] = p
  BY DEF MonotoneInv, Name, Names
<1>2. ASSUME NEW q \in Pools, Collect(q), Name(p, v) \in doomed[q]
      PROVE  FALSE
  <2>1. q = p /\ v < instance[p].version
    BY <1>1, <1>2, CollectsOlder
  <2>2. instance[p].version <= poolCache[p].version
        /\ poolCache[p].version <= pool[p].version
    BY <1>1, <1>2, <2>1 DEF Collect, Monotone
  <2>3. instance[p].version \in Nat /\ poolCache[p].version \in Nat
    BY <1>1, <1>2, <2>1, Numbers, VersionsAssumption DEF Collect
  <2> QED BY <2>1, <2>2, <2>3, VersionsAssumption
<1> QED
  BY <1>1, <1>2, ServingStays

\* With one pool in the namespace and versions that only go up, no step deletes
\* the NodeSet of the version the pool asks for, whatever is scaled or resized.
THEOREM WantedIsKept ==
    ASSUME OnePool, ~CanRevert
    PROVE  Spec => WantedKept
<1>1. TypeOK /\ Copies /\ MonotoneInv /\ [Next]_vars =>
        [\A p \in Pools :
           pool[p] # Absent /\ pool'[p] # Absent
             => \A v \in Versions :
                  v = pool[p].version /\ Serving(Name(p, v))
                    => Serving(Name(p, v))']_vars
  BY WantedStep
<1> QED
  BY <1>1, Typing, FloorHolds, PTL DEF Spec, WantedKept

-----------------------------------------------------------------------------
(* What only goes forward                                                  *)

\* The manager never goes back to an older version.
LEMMA FloorRises ==
    ASSUME OnePool, TypeOK, Copies, [Next]_vars, NEW p \in Pools,
           pool[p] # Absent, Monotone(p)
    PROVE  Floor(p)' \in Nat /\ Floor(p) <= Floor(p)'
<1> USE DEF api, caches, worker, bounds
<1>0. /\ Floor(p) \in Nat /\ Floor(p) <= poolCache[p].version
      /\ poolCache[p].version \in Nat /\ pool[p].version \in Nat
      /\ poolCache[p].version <= pool[p].version
  BY Numbers DEF Monotone
<1>1. ASSUME NEW q \in Pools, Reconcile(q) \/ Fail(q)
      PROVE  Floor(p)' \in Nat /\ Floor(p) <= Floor(p)'
  <2>0. q = p /\ poolCache' = poolCache
    BY <1>1
    DEF OnePool, Reconcile, Fail, Start, Fetch, Create, Update, List, Collect,
        UpdateStatus
  <2>1. ASSUME NEW again \in BOOLEAN, Finish(p, again)
        PROVE  Floor(p)' \in Nat /\ Floor(p) <= Floor(p)'
    BY <2>0, <2>1, MonotoneFinish
  <2>2. CASE Finish(p, TRUE) \/ Finish(p, queued[p])
    BY <2>1, <2>2 DEF TypeOK
  <2>3. CASE Start(p)
    BY <1>0, <2>3 DEF Start, Floor, TypeOK, Monotone
  <2>4. CASE pc[p] # "idle" /\ pc'[p] # "idle" /\ instance' = instance
    BY <1>0, <2>4 DEF Floor
  <2> QED
    BY <1>1, <2>0, <2>2, <2>3, <2>4
    DEF Reconcile, Fail, Fetch, Create, Update, List, Collect, UpdateStatus,
        Retry, Done, AfterSpec, TypeOK
<1>2. ASSUME NEW q \in Pools, WatchPool(q)
      PROVE  Floor(p)' \in Nat /\ Floor(p) <= Floor(p)'
  BY <1>0, <1>2 DEF WatchPool, OnePool, Floor, TypeOK
<1>3. CASE Restart
  BY <1>0, <1>3 DEF Restart, Floor, TypeOK
<1>4. CASE UNCHANGED <<pc, instance, poolCache>>
  BY <1>0, <1>4 DEF Floor
<1> QED
  BY <1>1, <1>2, <1>3, <1>4
  DEF Next, vars, Manager, WatchNodeSet, Resync, User, Upgrade, Scale, Resize,
      Remove, OwnerCollect, NodeSetController, AddFinalizer, Provision, Rescale,
      ReportSuccess, Release

\* A cached NodeSet was the live one at some point.
LEMMA CacheFollows ==
    ASSUME TypeOK, [Next]_vars, NEW n \in Names
    PROVE  setCache'[n] = setCache[n] \/ setCache'[n] = nodeSet[n]
<1> USE DEF api, caches, worker, bounds
<1>1. ASSUME NEW m \in Names, WatchNodeSet(m)
      PROVE  setCache'[n] = setCache[n] \/ setCache'[n] = nodeSet[n]
  BY <1>1 DEF WatchNodeSet, TypeOK
<1>2. CASE Restart
  BY <1>2 DEF Restart
<1>3. CASE UNCHANGED setCache
  BY <1>3
<1> QED
  BY <1>1, <1>2, <1>3
  DEF Next, vars, Manager, Reconcile, Start, Fetch, Create, Update, List,
      Collect, UpdateStatus, WatchPool, Resync, Fail, User, Upgrade, Scale,
      Resize, Remove, OwnerCollect, NodeSetController, AddFinalizer, Provision,
      Rescale, ReportSuccess, Release

-----------------------------------------------------------------------------
(* Changes of one NodeSet                                                  *)

\* How one step changes one NodeSet.
Changes(n) ==
    \/ nodeSet'[n] = nodeSet[n]
    \/ /\ nodeSet[n] = Absent
       /\ \E i \in PoolObject : nodeSet'[n] = NewNodeSet(i)
    \/ /\ nodeSet[n] # Absent
       /\ \E k \in SKUs, r \in Replicas :
            nodeSet'[n] = [nodeSet[n] EXCEPT !.sku = k, !.replicas = r]
    \/ nodeSet[n] # Absent /\ nodeSet'[n] = Deleted(nodeSet[n])
    \/ AddFinalizer(n) \/ Provision(n) \/ Rescale(n) \/ ReportSuccess(n)
    \/ Release(n)

LEMMA EveryChange ==
    ASSUME TypeOK, Copies, [Next]_vars, NEW n \in Names
    PROVE  Changes(n)
<1> USE DEF api, caches, worker, bounds
<1>1. ASSUME NEW p \in Pools, Create(p) PROVE Changes(n)
  <2>1. instance[p] \in PoolObject
    BY <1>1 DEF Create, TypeOK, Copies
  <2> QED BY <1>1, <2>1 DEF Create, Changes, TypeOK
<1>2. ASSUME NEW p \in Pools, Update(p) PROVE Changes(n)
  <2>1. CASE nodeSet[Target(p)] = found[p] /\ n = Target(p)
    <3>1. instance[p] \in PoolObject /\ found[p] # Absent
      BY <1>2 DEF Update, TypeOK, Copies
    <3>2. instance[p].sku \in SKUs /\ instance[p].replicas \in Replicas
      BY <3>1 DEF PoolObject
    <3>3. nodeSet'[n] = [nodeSet[n] EXCEPT !.sku = instance[p].sku,
                                           !.replicas = instance[p].replicas]
      BY <1>2, <2>1 DEF Update, TypeOK
    <3> QED BY <2>1, <3>1, <3>2, <3>3 DEF Changes
  <2>2. CASE ~(nodeSet[Target(p)] = found[p] /\ n = Target(p))
    BY <1>2, <2>2 DEF Update, Changes, TypeOK
  <2> QED BY <2>1, <2>2
<1>3. ASSUME NEW p \in Pools, Collect(p) PROVE Changes(n)
  <2> PICK m \in doomed[p] :
        \/ nodeSet[m] = Absent /\ UNCHANGED nodeSet
        \/ /\ nodeSet[m] # Absent
           /\ nodeSet' = [nodeSet EXCEPT ![m] = Deleted(@)]
    BY <1>3 DEF Collect
  <2>1. m \in Names
    BY DEF TypeOK
  <2> QED BY <2>1 DEF Changes, TypeOK
<1>4. ASSUME NEW m \in Names, OwnerCollect(m) PROVE Changes(n)
  BY <1>4 DEF OwnerCollect, Changes, TypeOK
<1>5. CASE NodeSetController(n)
  BY <1>5 DEF NodeSetController, Changes
<1>6. ASSUME NEW m \in Names, NodeSetController(m), m # n PROVE Changes(n)
  <2>1. nodeSet'[n] = nodeSet[n]
    BY <1>6
    DEF NodeSetController, AddFinalizer, Provision, Rescale, ReportSuccess,
        Release, TypeOK
  <2> QED BY <2>1 DEF Changes
<1>7. CASE UNCHANGED nodeSet
  BY <1>7 DEF Changes
<1> QED
  BY <1>1, <1>2, <1>3, <1>4, <1>5, <1>6, <1>7
  DEF Next, vars, Manager, Reconcile, Start, Fetch, List, UpdateStatus,
      WatchPool, Resync, Fail, WatchNodeSet, Restart, User, Upgrade, Scale,
      Resize, Remove

\* Only a NodeSet's controller reports its success, which goes with the object.
LEMMA Succeeds ==
    ASSUME TypeOK, Copies, [Next]_vars, NEW n \in Names
    PROVE  succeeded'[n] = succeeded[n] \/ ReportSuccess(n) \/ Release(n)
<1> USE DEF api, caches, worker, bounds
<1>1. ASSUME NEW m \in Names, NodeSetController(m)
      PROVE  succeeded'[n] = succeeded[n] \/ ReportSuccess(n) \/ Release(n)
  BY <1>1
  DEF NodeSetController, AddFinalizer, Provision, Rescale, ReportSuccess,
      Release, TypeOK
<1>2. CASE UNCHANGED succeeded
  BY <1>2
<1> QED
  BY <1>1, <1>2
  DEF Next, vars, Manager, Reconcile, Start, Fetch, Create, Update, List,
      Collect, UpdateStatus, WatchPool, Resync, Fail, WatchNodeSet, Restart,
      User, Upgrade, Scale, Resize, Remove, OwnerCollect

-----------------------------------------------------------------------------
(* What a pool reports is true                                             *)
(*                                                                         *)
(* A version in a status was put there when the NodeSet succeeded.         *)
(* From the NodeSet it goes over the cache and a reconciliation's copy to  *)
(* the pool; on that way the NodeSet lasts, for it is the one the manager  *)
(* works for.                                                              *)

Backed(n, s) ==
    s # Absent /\ s.status.version # NoVersion =>
        s.status.version = n[2] /\ succeeded[n]

LiveBacked(n) ==
    /\ Backed(n, nodeSet[n])
    /\ succeeded[n] => nodeSet[n] # Absent /\ nodeSet[n].finalizer

CacheBacked(p) ==
    \A v \in Versions : v = Floor(p) => Backed(Name(p, v), setCache[Name(p, v)])

HandBacked(p) ==
    pc[p] \in {"update", "list", "delete", "status"} =>
        Backed(Target(p), found[p])

PoolBacked(p) ==
    /\ pool[p].status.version <= pool[p].version
    /\ pool[p].status.version = pool[p].version =>
         succeeded[Name(p, pool[p].version)]

BackedInv ==
    /\ \A n \in Names : LiveBacked(n)
    /\ \A p \in Pools :
         pool[p] # Absent => CacheBacked(p) /\ HandBacked(p) /\ PoolBacked(p)

LEMMA VersionType ==
    /\ NoStatus.version = NoVersion
    /\ \A st \in Status : st.version \in Nat
<1>1. \A st \in Status : st.version \in Versions \cup {NoVersion}
  BY DEF Status
<1>2. \A v \in Versions \cup {NoVersion} : v \in Nat
  BY VersionsAssumption DEF NoVersion
<1>3. NoStatus.version = NoVersion
  BY DEF NoStatus
<1> QED
  BY <1>1, <1>2, <1>3

LEMMA LiveBackedNext ==
    ASSUME TypeOK, Copies, [Next]_vars, NEW n \in Names, LiveBacked(n)
    PROVE  LiveBacked(n)'
<1> DEFINE s == nodeSet[n]
           t == nodeSet'[n]
<1>1. s # Absent => s \in NodeSetObject
  BY DEF TypeOK
<1>2. CASE ReportSuccess(n)
  <2>1. /\ s # Absent /\ s.finalizer /\ succeeded'[n] = TRUE
        /\ t = [s EXCEPT !.status = SuccessStatus(n)]
    BY <1>2 DEF ReportSuccess, Serving, TypeOK
  <2>2. s \in NodeSetObject
    BY <1>1, <2>1
  <2>3. n[2] \in Versions /\ s.replicas \in 0 .. MaxReplicas
    BY <2>2, BoundsAssumption DEF NodeSetObject, Replicas, Names
  <2>4. SuccessStatus(n) \in Status /\ SuccessStatus(n).version = n[2]
    BY <2>3 DEF SuccessStatus, Status, States
  <2>5. t \in NodeSetObject
    BY <2>1, <2>2, <2>4 DEF NodeSetObject
  <2>6. t.finalizer = s.finalizer /\ t.status = SuccessStatus(n)
    BY <2>1, <2>2 DEF NodeSetObject
  <2> QED
    BY <2>1, <2>4, <2>5, <2>6, AbsentAssumption DEF LiveBacked, Backed
<1>3. CASE Release(n)
  BY <1>3 DEF Release, LiveBacked, Backed, TypeOK
<1>4. CASE succeeded'[n] = succeeded[n] /\ ~ReportSuccess(n) /\ ~Release(n)
  <2>0. succeeded'[n] = succeeded[n] /\ Changes(n)
    BY <1>4, EveryChange
  <2>1. CASE t = s
    BY <2>0, <2>1 DEF LiveBacked, Backed
  <2>2. ASSUME s = Absent, NEW i \in PoolObject, t = NewNodeSet(i)
        PROVE  LiveBacked(n)'
    <3>1. t.status = NoStatus
      BY <2>2 DEF NewNodeSet
    <3> QED
      BY <2>0, <2>2, <3>1, VersionType DEF LiveBacked, Backed
  <2>3. ASSUME s # Absent, t # Absent, t.status.version = s.status.version,
               s.finalizer => t.finalizer
        PROVE  LiveBacked(n)'
    BY <2>0, <2>3 DEF LiveBacked, Backed
  <2>4. ASSUME s # Absent, NEW k \in SKUs, NEW r \in Replicas,
               t = [s EXCEPT !.sku = k, !.replicas = r]
        PROVE  LiveBacked(n)'
    <3>1. t \in NodeSetObject /\ t.status = s.status
          /\ t.finalizer = s.finalizer
      BY <1>1, <2>4 DEF NodeSetObject
    <3> QED
      BY <2>3, <2>4, <3>1, AbsentAssumption
  <2>5. CASE s # Absent /\ t = Deleted(s)
    <3>1. CASE s.finalizer
      <4>1. t \in NodeSetObject /\ t.status = s.status /\ t.finalizer
        BY <1>1, <2>5, <3>1 DEF Deleted, NodeSetObject
      <4> QED
        BY <2>3, <2>5, <4>1, AbsentAssumption
    <3>2. CASE ~s.finalizer
      BY <2>0, <2>5, <3>2 DEF Deleted, LiveBacked, Backed
    <3> QED BY <3>1, <3>2
  <2>6. CASE AddFinalizer(n)
    <3>1. s # Absent /\ t = [s EXCEPT !.finalizer = TRUE]
      BY <2>6 DEF AddFinalizer, Serving, TypeOK
    <3>2. t \in NodeSetObject /\ t.status = s.status /\ t.finalizer
      BY <1>1, <3>1 DEF NodeSetObject
    <3> QED
      BY <2>3, <3>1, <3>2, AbsentAssumption
  <2>7. CASE Provision(n)
    <3>1. s # Absent /\ t = [s EXCEPT !.status.state = "Updating"]
      BY <2>7 DEF Provision, Serving, TypeOK
    <3>2. /\ t \in NodeSetObject /\ t.finalizer = s.finalizer
          /\ t.status.version = s.status.version
      BY <1>1, <3>1 DEF NodeSetObject, Status, States
    <3> QED
      BY <2>3, <3>1, <3>2, AbsentAssumption
  <2>8. CASE Rescale(n)
    <3> PICK k \in (0 .. MaxReplicas) \ {s.replicas} :
          nodeSet' = [nodeSet EXCEPT ![n].status.state = "Scaling",
                                     ![n].status.nodes = k]
      BY <2>8 DEF Rescale
    <3>1. /\ s # Absent
          /\ t = [s EXCEPT !.status.state = "Scaling", !.status.nodes = k]
      BY <2>8 DEF Rescale, Serving, TypeOK
    <3> DEFINE st == [s.status EXCEPT !.state = "Scaling", !.nodes = k]
    <3>2. st \in Status /\ st.version = s.status.version
      BY <1>1, <3>1 DEF NodeSetObject, Status, States
    <3>3. t = [s EXCEPT !.status = st]
      BY <1>1, <3>1 DEF NodeSetObject, Status
    <3> HIDE DEF st
    <3>4. t \in NodeSetObject /\ t.finalizer = s.finalizer /\ t.status = st
      <4>1. s \in NodeSetObject
        BY <1>1, <3>1
      <4>2. t.finalizer = s.finalizer /\ t.status = st
        BY <3>3, <4>1 DEF NodeSetObject
      <4>3. t \in NodeSetObject
        BY <3>2, <3>3, <4>1 DEF NodeSetObject
      <4> QED
        BY <4>2, <4>3
    <3> QED
      BY <2>3, <3>1, <3>2, <3>4, AbsentAssumption
  <2> QED
    BY <1>4, <2>0, <2>1, <2>2, <2>4, <2>5, <2>6, <2>7, <2>8 DEF Changes
<1> QED
  BY <1>2, <1>3, <1>4, Succeeds

\* What succeeded at the floor of the manager, or above it, stands.
LEMMA SuccessStands ==
    ASSUME TypeOK, Copies, [Next]_vars, NEW p \in Pools, pool[p] # Absent,
           Monotone(p), NEW v \in Versions, Floor(p) <= v,
           LiveBacked(Name(p, v)), succeeded[Name(p, v)]
    PROVE  Serving(Name(p, v)) /\ succeeded'[Name(p, v)]
<1>1. Name(p, v) \in Names /\ Name(p, v)[1] = p
  BY DEF Name, Names
<1>2. Floor(p) \in Nat /\ v \in Nat
  BY Numbers, VersionsAssumption
<1>3. nodeSet[Name(p, v)] # Absent
  BY DEF LiveBacked
<1>4. ~nodeSet[Name(p, v)].deleting
  BY <1>2, <1>3 DEF Monotone
<1> QED
  BY <1>1, <1>3, <1>4, ServingStays DEF Serving

LEMMA CacheBackedNext ==
    ASSUME OnePool, TypeOK, Copies, [Next]_vars, NEW p \in Pools,
           pool[p] # Absent, pool'[p] # Absent, Monotone(p), BackedInv
    PROVE  CacheBacked(p)'
<1> SUFFICES ASSUME NEW v \in Versions, v = Floor(p)'
             PROVE  Backed(Name(p, v), setCache[Name(p, v)])'
  BY DEF CacheBacked
<1> DEFINE n == Name(p, v)
<1>0. n \in Names
  BY DEF Name, Names
<1>1. SUFFICES ASSUME setCache'[n] # Absent,
                      setCache'[n].status.version # NoVersion
               PROVE  setCache'[n].status.version = n[2] /\ succeeded'[n]
  BY DEF Backed, Name
<1>2. Floor(p) \in Nat /\ Floor(p)' \in Nat /\ Floor(p) <= Floor(p)'
  BY FloorRises, Numbers
<1>3. setCache'[n] = setCache[n] \/ setCache'[n] = nodeSet[n]
  BY <1>0, CacheFollows
<1>4. v = Floor(p)
  BY <1>1, <1>2, <1>3 DEF Monotone
<1>5. Backed(n, setCache[n]) /\ LiveBacked(n)
  BY <1>0, <1>4 DEF BackedInv, CacheBacked
<1>6. setCache'[n].status.version = n[2] /\ succeeded[n]
  BY <1>1, <1>3, <1>5 DEF Backed, LiveBacked
<1> QED
  BY <1>2, <1>4, <1>5, <1>6, SuccessStands

LEMMA HandBackedNext ==
    ASSUME OnePool, TypeOK, Copies, [Next]_vars, NEW p \in Pools,
           pool[p] # Absent, pool'[p] # Absent, Monotone(p), BackedInv
    PROVE  HandBacked(p)'
<1> USE DEF api, caches, worker, bounds
<1>1. pc[p] # "idle" =>
        /\ instance[p].version \in Versions /\ Floor(p) = instance[p].version
        /\ Target(p) = Name(p, instance[p].version) /\ Target(p) \in Names
  BY Numbers DEF Floor, Target
<1>2. pc[p] # "idle" /\ succeeded[Target(p)] => succeeded'[Target(p)]
  <2> SUFFICES ASSUME pc[p] # "idle", succeeded[Target(p)]
               PROVE  succeeded'[Target(p)]
    OBVIOUS
  <2>1. LiveBacked(Target(p))
    BY <1>1 DEF BackedInv
  <2>2. Floor(p) <= instance[p].version
    BY <1>1, Numbers
  <2> QED
    BY <1>1, <2>1, <2>2, SuccessStands
<1>3. CASE UNCHANGED <<pc, instance, found>>
  BY <1>2, <1>3 DEF BackedInv, HandBacked, Backed, Target
<1>4. CASE pc'[p] \notin {"update", "list", "delete", "status"}
  BY <1>4 DEF HandBacked
<1>5. CASE Fetch(p)
  <2>1. /\ pc[p] # "idle" /\ Target(p)' = Target(p)
        /\ found'[p] = setCache[Target(p)] /\ succeeded' = succeeded
    BY <1>5 DEF Fetch, Target, TypeOK
  <2>2. Backed(Target(p), setCache[Target(p)])
    BY <1>1, <2>1 DEF BackedInv, CacheBacked
  <2> QED
    BY <2>1, <2>2 DEF HandBacked, Backed
<1>6. CASE Update(p) /\ nodeSet[Target(p)] = found[p]
  <2>1. /\ pc[p] = "update" /\ Target(p)' = Target(p) /\ succeeded' = succeeded
        /\ found'[p] = [found[p] EXCEPT !.sku = instance[p].sku,
                                        !.replicas = instance[p].replicas]
    BY <1>6 DEF Update, Target, TypeOK
  <2>2. found[p] \in NodeSetObject /\ found[p] # Absent
    BY <2>1 DEF TypeOK, Copies
  <2>3. found'[p].status = found[p].status
    BY <2>1, <2>2 DEF NodeSetObject
  <2>4. Backed(Target(p), found[p])
    BY <2>1 DEF BackedInv, HandBacked
  <2> QED
    BY <2>1, <2>2, <2>3, <2>4 DEF HandBacked, Backed
<1>7. CASE List(p) \/ Collect(p)
  <2>1. \/ /\ pc[p] \in {"list", "delete"}
           /\ UNCHANGED <<instance, found>>
        \/ pc'[p] = "idle"
    BY <1>7 DEF List, Collect, Retry, Finish, TypeOK
  <2>2. CASE pc[p] \in {"list", "delete"} /\ UNCHANGED <<instance, found>>
    BY <1>2, <2>2 DEF BackedInv, HandBacked, Backed, Target
  <2> QED
    BY <1>4, <2>1, <2>2
<1>8. ASSUME NEW q \in Pools, Reconcile(q) \/ Fail(q) PROVE HandBacked(p)'
  <2>1. Reconcile(p) \/ Fail(p)
    BY <1>8 DEF OnePool
  <2>2. CASE Start(p) \/ Create(p) \/ UpdateStatus(p) \/ Fail(p)
             \/ (Update(p) /\ nodeSet[Target(p)] # found[p])
    <3>1. pc'[p] \notin {"update", "list", "delete", "status"}
      BY <2>2
      DEF Start, Create, UpdateStatus, Fail, Update, Retry, Done, Finish,
          TypeOK
    <3> QED BY <1>4, <3>1
  <2> QED
    BY <1>5, <1>6, <1>7, <2>1, <2>2 DEF Reconcile
<1>9. CASE Restart
  BY <1>4, <1>9 DEF Restart
<1> QED
  BY <1>3, <1>8, <1>9
  DEF Next, vars, Manager, WatchPool, WatchNodeSet, Resync, User, Upgrade,
      Scale, Resize, Remove, OwnerCollect, NodeSetController, AddFinalizer,
      Provision, Rescale, ReportSuccess, Release

LEMMA PoolBackedNext ==
    ASSUME OnePool, ~CanRevert, TypeOK, Copies, [Next]_vars, NEW p \in Pools,
           pool[p] # Absent, pool'[p] # Absent, Monotone(p), BackedInv
    PROVE  PoolBacked(p)'
<1> USE DEF api, caches, worker, bounds
<1>0. /\ pool[p] \in PoolObject /\ pool[p].version \in Versions
      /\ pool[p].version \in Nat /\ pool[p].version # NoVersion
      /\ pool[p].status.version \in Nat
  <2>1. pool[p] \in PoolObject
    BY DEF TypeOK
  <2>2. pool[p].version \in Versions /\ pool[p].status \in Status
    BY <2>1 DEF PoolObject
  <2> QED
    BY <2>1, <2>2, VersionType, VersionsAssumption DEF NoVersion
<1>1. PoolBacked(p)
  BY DEF BackedInv
<1>2. succeeded[Name(p, pool[p].version)] => succeeded'[Name(p, pool[p].version)]
  <2> SUFFICES ASSUME succeeded[Name(p, pool[p].version)]
               PROVE  succeeded'[Name(p, pool[p].version)]
    OBVIOUS
  <2>1. LiveBacked(Name(p, pool[p].version))
    BY <1>0 DEF BackedInv, Name, Names
  <2>2. Floor(p) <= pool[p].version
    BY <1>0, Numbers DEF Monotone
  <2> QED
    BY <1>0, <2>1, <2>2, SuccessStands
<1>3. ASSUME pool'[p].version = pool[p].version,
             pool'[p].status = pool[p].status
      PROVE  PoolBacked(p)'
  BY <1>1, <1>2, <1>3 DEF PoolBacked, Name
<1>4. ASSUME NEW q \in Pools, UpdateStatus(q) PROVE PoolBacked(p)'
  <2>0. q = p
    BY DEF OnePool
  <2>1. CASE pool[p] = instance[p]
    <3>1. /\ pool'[p] = [pool[p] EXCEPT !.status = found[p].status]
          /\ pc[p] = "status" /\ succeeded' = succeeded
      BY <1>4, <2>0, <2>1 DEF UpdateStatus, ReportedStatus, TypeOK
    <3>2. found[p] # Absent /\ found[p] \in NodeSetObject
      BY <3>1 DEF TypeOK, Copies
    <3>3. found[p].status.version \in Nat
      BY <3>2, VersionType DEF NodeSetObject
    <3>4. /\ pool'[p].status = found[p].status
          /\ pool'[p].version = pool[p].version
      BY <1>0, <3>1 DEF PoolObject
    <3>5. Backed(Target(p), found[p])
      BY <3>1 DEF BackedInv, HandBacked
    <3>6. Target(p) = Name(p, pool[p].version)
          /\ Target(p)[2] = pool[p].version
      BY <2>1 DEF Target, Name
    <3>7. \/ found[p].status.version = NoVersion
          \/ /\ found[p].status.version = pool[p].version
             /\ succeeded[Name(p, pool[p].version)]
      <4>1. \/ found[p].status.version = NoVersion
            \/ /\ found[p].status.version = Target(p)[2]
               /\ succeeded[Target(p)]
        BY <3>2, <3>5 DEF Backed
      <4>2. succeeded[Target(p)] = succeeded[Name(p, pool[p].version)]
        BY <3>6
      <4> QED
        BY <3>6, <4>1, <4>2
    <3> QED
      BY <1>0, <3>1, <3>3, <3>4, <3>7 DEF PoolBacked, Name, NoVersion
  <2>2. CASE pool[p] # instance[p]
    BY <1>3, <1>4, <2>0, <2>2 DEF UpdateStatus
  <2> QED BY <2>1, <2>2
<1>5. ASSUME NEW q \in Pools, User(q) PROVE PoolBacked(p)'
  <2>0. q = p
    BY DEF OnePool
  <2>1. ASSUME NEW v \in Versions, Upgrade(p, v) PROVE PoolBacked(p)'
    <3>1. v > pool[p].version /\ pool' = [pool EXCEPT ![p].version = v]
      BY <2>1 DEF Upgrade
    <3>2. pool'[p].version = v /\ pool'[p].status = pool[p].status
      BY <1>0, <3>1 DEF TypeOK, PoolObject
    <3>3. v \in Nat
      BY VersionsAssumption
    <3> QED
      BY <1>0, <1>1, <3>1, <3>2, <3>3 DEF PoolBacked
  <2>2. ASSUME NEW r \in Replicas, Scale(p, r) PROVE PoolBacked(p)'
    BY <1>0, <1>3, <2>2 DEF Scale, TypeOK, PoolObject
  <2>3. ASSUME NEW k \in SKUs, Resize(p, k) PROVE PoolBacked(p)'
    BY <1>0, <1>3, <2>3 DEF Resize, TypeOK, PoolObject
  <2>4. CASE Remove(p)
    BY <2>4 DEF Remove, TypeOK
  <2> QED
    BY <1>5, <2>0, <2>1, <2>2, <2>3, <2>4 DEF User
<1>6. CASE UNCHANGED pool
  BY <1>3, <1>6
<1> QED
  BY <1>4, <1>5, <1>6
  DEF Next, vars, Manager, Reconcile, Start, Fetch, Create, Update, List,
      Collect, WatchPool, Resync, Fail, WatchNodeSet, Restart, OwnerCollect,
      NodeSetController, AddFinalizer, Provision, Rescale, ReportSuccess, Release

LEMMA BackedNext ==
    ASSUME OnePool, ~CanRevert, TypeOK, Copies, MonotoneInv, BackedInv,
           [Next]_vars
    PROVE  BackedInv'
<1>1. ASSUME NEW n \in Names PROVE LiveBacked(n)'
  BY <1>1, LiveBackedNext DEF BackedInv
<1>2. ASSUME NEW p \in Pools, pool'[p] # Absent
      PROVE  CacheBacked(p)' /\ HandBacked(p)' /\ PoolBacked(p)'
  <2>1. pool[p] # Absent /\ Monotone(p)
    BY <1>2, PoolStays DEF MonotoneInv
  <2> QED
    BY <1>2, <2>1, CacheBackedNext, HandBackedNext, PoolBackedNext
<1>3. Names' = Names
  BY DEF Names
<1> QED
  BY <1>1, <1>2, <1>3 DEF BackedInv

LEMMA BackedInit == Init => BackedInv
<1> SUFFICES ASSUME Init PROVE BackedInv
  OBVIOUS
<1>1. ASSUME NEW n \in Names PROVE LiveBacked(n)
  BY DEF Init, LiveBacked, Backed
<1>2. ASSUME NEW p \in Pools
      PROVE  CacheBacked(p) /\ HandBacked(p) /\ PoolBacked(p)
  <2>1. \A v \in Versions : setCache[Name(p, v)] = Absent
    BY DEF Init, Name, Names
  <2>2. pc[p] = "idle"
    BY DEF Init
  <2>3. pool[p].status = NoStatus /\ pool[p].version \in Versions
    BY DEF Init
  <2>4. /\ pool[p].status.version = 0
        /\ pool[p].version \in Nat /\ pool[p].version # 0
    BY <2>3, VersionType, VersionsAssumption DEF NoVersion
  <2> QED
    BY <2>1, <2>2, <2>4 DEF CacheBacked, Backed, HandBacked, PoolBacked
<1> QED
  BY <1>1, <1>2 DEF BackedInv

LEMMA BackedHolds ==
    ASSUME OnePool, ~CanRevert
    PROVE  Spec => []BackedInv
<1>1. TypeOK /\ Copies /\ MonotoneInv /\ BackedInv /\ [Next]_vars => BackedInv'
  BY BackedNext
<1> QED
  BY <1>1, BackedInit, Typing, FloorHolds, PTL DEF Spec

\* With one pool in the namespace and versions that only go up, a pool claims a
\* version only while the NodeSet of that version is there, is kept and has
\* itself succeeded, whatever is scaled and resized and however old the copies.
THEOREM PoolReportsTrue ==
    ASSUME OnePool, ~CanRevert
    PROVE  Spec => []ReportHonest
<1>1. TypeOK /\ Copies /\ MonotoneInv /\ BackedInv => ReportHonest
  <2> SUFFICES ASSUME TypeOK, Copies, MonotoneInv, BackedInv, NEW p \in Pools,
                      pool[p] # Absent,
                      pool[p].status.version = pool[p].version
               PROVE  LET n == Name(p, pool[p].version)
                      IN  Serving(n) /\ succeeded[n]
    BY DEF ReportHonest
  <2> DEFINE v == pool[p].version
  <2>1. v \in Versions /\ v \in Nat /\ Name(p, v) \in Names
    BY VersionsAssumption DEF TypeOK, PoolObject, Name, Names
  <2>2. Monotone(p) /\ succeeded[Name(p, v)] /\ LiveBacked(Name(p, v))
    BY <2>1 DEF MonotoneInv, BackedInv, PoolBacked
  <2>3. nodeSet[Name(p, v)] # Absent
    BY <2>2 DEF LiveBacked
  <2>4. Floor(p) <= v /\ Floor(p) \in Nat
    BY <2>1, <2>2, Numbers DEF Monotone
  <2>5. ~nodeSet[Name(p, v)].deleting
    BY <2>1, <2>2, <2>3, <2>4 DEF Monotone
  <2> QED
    BY <2>2, <2>3, <2>5 DEF Serving
<1> QED
  BY <1>1, BackedHolds, Typing, FloorHolds, PTL

-----------------------------------------------------------------------------
(* The order of a rollout                                                  *)
(*                                                                         *)
(* The guard of a garbage collection compares a number of VMs with a number*)
(* of replicas, either of which may be old.  For a version the manager may *)
(* still come to work for, whose NodeSet has not succeeded yet, neither is:*)
(* its user has not scaled the pool since it was asked for, so all copies  *)
(* carry one replica count, and no status has come to report as many VMs,  *)
(* unless that count is zero, which every new NodeSet reports.             *)

Unproven(p, v) == Floor(p) <= v /\ ~succeeded[Name(p, v)]

\* The copies of the pool at v carry its replica count.
Unscaled(p, v) ==
    /\ poolCache[p].version = v => poolCache[p].replicas = pool[p].replicas
    /\ pc[p] # "idle" /\ instance[p].version = v =>
         instance[p].replicas = pool[p].replicas

\* The NodeSet of v has that count too.
Equal(p, v) ==
    nodeSet[Name(p, v)] # Absent =>
        nodeSet[Name(p, v)].replicas = pool[p].replicas

\* Stored, cached or in hand, it reports another number of VMs.
Uncounted(p, v) ==
    LET n == Name(p, v) IN
    /\ nodeSet[n] # Absent => nodeSet[n].status.nodes # pool[p].replicas
    /\ setCache[n] # Absent => setCache[n].status.nodes # pool[p].replicas
    /\ pc[p] # "idle" /\ instance[p].version = v =>
         /\ pc[p] = "update" => found[p].status.nodes # pool[p].replicas
         /\ pc[p] \notin {"list", "delete"}

Steady(p) ==
    \A v \in Versions :
        Unproven(p, v) =>
            /\ Unscaled(p, v) /\ Equal(p, v)
            /\ pool[p].replicas # 0 => Uncounted(p, v)

SteadyInv == \A p \in Pools : pool[p] # Absent => Steady(p)

\* What is unproven was so before.
LEMMA UnprovenBefore ==
    ASSUME OnePool, TypeOK, Copies, BackedInv, [Next]_vars, NEW p \in Pools,
           pool[p] # Absent, Monotone(p), NEW v \in Versions, Unproven(p, v)'
    PROVE  Unproven(p, v)
<1>1. /\ Floor(p) \in Nat /\ Floor(p)' \in Nat /\ v \in Nat
      /\ Floor(p) <= Floor(p)' /\ Floor(p)' <= v
  BY FloorRises, Numbers, VersionsAssumption DEF Unproven
<1>2. Floor(p) <= v /\ Name(p, v) \in Names
  BY <1>1 DEF Name, Names
<1>3. ~succeeded'[Name(p, v)]
  BY DEF Unproven, Name
<1> QED
  BY <1>2, <1>3, SuccessStands DEF Unproven, BackedInv

\* A pool that is scaled reported its version: whatever is unproven then is of
\* a version nobody has asked for yet.
LEMMA ScaledWhenProven ==
    ASSUME ~CanHurry, TypeOK, Copies, BackedInv, NEW p \in Pools, NEW r,
           Scale(p, r), Monotone(p), NEW v \in Versions, Unproven(p, v)
    PROVE  /\ poolCache[p].version # v
           /\ pc[p] # "idle" => instance[p].version # v
           /\ nodeSet[Name(p, v)] = Absent /\ setCache[Name(p, v)] = Absent
<1> DEFINE w == pool[p].version
<1>1. pool[p] # Absent /\ pool[p].status.version = w
  BY DEF Scale
<1>2. w \in Versions /\ w \in Nat /\ Name(p, w) \in Names
  BY <1>1, VersionsAssumption DEF TypeOK, PoolObject, Name, Names
<1>3. succeeded[Name(p, w)] /\ nodeSet[Name(p, w)] # Absent
  BY <1>1, <1>2 DEF BackedInv, PoolBacked, LiveBacked
<1>4. /\ w <= Floor(p) /\ Floor(p) \in Nat /\ Floor(p) <= poolCache[p].version
      /\ poolCache[p].version <= w /\ poolCache[p].version \in Nat
  BY <1>1, <1>2, <1>3, Numbers DEF Monotone
<1>5. Floor(p) = w /\ poolCache[p].version = w
  BY <1>2, <1>4
<1>6. v # w
  BY <1>3 DEF Unproven
<1>7. v \in Nat /\ w <= v
  BY <1>5, VersionsAssumption DEF Unproven
<1>8. ~(v <= Floor(p))
  BY <1>2, <1>5, <1>6, <1>7
<1>9. pc[p] # "idle" => instance[p].version = w
  BY <1>5 DEF Floor
<1> QED
  BY <1>5, <1>6, <1>8, <1>9 DEF Monotone

\* Nobody else changes the replica count of a pool that stays.
LEMMA CountStays ==
    ASSUME TypeOK, Copies, [Next]_vars, NEW p \in Pools,
           pool[p] # Absent, pool'[p] # Absent,
           \A r \in Replicas : ~Scale(p, r)
    PROVE  pool'[p].replicas = pool[p].replicas
<1> USE DEF api, caches, worker, bounds
<1>0. pool[p] \in PoolObject
  BY DEF TypeOK
<1>1. ASSUME NEW q \in Pools, UpdateStatus(q)
      PROVE  pool'[p].replicas = pool[p].replicas
  BY <1>0, <1>1 DEF UpdateStatus, TypeOK, PoolObject
<1>2. ASSUME NEW q \in Pools, User(q)
      PROVE  pool'[p].replicas = pool[p].replicas
  <2>1. ASSUME NEW v \in Versions, Upgrade(q, v)
        PROVE  pool'[p].replicas = pool[p].replicas
    BY <1>0, <2>1 DEF Upgrade, TypeOK, PoolObject
  <2>2. ASSUME NEW k \in SKUs, Resize(q, k)
        PROVE  pool'[p].replicas = pool[p].replicas
    BY <1>0, <2>2 DEF Resize, TypeOK, PoolObject
  <2>3. Remove(q) => pool'[p].replicas = pool[p].replicas
    BY DEF Remove, TypeOK
  <2>4. ASSUME NEW r \in Replicas, Scale(q, r), q # p
        PROVE  pool'[p].replicas = pool[p].replicas
    BY <2>4 DEF Scale, TypeOK
  <2> QED
    BY <1>2, <2>1, <2>2, <2>3, <2>4 DEF User
<1>3. CASE UNCHANGED pool
  BY <1>3
<1> QED
  BY <1>1, <1>2, <1>3
  DEF Next, vars, Manager, Reconcile, Start, Fetch, Create, Update, List,
      Collect, WatchPool, Resync, Fail, WatchNodeSet, Restart, OwnerCollect,
      NodeSetController, AddFinalizer, Provision, Rescale, ReportSuccess, Release

\* A cached pool is the cached or the stored one of before.
LEMMA PoolCacheFollows ==
    ASSUME TypeOK, [Next]_vars, NEW p \in Pools
    PROVE  poolCache'[p] = poolCache[p] \/ poolCache'[p] = pool[p]
<1> USE DEF api, caches, worker, bounds
<1>1. ASSUME NEW q \in Pools, WatchPool(q)
      PROVE  poolCache'[p] = poolCache[p] \/ poolCache'[p] = pool[p]
  BY <1>1 DEF WatchPool, TypeOK
<1>2. CASE Restart
  BY <1>2 DEF Restart
<1>3. CASE UNCHANGED poolCache
  BY <1>3
<1> QED
  BY <1>1, <1>2, <1>3
  DEF Next, vars, Manager, Reconcile, Start, Fetch, Create, Update, List,
      Collect, UpdateStatus, Resync, Fail, WatchNodeSet, User, Upgrade, Scale,
      Resize, Remove, OwnerCollect, NodeSetController, AddFinalizer, Provision,
      Rescale, ReportSuccess, Release

\* A reconciliation under way keeps its copy; one that begins takes the cached.
LEMMA InstanceFollows ==
    ASSUME OnePool, TypeOK, Copies, [Next]_vars, NEW p \in Pools, pc'[p] # "idle"
    PROVE  \/ /\ pc[p] = "idle" /\ pc'[p] = "fetch"
              /\ instance'[p] = poolCache[p]
           \/ pc[p] # "idle" /\ instance'[p] = instance[p]
<1> USE DEF api, caches, worker, bounds
<1>1. CASE Start(p)
  BY <1>1 DEF Start, TypeOK
<1>2. CASE pc[p] # "idle" /\ UNCHANGED instance
  BY <1>2
<1>3. CASE UNCHANGED <<pc, instance>>
  BY <1>3
<1>4. CASE \E again : Finish(p, again)
  BY <1>4 DEF Finish, TypeOK
<1>5. CASE Restart
  BY <1>5 DEF Restart
<1>6. ASSUME NEW q \in Pools, Reconcile(q) \/ Fail(q)
      PROVE  \/ Start(p) \/ (\E again : Finish(p, again))
             \/ pc[p] # "idle" /\ UNCHANGED instance
  <2>1. Reconcile(p) \/ Fail(p)
    BY <1>6 DEF OnePool
  <2> QED
    BY <2>1
    DEF Reconcile, Fail, Fetch, Create, Update, List, Collect, UpdateStatus,
        Retry, Done
<1> QED
  BY <1>1, <1>2, <1>3, <1>4, <1>5, <1>6
  DEF Next, vars, Manager, WatchPool, WatchNodeSet, Resync, User, Upgrade,
      Scale, Resize, Remove, OwnerCollect, NodeSetController, AddFinalizer,
      Provision, Rescale, ReportSuccess, Release

LEMMA UnscaledNext ==
    ASSUME OnePool, TypeOK, Copies, [Next]_vars, NEW p \in Pools,
           pool[p] # Absent, pool'[p].replicas = pool[p].replicas,
           NEW v \in Versions, Unscaled(p, v)
    PROVE  Unscaled(p, v)'
<1>1. poolCache'[p].version = v => poolCache'[p].replicas = pool[p].replicas
  BY PoolCacheFollows DEF Unscaled
<1>2. pc'[p] # "idle" /\ instance'[p].version = v =>
        instance'[p].replicas = pool[p].replicas
  BY InstanceFollows DEF Unscaled
<1> QED
  BY <1>1, <1>2 DEF Unscaled

LEMMA NewReports ==
    ASSUME NEW i
    PROVE  NewNodeSet(i).replicas = i.replicas /\ NewNodeSet(i).status.nodes = 0
BY DEF NewNodeSet, NoStatus

\* The stored NodeSet.
LEMMA LiveUncounted ==
    ASSUME OnePool, TypeOK, Copies, [Next]_vars, NEW p \in Pools,
           pool[p] # Absent, NEW v \in Versions, Unscaled(p, v), Equal(p, v),
           pool[p].replicas # 0 => Uncounted(p, v),
           NEW n, n = Name(p, v), ~succeeded'[n], nodeSet'[n] # Absent
    PROVE  /\ nodeSet'[n].replicas = pool[p].replicas
           /\ pool[p].replicas # 0 =>
                nodeSet'[n].status.nodes # pool[p].replicas
<1> USE DEF api, caches, worker, bounds
<1> DEFINE s == nodeSet[n]
           t == nodeSet'[n]
           Goal == /\ t.replicas = pool[p].replicas
                   /\ pool[p].replicas # 0 =>
                        t.status.nodes # pool[p].replicas
<1>0. /\ n \in Names /\ n[1] = p /\ n[2] = v
      /\ s # Absent => /\ s.replicas = pool[p].replicas
                       /\ pool[p].replicas # 0 =>
                            s.status.nodes # pool[p].replicas
                       /\ s \in NodeSetObject
  BY DEF Name, Names, Equal, Uncounted, TypeOK
<1>1. ASSUME s # Absent, t.replicas = s.replicas, t.status.nodes = s.status.nodes
      PROVE  Goal
  BY <1>0, <1>1
<1>2. CASE t = s
  BY <1>0, <1>2
<1>3. ASSUME NEW q \in Pools, Create(q), t # s
      PROVE  Goal
  <2>1. q = p /\ n = Target(p) /\ t = NewNodeSet(instance[p])
    BY <1>0, <1>3 DEF Create, TypeOK, OnePool
  <2>2. instance[p].version = v /\ pc[p] # "idle"
    BY <1>3, <2>1 DEF Create, Target, Name
  <2>3. t.replicas = instance[p].replicas /\ t.status.nodes = 0
    BY <2>1, NewReports
  <2> QED
    BY <2>2, <2>3 DEF Unscaled
<1>4. ASSUME NEW q \in Pools, Update(q), t # s
      PROVE  Goal
  <2>1. q = p
    BY DEF OnePool
  <2>2. /\ n = Target(p) /\ s = found[p] /\ found[p] # Absent
        /\ t = [s EXCEPT !.sku = instance[p].sku,
                         !.replicas = instance[p].replicas]
    <3>1. nodeSet[Target(p)] = found[p] /\ n = Target(p) /\ found[p] # Absent
      BY <1>0, <1>4, <2>1 DEF Update, TypeOK, Copies
    <3> QED
      BY <1>0, <1>4, <2>1, <3>1 DEF Update, TypeOK
  <2>3. instance[p].version = v /\ pc[p] # "idle"
    BY <1>4, <2>1, <2>2 DEF Update, Target, Name
  <2>4. t.replicas = instance[p].replicas /\ t.status = s.status
    BY <1>0, <2>2 DEF NodeSetObject
  <2> QED
    BY <1>0, <2>2, <2>3, <2>4 DEF Unscaled
<1>5. CASE s # Absent /\ t = Deleted(s)
  <2>1. s.finalizer
    BY <1>5 DEF Deleted
  <2> QED
    BY <1>0, <1>1, <1>5, <2>1 DEF Deleted, NodeSetObject
<1>6. CASE AddFinalizer(n)
  <2>1. s # Absent /\ t = [s EXCEPT !.finalizer = TRUE]
    BY <1>0, <1>6 DEF AddFinalizer, Serving, TypeOK
  <2> QED
    BY <1>0, <1>1, <2>1 DEF NodeSetObject
<1>7. CASE Provision(n)
  <2>1. s # Absent /\ t = [s EXCEPT !.status.state = "Updating"]
    BY <1>0, <1>7 DEF Provision, Serving, TypeOK
  <2> QED
    BY <1>0, <1>1, <2>1 DEF NodeSetObject, Status
<1>8. CASE Rescale(n)
  <2>1. s # Absent
    BY <1>8 DEF Rescale, Serving
  <2>2. PICK k \in (0 .. MaxReplicas) \ {s.replicas} :
          t = [s EXCEPT !.status.state = "Scaling", !.status.nodes = k]
    BY <1>0, <1>8 DEF Rescale, TypeOK
  <2>3. t.replicas = s.replicas /\ t.status.nodes = k
    BY <1>0, <2>1, <2>2 DEF NodeSetObject, Status
  <2> QED
    BY <1>0, <2>1, <2>2, <2>3
<1>9. CASE ReportSuccess(n)
  BY <1>0, <1>9 DEF ReportSuccess, TypeOK
<1>10. CASE Release(n)
  BY <1>0, <1>10 DEF Release, TypeOK
<1>11. ASSUME NEW q \in Pools, Collect(q)
       PROVE  t = s \/ (s # Absent /\ t = Deleted(s))
  <2> PICK m \in doomed[q] :
        \/ nodeSet[m] = Absent /\ UNCHANGED nodeSet
        \/ /\ nodeSet[m] # Absent
           /\ nodeSet' = [nodeSet EXCEPT ![m] = Deleted(@)]
    BY <1>11 DEF Collect
  <2>1. m \in Names
    BY DEF TypeOK
  <2> QED
    BY <1>0, <2>1 DEF TypeOK
<1>12. ASSUME NEW m \in Names, OwnerCollect(m)
       PROVE  t = s \/ (s # Absent /\ t = Deleted(s))
  BY <1>0, <1>12 DEF OwnerCollect, TypeOK
<1>13. ASSUME NEW m \in Names, NodeSetController(m), m # n PROVE t = s
  BY <1>0, <1>13
  DEF NodeSetController, AddFinalizer, Provision, Rescale, ReportSuccess,
      Release, TypeOK
<1>14. CASE NodeSetController(n)
  BY <1>14, <1>6, <1>7, <1>8, <1>9, <1>10 DEF NodeSetController
<1>15. CASE UNCHANGED nodeSet
  BY <1>2, <1>15
<1> QED
  BY <1>2, <1>3, <1>4, <1>5, <1>11, <1>12, <1>13, <1>14, <1>15
  DEF Next, vars, Manager, Reconcile, Start, Fetch, List, UpdateStatus,
      WatchPool, Resync, Fail, WatchNodeSet, Restart, User, Upgrade, Scale,
      Resize, Remove

\* The one in hand: no collection begins for it.
LEMMA HandUncounted ==
    ASSUME OnePool, TypeOK, Copies, [Next]_vars, NEW p \in Pools,
           pool[p] # Absent, NEW v \in Versions, Unscaled(p, v),
           Uncounted(p, v), pc'[p] # "idle", instance'[p].version = v
    PROVE  /\ pc'[p] = "update" => found'[p].status.nodes # pool[p].replicas
           /\ pc'[p] \notin {"list", "delete"}
<1> USE DEF api, caches, worker, bounds
<1>1. CASE pc'[p] \notin {"update", "list", "delete"}
  BY <1>1
<1>2. CASE pc'[p] \in {"update", "list", "delete"}
  <2>1. /\ pc[p] # "idle" /\ instance[p].version = v
        /\ instance[p].replicas = pool[p].replicas
        /\ Target(p) = Name(p, v)
    BY <1>2, InstanceFollows DEF Unscaled, Target
  <2>2. CASE Fetch(p)
    <3>1. /\ setCache[Target(p)] # Absent
          /\ found'[p] = setCache[Target(p)]
          /\ pc'[p] \in {"list", "delete"} =>
               setCache[Target(p)].status.nodes = instance[p].replicas
      BY <1>2, <2>2 DEF Fetch, AfterSpec, TypeOK
    <3> QED
      BY <2>1, <3>1 DEF Uncounted
  <2>3. CASE Update(p)
    <3>1. nodeSet[Target(p)] = found[p]
      BY <1>2, <2>3 DEF Update, Retry, Finish, TypeOK
    <3> DEFINE s == [found[p] EXCEPT !.sku = instance[p].sku,
                                     !.replicas = instance[p].replicas]
    <3>2. pc[p] = "update" /\ pc'[p] = AfterSpec(p, s)
      BY <2>3, <3>1 DEF Update, TypeOK
    <3>3. found[p] \in NodeSetObject
      BY <3>2 DEF TypeOK, Copies
    <3>4. s.status = found[p].status
      BY <3>3 DEF NodeSetObject
    <3>5. found[p].status.nodes = instance[p].replicas
      BY <1>2, <3>2, <3>4 DEF AfterSpec
    <3> QED
      BY <2>1, <3>2, <3>5 DEF Uncounted
  <2>4. CASE List(p) \/ Collect(p)
    BY <2>1, <2>4 DEF List, Collect, Uncounted
  <2>5. CASE Start(p) \/ Create(p) \/ UpdateStatus(p) \/ Fail(p) \/ Restart
    BY <1>2, <2>5
    DEF Start, Create, UpdateStatus, Fail, Restart, Retry, Done, Finish, TypeOK
  <2>6. CASE UNCHANGED <<pc, found>>
    BY <2>1, <2>6 DEF Uncounted
  <2>7. ASSUME NEW q \in Pools, Reconcile(q) \/ Fail(q)
        PROVE  Reconcile(p) \/ Fail(p)
    BY <2>7 DEF OnePool
  <2> QED
    BY <2>2, <2>3, <2>4, <2>5, <2>6, <2>7
    DEF Next, vars, Manager, Reconcile, WatchPool, WatchNodeSet, Resync, User,
        Upgrade, Scale, Resize, Remove, OwnerCollect, NodeSetController,
        AddFinalizer, Provision, Rescale, ReportSuccess, Release
<1> QED
  BY <1>1, <1>2

LEMMA SteadyNext ==
    ASSUME OnePool, ~CanRevert, ~CanHurry, TypeOK, Copies, MonotoneInv,
           BackedInv, SteadyInv, [Next]_vars
    PROVE  SteadyInv'
<1> SUFFICES ASSUME NEW p \in Pools, pool'[p] # Absent, NEW v \in Versions,
                    Unproven(p, v)'
             PROVE  /\ Unscaled(p, v)' /\ Equal(p, v)'
                    /\ pool'[p].replicas # 0 => Uncounted(p, v)'
  BY DEF SteadyInv, Steady
<1>1. pool[p] # Absent /\ Monotone(p) /\ Steady(p)
  BY PoolStays DEF MonotoneInv, SteadyInv
<1>2. Unproven(p, v)
  BY <1>1, UnprovenBefore
<1>3. /\ Unscaled(p, v) /\ Equal(p, v)
      /\ pool[p].replicas # 0 => Uncounted(p, v)
  BY <1>1, <1>2 DEF Steady
<1>4. CASE \E r \in Replicas : Scale(p, r)
  <2>1. UNCHANGED <<nodeSet, poolCache, setCache, pc, instance>>
    BY <1>4 DEF Scale, caches, worker
  <2>2. /\ poolCache[p].version # v
        /\ pc[p] # "idle" => instance[p].version # v
        /\ nodeSet[Name(p, v)] = Absent /\ setCache[Name(p, v)] = Absent
    BY <1>1, <1>2, <1>4, ScaledWhenProven
  <2> QED
    BY <2>1, <2>2 DEF Unscaled, Equal, Uncounted, Name
<1>5. CASE \A r \in Replicas : ~Scale(p, r)
  <2> DEFINE n == Name(p, v)
  <2>1. pool'[p].replicas = pool[p].replicas /\ n \in Names
    BY <1>1, <1>5, CountStays DEF Name, Names
  <2>2. ~succeeded'[n]
    BY DEF Unproven, Name
  <2>3. nodeSet'[n] # Absent => /\ nodeSet'[n].replicas = pool[p].replicas
                                /\ pool[p].replicas # 0 =>
                                     nodeSet'[n].status.nodes # pool[p].replicas
    BY <1>1, <1>3, <2>2, LiveUncounted
  <2>4. pool[p].replicas # 0 /\ setCache'[n] # Absent =>
          setCache'[n].status.nodes # pool[p].replicas
    BY <1>3, <2>1, CacheFollows DEF Uncounted
  <2>5. pool[p].replicas # 0 /\ pc'[p] # "idle" /\ instance'[p].version = v =>
          /\ pc'[p] = "update" => found'[p].status.nodes # pool[p].replicas
          /\ pc'[p] \notin {"list", "delete"}
    BY <1>1, <1>3, HandUncounted
  <2>6. Unscaled(p, v)'
    BY <1>1, <1>3, <2>1, UnscaledNext
  <2> QED
    BY <2>1, <2>3, <2>4, <2>5, <2>6 DEF Equal, Uncounted, Name
<1> QED
  BY <1>4, <1>5

LEMMA SteadyInit == Init => SteadyInv
<1> SUFFICES ASSUME Init, NEW p \in Pools, NEW v \in Versions
             PROVE  Unscaled(p, v) /\ Equal(p, v) /\ Uncounted(p, v)
  BY DEF SteadyInv, Steady
<1>1. poolCache[p] = pool[p] /\ pc[p] = "idle"
  BY DEF Init
<1>2. nodeSet[Name(p, v)] = Absent /\ setCache[Name(p, v)] = Absent
  BY DEF Init, Name, Names
<1> QED
  BY <1>1, <1>2 DEF Unscaled, Equal, Uncounted

LEMMA SteadyHolds ==
    ASSUME OnePool, ~CanRevert, ~CanHurry
    PROVE  Spec => []SteadyInv
<1>1. TypeOK /\ Copies /\ MonotoneInv /\ BackedInv /\ SteadyInv /\ [Next]_vars
        => SteadyInv'
  BY SteadyNext
<1> QED
  BY <1>1, SteadyInit, Typing, FloorHolds, BackedHolds, PTL DEF Spec

\* A collection under way works for a NodeSet that succeeded, or for a pool of
\* no VMs; the copy of a pool that asks for some has the pool's own count then.
LEMMA CollectsForSuccess ==
    ASSUME TypeOK, Copies, NEW p \in Pools, pool[p] # Absent, Monotone(p),
           Steady(p), pc[p] = "delete"
    PROVE  \/ succeeded[Target(p)]
           \/ instance[p].replicas = 0 /\ pool[p].replicas = 0
<1>1. /\ instance[p].version \in Versions /\ Floor(p) = instance[p].version
      /\ Floor(p) \in Nat
  BY Numbers DEF Floor
<1> QED
  BY <1>1 DEF Steady, Unproven, Unscaled, Uncounted, Target

\* With one pool in the namespace, versions that only go up and a user who does
\* not scale the pool between asking for a version and its report, a NodeSet is
\* retired only after its successor reported Succeeded, or is to have no VMs.
THEOREM RolloutOrder ==
    ASSUME OnePool, ~CanRevert, ~CanHurry
    PROVE  Spec => []RetireAfterSuccess
<1>1. TypeOK /\ Copies /\ MonotoneInv /\ SteadyInv => RetireAfterSuccess
  BY CollectsForSuccess DEF MonotoneInv, SteadyInv, RetireAfterSuccess
<1> QED
  BY <1>1, Typing, FloorHolds, SteadyHolds, PTL

LEMMA ServingStep ==
    ASSUME OnePool, TypeOK, Copies, MonotoneInv, BackedInv, SteadyInv,
           [Next]_vars, NEW p \in Pools, pool'[p] # Absent, HasSucceeded(p),
           pool[p].replicas # 0
    PROVE  HasSucceeded(p)'
<1>1. pool[p] # Absent /\ Monotone(p) /\ Steady(p)
  BY PoolStays DEF MonotoneInv, SteadyInv
<1>2. \A v \in Versions : Name(p, v) \in Names /\ Name(p, v)[1] = p
  BY DEF Name, Names
<1> PICK v \in Versions : Serving(Name(p, v)) /\ succeeded[Name(p, v)]
  BY DEF HasSucceeded
<1>3. CASE Serving(Name(p, v))'
  <2>1. succeeded'[Name(p, v)]
    BY <1>1, <1>2, ServingStays
  <2> QED BY <1>3, <2>1 DEF HasSucceeded, Name
<1>4. ASSUME NEW q \in Pools, Collect(q), Name(p, v) \in doomed[q]
      PROVE  HasSucceeded(p)'
  <2>1. q = p /\ pc[p] = "delete"
    BY <1>4 DEF OnePool, Collect
  <2>2. /\ succeeded[Target(p)] /\ Target(p) \notin doomed[p]
        /\ instance[p].version \in Versions /\ Target(p) \in Names
        /\ Floor(p) = instance[p].version /\ Floor(p) \in Nat
        /\ Target(p) = Name(p, instance[p].version)
    BY <1>1, <2>1, Numbers, CollectsForSuccess DEF Monotone, Floor, Target
  <2>3. nodeSet[Target(p)] # Absent
    BY <2>2 DEF BackedInv, LiveBacked
  <2>4. ~nodeSet[Target(p)].deleting
    BY <1>1, <2>2, <2>3 DEF Monotone
  <2>5. nodeSet'[Target(p)] = nodeSet[Target(p)] /\ succeeded' = succeeded
    BY <1>4, <2>1, <2>2, CollectSpares
  <2> PICK w \in Versions : Name(p, w) = Target(p)
    BY <2>2
  <2>6. Serving(Name(p, w))' /\ succeeded'[Name(p, w)]
    BY <2>2, <2>3, <2>4, <2>5 DEF Serving, Name
  <2> QED BY <2>6 DEF HasSucceeded, Name
<1> QED
  BY <1>1, <1>2, <1>3, <1>4, ServingStays

\* Under the same assumptions a pool of some VMs, once a NodeSet of it reported
\* Succeeded, is at no step of any rollout without one that did and is kept: a
\* NodeSet is only deleted while its successor, which succeeded, stays.
THEOREM SuccessKept ==
    ASSUME OnePool, ~CanRevert, ~CanHurry
    PROVE  Spec => KeepsSucceeded
<1>1. TypeOK /\ Copies /\ MonotoneInv /\ BackedInv /\ SteadyInv /\ [Next]_vars
        => [\A p \in Pools :
              HasSucceeded(p) /\ pool[p] # Absent /\ pool'[p] # Absent
                             /\ pool[p].replicas # 0
                => HasSucceeded(p)']_vars
  BY ServingStep
<1> QED
  BY <1>1, Typing, FloorHolds, BackedHolds, SteadyHolds, PTL
  DEF Spec, KeepsSucceeded
=============================================================================
