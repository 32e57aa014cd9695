------------------------------ MODULE NodePool ------------------------------
(***************************************************************************)
(* The NodePool controller (src/controllers/nodepool_controller.go) beside *)
(* the API server, the informer caches of the manager, the users of the    *)
(* NodePool objects, and the NodeSet controller as its readers see it.     *)
(*                                                                         *)
(* A reconciliation is a process: one action per call it makes to the API  *)
(* server, with the copies it read in between.  The work queue runs at     *)
(* most one reconciliation per NodePool, and reconciliations of different  *)
(* NodePools interleave (MaxConcurrentReconciles is 30).  Reads come from  *)
(* a cache that may lag; writes fail when the object changed since the     *)
(* copy was read (resourceVersion), which the model decides by comparing   *)
(* the copy with the object.                                               *)
(*                                                                         *)
(* A NodeSet is named after its NodePool and the hash of the pool's        *)
(* Kubernetes version: the pair <<pool, version>> here.                    *)
(***************************************************************************)
EXTENDS Naturals

CONSTANTS
    Pools,         \* the NodePools of one namespace
    Versions,      \* Kubernetes versions, as positive numbers
    SKUs,          \* VM sizes
    MaxReplicas,   \* bound: the largest Spec.Replicas a user asks for
    MaxFaults,     \* bound: failed API calls and manager restarts
    MaxEdits,      \* bound: changes users make to the pools
    CanRevert,     \* may a user ask for a lower version again?
    CanHurry,      \* may a user scale a pool whose upgrade is not reported yet?
    CanResize,     \* may a user change Spec.VMSKUType?
    Absent         \* stands for an object that does not exist

ASSUME VersionsAssumption == Versions \subseteq Nat \ {0}
ASSUME BoundsAssumption == {MaxReplicas, MaxFaults, MaxEdits} \subseteq Nat
ASSUME UsersAssumption == {CanRevert, CanHurry, CanResize} \subseteq BOOLEAN

NoVersion == 0      \* the empty Status.KubernetesVersion

Replicas == 0 .. MaxReplicas
Names == Pools \X Versions
States == {"", "Updating", "Scaling", "Succeeded"}

\* What a NodeSet reports and its NodePool copies: len(NodeStatus),
\* ProvisioningState and KubernetesVersion.
Status == [nodes : 0 .. MaxReplicas, state : States,
           version : Versions \cup {NoVersion}]
NoStatus == [nodes |-> 0, state |-> "", version |-> NoVersion]

PoolObject == [version : Versions, sku : SKUs, replicas : Replicas,
               status : Status]
NodeSetObject == [sku : SKUs, replicas : Replicas, deleting : BOOLEAN,
                  finalizer : BOOLEAN, status : Status]

ASSUME AbsentAssumption == Absent \notin PoolObject \cup NodeSetObject

Steps == {"idle", "fetch", "create", "update", "list", "delete", "status"}

VARIABLES
    pool,        \* NodePool objects in the API server
    nodeSet,     \* NodeSet objects in the API server
    poolCache,   \* the manager's cache of NodePools
    setCache,    \* the manager's cache of NodeSets
    queued,      \* is the pool's key in the work queue?
    pc,          \* the next step of the pool's reconciliation
    instance,    \* its copy of the NodePool
    found,       \* its copy of the NodeSet
    doomed,      \* the NodeSets its garbage collection has still to delete
    succeeded,   \* history: has it reported "Succeeded"?
    faults,      \* failed API calls and restarts so far
    edits        \* user changes so far

api == <<pool, nodeSet>>
caches == <<poolCache, setCache>>
worker == <<queued, pc, instance, found, doomed>>
bounds == <<faults, edits>>
vars == <<api, caches, worker, succeeded, bounds>>

Name(p, v) == <<p, v>>

\* nodeSetName of the reconciliation in progress.
Target(p) == Name(p, instance[p].version)

TypeOK ==
    /\ pool \in [Pools -> PoolObject \cup {Absent}]
    /\ nodeSet \in [Names -> NodeSetObject \cup {Absent}]
    /\ poolCache \in [Pools -> PoolObject \cup {Absent}]
    /\ setCache \in [Names -> NodeSetObject \cup {Absent}]
    /\ queued \in [Pools -> BOOLEAN]
    /\ pc \in [Pools -> Steps]
    /\ instance \in [Pools -> PoolObject \cup {Absent}]
    /\ found \in [Pools -> NodeSetObject \cup {Absent}]
    /\ doomed \in [Pools -> SUBSET Names]
    /\ succeeded \in [Names -> BOOLEAN]
    /\ faults \in 0 .. MaxFaults
    /\ edits \in 0 .. MaxEdits

\* The pools have just been created; the manager has seen them.
Init ==
    /\ pool \in [Pools -> [version : Versions, sku : SKUs,
                           replicas : Replicas, status : {NoStatus}]]
    /\ nodeSet = [n \in Names |-> Absent]
    /\ poolCache = pool
    /\ setCache = nodeSet
    /\ queued = [p \in Pools |-> TRUE]
    /\ pc = [p \in Pools |-> "idle"]
    /\ instance = [p \in Pools |-> Absent]
    /\ found = [p \in Pools |-> Absent]
    /\ doomed = [p \in Pools |-> {}]
    /\ succeeded = [n \in Names |-> FALSE]
    /\ faults = 0
    /\ edits = 0

-----------------------------------------------------------------------------
(* What ends a reconciliation, and the API server's Delete.                *)

Finish(p, again) ==
    /\ pc' = [pc EXCEPT ![p] = "idle"]
    /\ queued' = [queued EXCEPT ![p] = again]
    /\ instance' = [instance EXCEPT ![p] = Absent]
    /\ found' = [found EXCEPT ![p] = Absent]
    /\ doomed' = [doomed EXCEPT ![p] = {}]

\* return ctrl.Result{}: done, unless the key was queued meanwhile.
Done(p) == Finish(p, queued[p])
\* An error, or Requeue: true.
Retry(p) == Finish(p, TRUE)

\* Delete of an existing object: one with a finalizer is only marked.
Deleted(s) == IF s.finalizer THEN [s EXCEPT !.deleting = TRUE] ELSE Absent

-----------------------------------------------------------------------------
(* NodePoolReconciler.Reconcile                                            *)

Start(p) ==
    /\ pc[p] = "idle" /\ queued[p]
    /\ queued' = [queued EXCEPT ![p] = FALSE]
    /\ IF poolCache[p] = Absent
       THEN UNCHANGED <<pc, instance>>
       ELSE /\ instance' = [instance EXCEPT ![p] = poolCache[p]]
            /\ pc' = [pc EXCEPT ![p] = "fetch"]
    /\ UNCHANGED <<api, caches, found, doomed, succeeded, bounds>>

\* Mutant: the other NodeSets are collected as soon as the new one asks for
\* enough VMs.
AfterSpecByReplicas(p, s) ==
    IF s.replicas = instance[p].replicas THEN "list" ELSE "status"

\* Where the reconciliation goes once the NodeSet's spec s is as wanted.
AfterSpec(p, s) ==
    IF s.status.nodes = instance[p].replicas THEN "list" ELSE "status"

\* Mutant: a change of Spec.Replicas is not passed on.
SameSpecButReplicas(p, s) == s.sku = instance[p].sku

SameSpec(p, s) == s.sku = instance[p].sku /\ s.replicas = instance[p].replicas

Fetch(p) ==
    /\ pc[p] = "fetch"
    /\ LET s == setCache[Target(p)] IN
       /\ found' = [found EXCEPT ![p] = s]
       /\ pc' = [pc EXCEPT ![p] =
                    IF s = Absent THEN "create"
                    ELSE IF ~SameSpec(p, s) THEN "update"
                    ELSE AfterSpec(p, s)]
    /\ UNCHANGED <<api, caches, queued, instance, doomed, succeeded, bounds>>

\* Mutant: one VM more than asked for.
NewNodeSetSurge(i) ==
    [sku |-> i.sku, replicas |-> i.replicas + 1, deleting |-> FALSE,
     finalizer |-> FALSE, status |-> NoStatus]

NewNodeSet(i) ==
    [sku |-> i.sku, replicas |-> i.replicas, deleting |-> FALSE,
     finalizer |-> FALSE, status |-> NoStatus]

\* Create fails with AlreadyExists when the cache was behind.
Create(p) ==
    /\ pc[p] = "create"
    /\ nodeSet' = IF nodeSet[Target(p)] = Absent
                  THEN [nodeSet EXCEPT ![Target(p)] = NewNodeSet(instance[p])]
                  ELSE nodeSet
    /\ Retry(p)
    /\ UNCHANGED <<pool, caches, succeeded, bounds>>

\* Mutant: the copy is written whatever became of the object.
UpdateForced(p) ==
    /\ pc[p] = "update"
    /\ LET s == [found[p] EXCEPT !.sku = instance[p].sku,
                                 !.replicas = instance[p].replicas] IN
       /\ nodeSet' = [nodeSet EXCEPT ![Target(p)] = s]
       /\ found' = [found EXCEPT ![p] = s]
       /\ pc' = [pc EXCEPT ![p] = AfterSpec(p, s)]
    /\ UNCHANGED <<pool, caches, queued, instance, doomed, succeeded, bounds>>

Update(p) ==
    /\ pc[p] = "update"
    /\ IF nodeSet[Target(p)] = found[p]
       THEN LET s == [found[p] EXCEPT !.sku = instance[p].sku,
                                      !.replicas = instance[p].replicas] IN
            /\ nodeSet' = [nodeSet EXCEPT ![Target(p)] = s]
            /\ found' = [found EXCEPT ![p] = s]
            /\ pc' = [pc EXCEPT ![p] = AfterSpec(p, s)]
            /\ UNCHANGED <<queued, instance, doomed>>
       ELSE Retry(p) /\ UNCHANGED nodeSet
    /\ UNCHANGED <<pool, caches, succeeded, bounds>>

\* Mutant: the NodeSet in use is not spared.
CondemnedAll(p) == {n \in Names : setCache[n] # Absent}

\* performGarbageCollection: list every NodeSet of the namespace ...
Condemned(p) == {n \in Names : setCache[n] # Absent /\ n # Target(p)}

List(p) ==
    /\ pc[p] = "list"
    /\ doomed' = [doomed EXCEPT ![p] = Condemned(p)]
    /\ pc' = [pc EXCEPT ![p] = IF Condemned(p) = {} THEN "status" ELSE "delete"]
    /\ UNCHANGED <<api, caches, queued, instance, found, succeeded, bounds>>

\* ... and delete all but the one in use; NotFound ends the reconciliation.
Collect(p) ==
    /\ pc[p] = "delete"
    /\ \E n \in doomed[p] :
         IF nodeSet[n] = Absent
         THEN Retry(p) /\ UNCHANGED nodeSet
         ELSE /\ nodeSet' = [nodeSet EXCEPT ![n] = Deleted(@)]
              /\ doomed' = [doomed EXCEPT ![p] = @ \ {n}]
              /\ pc' = [pc EXCEPT ![p] = IF doomed[p] = {n} THEN "status"
                                         ELSE "delete"]
              /\ UNCHANGED <<queued, instance, found>>
    /\ UNCHANGED <<pool, caches, succeeded, bounds>>

\* Mutant: a new NodeSet that reports nothing yet does not reset the state.
ReportedStatusKept(p) ==
    IF found[p].status = NoStatus
    THEN [instance[p].status EXCEPT !.version = instance[p].version]
    ELSE found[p].status

\* What the NodeSet's copy reports.
ReportedStatus(p) == found[p].status

\* Status().Update of the NodePool.
UpdateStatus(p) ==
    /\ pc[p] = "status"
    /\ IF pool[p] = instance[p]
       THEN /\ pool' = [pool EXCEPT ![p].status = ReportedStatus(p)]
            /\ Done(p)
       ELSE Retry(p) /\ UNCHANGED pool
    /\ UNCHANGED <<nodeSet, caches, succeeded, bounds>>

\* A call to the API server fails: return the error, and be queued again.
Fail(p) ==
    /\ pc[p] # "idle" /\ faults < MaxFaults
    /\ faults' = faults + 1
    /\ Retry(p)
    /\ UNCHANGED <<api, caches, succeeded, edits>>

Reconcile(p) ==
    \/ Start(p) \/ Fetch(p) \/ Create(p) \/ Update(p)
    \/ List(p) \/ Collect(p) \/ UpdateStatus(p)

-----------------------------------------------------------------------------
(* controller-runtime: watches, resync, restart of the manager.            *)

\* The NodePool watch: the cache follows and the key is queued.
WatchPool(p) ==
    /\ poolCache[p] # pool[p]
    /\ poolCache' = [poolCache EXCEPT ![p] = pool[p]]
    /\ queued' = [queued EXCEPT ![p] = TRUE]
    /\ UNCHANGED <<api, setCache, pc, instance, found, doomed, succeeded,
                   bounds>>

\* The NodeSet watch: the cache follows; no NodePool is queued for it.
WatchNodeSet(n) ==
    /\ setCache[n] # nodeSet[n]
    /\ setCache' = [setCache EXCEPT ![n] = nodeSet[n]]
    /\ UNCHANGED <<api, poolCache, worker, succeeded, bounds>>

\* The informer's periodic resync queues every NodePool it knows.
Resync(p) ==
    /\ poolCache[p] # Absent /\ ~queued[p]
    /\ queued' = [queued EXCEPT ![p] = TRUE]
    /\ UNCHANGED <<api, caches, pc, instance, found, doomed, succeeded, bounds>>

\* The manager restarts (or loses its lease): it lists and queues all again.
Restart ==
    /\ faults < MaxFaults
    /\ faults' = faults + 1
    /\ poolCache' = pool /\ setCache' = nodeSet
    /\ queued' = [p \in Pools |-> pool[p] # Absent]
    /\ pc' = [p \in Pools |-> "idle"]
    /\ instance' = [p \in Pools |-> Absent]
    /\ found' = [p \in Pools |-> Absent]
    /\ doomed' = [p \in Pools |-> {}]
    /\ UNCHANGED <<api, succeeded, edits>>

-----------------------------------------------------------------------------
(* Users of the NodePool object.                                           *)

Edit == edits < MaxEdits /\ edits' = edits + 1

Upgrade(p, v) ==
    /\ pool[p] # Absent
    /\ v > pool[p].version \/ (CanRevert /\ v < pool[p].version)
    /\ Edit
    /\ pool' = [pool EXCEPT ![p].version = v]
    /\ UNCHANGED <<nodeSet, caches, worker, succeeded, faults>>

Scale(p, r) ==
    /\ pool[p] # Absent /\ pool[p].replicas # r
    /\ pool[p].status.version = pool[p].version \/ CanHurry
    /\ Edit
    /\ pool' = [pool EXCEPT ![p].replicas = r]
    /\ UNCHANGED <<nodeSet, caches, worker, succeeded, faults>>

Resize(p, k) ==
    /\ CanResize
    /\ pool[p] # Absent /\ pool[p].sku # k
    /\ Edit
    /\ pool' = [pool EXCEPT ![p].sku = k]
    /\ UNCHANGED <<nodeSet, caches, worker, succeeded, faults>>

Remove(p) ==
    /\ pool[p] # Absent
    /\ Edit
    /\ pool' = [pool EXCEPT ![p] = Absent]
    /\ UNCHANGED <<nodeSet, caches, worker, succeeded, faults>>

User(p) ==
    \/ \E v \in Versions : Upgrade(p, v)
    \/ \E r \in Replicas : Scale(p, r)
    \/ \E k \in SKUs : Resize(p, k)
    \/ Remove(p)

\* Kubernetes' own garbage collector: the controller reference of a NodeSet
\* names a NodePool that is gone.
OwnerCollect(n) ==
    /\ pool[n[1]] = Absent
    /\ nodeSet[n] # Absent
    /\ ~nodeSet[n].deleting
    /\ nodeSet' = [nodeSet EXCEPT ![n] = Deleted(@)]
    /\ UNCHANGED <<pool, caches, worker, succeeded, bounds>>

-----------------------------------------------------------------------------
(* The NodeSet controller: the steps NodeSetContract allows it, no fewer.  *)

Serving(n) == nodeSet[n] # Absent /\ ~nodeSet[n].deleting

AddFinalizer(n) ==
    /\ Serving(n) /\ ~nodeSet[n].finalizer
    /\ nodeSet' = [nodeSet EXCEPT ![n].finalizer = TRUE]
    /\ UNCHANGED <<pool, caches, worker, succeeded, bounds>>

SuccessStatus(n) ==
    [nodes |-> nodeSet[n].replicas, state |-> "Succeeded", version |-> n[2]]

\* A relapse counts as a fault: a NodeSet that had succeeded loses a VM, the VMs
\* cannot be listed, or they come and go while it scales.
Relapse(n, from) ==
    IF nodeSet[n].status.state \in from /\ nodeSet[n].status # SuccessStatus(n)
    THEN UNCHANGED faults
    ELSE faults < MaxFaults /\ faults' = faults + 1

\* "Updating", and CreateVMSS for Spec.Replicas.
Provision(n) ==
    /\ Serving(n) /\ nodeSet[n].finalizer
    /\ Relapse(n, {""})
    /\ nodeSet' = [nodeSet EXCEPT ![n].status.state = "Updating"]
    /\ UNCHANGED <<pool, caches, worker, succeeded, edits>>

\* Another number of VMs than wanted is listed and reported.
Rescale(n) ==
    /\ Serving(n) /\ nodeSet[n].finalizer
    /\ Relapse(n, {"Succeeded"})
    /\ \E k \in (0 .. MaxReplicas) \ {nodeSet[n].replicas} :
         nodeSet' = [nodeSet EXCEPT ![n].status.state = "Scaling",
                                    ![n].status.nodes = k]
    /\ UNCHANGED <<pool, caches, worker, succeeded, edits>>

\* The wanted number of VMs, and WaitForNodesReady counted as many Nodes: it
\* takes those that have a Ready condition, be it true or not.
ReportSuccess(n) ==
    /\ Serving(n) /\ nodeSet[n].finalizer
    /\ nodeSet[n].status # SuccessStatus(n)
    /\ nodeSet' = [nodeSet EXCEPT ![n].status = SuccessStatus(n)]
    /\ succeeded' = [succeeded EXCEPT ![n] = TRUE]
    /\ UNCHANGED <<pool, caches, worker, bounds>>

\* Drained and deleted: the finalizer goes, and the object with it.
Release(n) ==
    /\ nodeSet[n] # Absent /\ nodeSet[n].deleting
    /\ nodeSet' = [nodeSet EXCEPT ![n] = Absent]
    /\ succeeded' = [succeeded EXCEPT ![n] = FALSE]
    /\ UNCHANGED <<pool, caches, worker, bounds>>

NodeSetController(n) ==
    \/ AddFinalizer(n) \/ Provision(n) \/ Rescale(n)
    \/ ReportSuccess(n) \/ Release(n)

-----------------------------------------------------------------------------
Manager ==
    \/ \E p \in Pools : Reconcile(p) \/ WatchPool(p) \/ Resync(p) \/ Fail(p)
    \/ \E n \in Names : WatchNodeSet(n)
    \/ Restart

Next ==
    \/ Manager
    \/ \E p \in Pools : User(p)
    \/ \E n \in Names : OwnerCollect(n) \/ NodeSetController(n)

Spec == Init /\ [][Next]_vars

\* The queue, the watches, the resync and the other controllers keep going, and
\* a NodeSet left alone succeeds or goes (Converges of NodeSet); users and
\* faults need not happen.
Fairness ==
    /\ \A p \in Pools :
         WF_vars(Reconcile(p)) /\ WF_vars(WatchPool(p)) /\ WF_vars(Resync(p))
    /\ \A n \in Names :
         /\ WF_vars(WatchNodeSet(n))
         /\ WF_vars(OwnerCollect(n))
         /\ WF_vars(AddFinalizer(n))
         /\ WF_vars(ReportSuccess(n))
         /\ WF_vars(Release(n))

FairSpec == Spec /\ Fairness
-----------------------------------------------------------------------------
(* Properties                                                              *)

\* A NodeSet that has reported "Succeeded", and nobody is deleting it.  It had
\* its VMs then, and as many Nodes; whether these are Ready it does not know.
HasSucceeded(p) ==
    \E v \in Versions : Serving(Name(p, v)) /\ succeeded[Name(p, v)]

\* A reconciliation collects the other NodeSets only when the one it keeps has
\* reported Succeeded, or is to have no VMs: "creating new and deprecating old",
\* in that order, although the code compares nothing but two counts of VMs.
RetireAfterSuccess ==
    \A p \in Pools :
        pc[p] = "delete" /\ pool[p] # Absent
          => succeeded[Target(p)] \/ instance[p].replicas = 0

\* A pool of some VMs that has a NodeSet which reported Succeeded keeps having
\* one through every step of a rollout, stale caches, conflicts and restarts
\* included.
KeepsSucceeded ==
    [][\A p \in Pools :
         HasSucceeded(p) /\ pool[p] # Absent /\ pool'[p] # Absent
                        /\ pool[p].replicas # 0
           => HasSucceeded(p)']_vars

\* No step deletes the NodeSet of the version an existing pool asks for.
WantedKept ==
    [][\A p \in Pools :
         pool[p] # Absent /\ pool'[p] # Absent
           => \A v \in Versions :
                v = pool[p].version /\ Serving(Name(p, v))
                  => Serving(Name(p, v))']_vars

\* What "azk upgrade" waits for, Succeeded at the version asked for, is said
\* only while a NodeSet of that version exists, is kept and has itself reported
\* Succeeded.
ReportHonest ==
    \A p \in Pools :
        /\ pool[p] # Absent
        /\ pool[p].status.state = "Succeeded"
        /\ pool[p].status.version = pool[p].version
        => LET n == Name(p, pool[p].version) IN Serving(n) /\ succeeded[n]

\* The NodeSets the pool's user wants: the one of its version, or none.
Wanted(p) ==
    {Name(p, v) :
        v \in {w \in Versions : pool[p] # Absent /\ pool[p].version = w}}

\* Once its users leave the pool alone (MaxEdits sees to that), only the
\* NodeSet asked for is left and the pool reports its success, whatever was
\* asked before; a deleted pool leaves no NodeSet, not even one that a
\* reconciliation creates after the deletion.
Converges ==
    <>[](\A p \in Pools :
           /\ \A v \in Versions :
                nodeSet[Name(p, v)] # Absent <=> Name(p, v) \in Wanted(p)
           /\ pool[p] # Absent =>
                pool[p].status = [nodes |-> pool[p].replicas,
                                  state |-> "Succeeded",
                                  version |-> pool[p].version])

\* A NodeSet as NodeSetContract has it.
View(n) ==
    LET s == nodeSet[n] IN
    IF s = Absent THEN Absent
    ELSE [replicas |-> s.replicas, deleting |-> s.deleting,
          finalizer |-> s.finalizer, nodes |-> s.status.nodes,
          state |-> s.status.state,
          reported |-> s.status.version # NoVersion]

NodeSetOf(n) == INSTANCE NodeSetContract
                WITH obj <- View(n), Counts <- 0 .. MaxReplicas

ASSUME ViewAssumption == \A n \in Names : Absent \notin NodeSetOf(n)!Object

\* The reconciliations of the pools, through stale copies, conflicts and
\* failures, change a NodeSet only as its owner may: none is put back to what a
\* copy said of it, and one that has a finalizer is not removed but marked.
OwnsByContract ==
    [][\A n \in Names : [NodeSetOf(n)!Next]_(View(n))]_vars
=============================================================================
