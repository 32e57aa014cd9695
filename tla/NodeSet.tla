------------------------------- MODULE NodeSet -------------------------------
(***************************************************************************)
(* The NodeSet controller (src/controllers/nodeset_controller.go) for one  *)
(* NodeSet, beside the API server, the VM scale set that Azure keeps for   *)
(* it (src/azure/vmss.go) and the Node objects of its VMs.                 *)
(*                                                                         *)
(* One action per call a reconciliation makes.  Reads of the NodeSet come  *)
(* from the manager's cache; a write fails when the object is no longer    *)
(* the copy that was read.  Azure and the Nodes change on their own.       *)
(***************************************************************************)
EXTENDS Naturals, FiniteSets

CONSTANTS
    VMs,           \* VM instance ids, numbers in the order VMs are listed
    MaxReplicas,   \* bound: the largest Spec.Replicas asked for
    PageSize,      \* how many VMs one page of the VM list holds
    Failing,       \* the calls that may fail, a subset of Calls
    MaxFaults,     \* bound: failed calls and manager restarts
    MaxEdits,      \* bound: changes to Spec.Replicas and deletion
    Absent

\* "share" is a failed drain whose error lands in the drain of another NodeSet:
\* the handler for fatal errors is one for the process.
Calls == {"api", "list", "put", "drain", "share", "vm", "delete", "restart"}

ASSUME VMsAssumption == VMs \subseteq Nat /\ IsFiniteSet(VMs)
ASSUME BoundsAssumption ==
    {MaxReplicas, PageSize, MaxFaults, MaxEdits} \subseteq Nat
ASSUME FailingAssumption == Failing \subseteq Calls

Replicas == 0 .. MaxReplicas
States == {"", "Updating", "Scaling", "Succeeded"}

\* Spec.Replicas, deletionTimestamp, our finalizer, Status.NodeStatus,
\* Status.ProvisioningState, and whether Status.Kubeconfig is set.
Object == [replicas : Replicas, deleting : BOOLEAN, finalizer : BOOLEAN,
           nodes : SUBSET VMs, state : States, kubeconfig : BOOLEAN]

ASSUME AbsentAssumption == Absent \notin Object

\* The Node of a VM: not registered yet, registered with its Ready condition
\* false or true, or deleted by the controller, drained or not (its kubelet
\* does not register it again).
NodeStates == {"none", "notready", "ready", "evicted", "undrained"}

Steps == {"idle", "finalize", "evictall", "deletevmss", "release", "list",
          "updating", "put", "scaling", "evict", "removevm", "resize", "wait",
          "report"}

VARIABLES
    obj,        \* the NodeSet in the API server
    cache,      \* the manager's cached copy
    cluster,    \* is the Cluster's ProvisioningState "Succeeded"?
    queued,     \* is the NodeSet's key in the work queue?
    pc,         \* the next step of the reconciliation
    read,       \* the NodeSet as it was read, or last written
    instance,   \* the copy it works on
    todo,       \* the VMs it has still to drain or delete
    vmss,       \* does the scale set exist?
    vms,        \* its VMs
    leaving,    \* VMs whose deletion Azure accepted and has not finished
    node,       \* the Node object of each VM
    faults, edits

worker == <<queued, pc, read, instance, todo>>
azure == <<vmss, vms, leaving>>
bounds == <<faults, edits>>
vars == <<obj, cache, cluster, worker, azure, node, bounds>>

TypeOK ==
    /\ obj \in Object \cup {Absent}
    /\ cache \in Object \cup {Absent}
    /\ cluster \in BOOLEAN
    /\ queued \in BOOLEAN
    /\ pc \in Steps
    /\ read \in Object \cup {Absent}
    /\ instance \in Object \cup {Absent}
    /\ pc = "idle" <=> instance = Absent
    /\ pc = "idle" <=> read = Absent
    /\ todo \in SUBSET VMs
    /\ vmss \in BOOLEAN
    /\ vms \in SUBSET VMs
    /\ leaving \in SUBSET VMs
    /\ node \in [VMs -> NodeStates]
    /\ faults \in 0 .. MaxFaults
    /\ edits \in 0 .. MaxEdits

\* The NodePool controller has just created the NodeSet.
Init ==
    /\ obj \in [replicas : Replicas, deleting : {FALSE}, finalizer : {FALSE},
                nodes : {{}}, state : {""}, kubeconfig : {FALSE}]
    /\ cache = obj
    /\ cluster = FALSE
    /\ queued = TRUE
    /\ pc = "idle"
    /\ read = Absent
    /\ instance = Absent
    /\ todo = {}
    /\ vmss = FALSE
    /\ vms = {}
    /\ leaving = {}
    /\ node = [v \in VMs |-> "none"]
    /\ faults = 0
    /\ edits = 0

-----------------------------------------------------------------------------
Goto(step) == pc' = step /\ UNCHANGED <<queued, read, instance, todo>>

\* Mutant: the copy outlives the reconciliation.
FinishKeepingCopy(again) ==
    /\ pc' = "idle"
    /\ queued' = again
    /\ UNCHANGED <<read, instance>>
    /\ todo' = {}

Finish(again) ==
    /\ pc' = "idle"
    /\ queued' = again
    /\ read' = Absent
    /\ instance' = Absent
    /\ todo' = {}

Done == Finish(queued)
Retry == Finish(TRUE)

\* A call of this kind fails now.
Fault(call) ==
    /\ call \in Failing /\ faults < MaxFaults
    /\ faults' = faults + 1
    /\ UNCHANGED edits

\* Update and Status().Update: o replaces the object if it is still the copy
\* that was read; otherwise Conflict (or NotFound), and again from the start.
Write(o, step) ==
    IF obj = read
    THEN /\ obj' = o /\ read' = o /\ instance' = o
         /\ pc' = step
         /\ UNCHANGED queued
    ELSE Retry /\ UNCHANGED obj

-----------------------------------------------------------------------------
(* Reconcile: what to do with the copy that was read                       *)

\* Mutant: the scale set is created before the finalizer is there.
NextStepUnguarded(o) ==
    IF o.deleting THEN IF o.finalizer THEN "evictall" ELSE "idle"
    ELSE "list"

\* Mutant: deletion is left to someone else.
NextStepNoCleanup(o) ==
    IF o.deleting THEN "idle"
    ELSE IF o.finalizer THEN "list" ELSE "finalize"

NextStep(o) ==
    IF o.deleting THEN IF o.finalizer THEN "evictall" ELSE "idle"
    ELSE IF o.finalizer THEN "list" ELSE "finalize"

Start ==
    /\ pc = "idle" /\ queued
    /\ IF cache = Absent \/ ~cluster
       THEN \* Without its Cluster the NodeSet is looked at again later.
            /\ queued' = (cache # Absent)
            /\ UNCHANGED <<pc, read, instance, todo>>
       ELSE /\ queued' = FALSE
            /\ pc' = NextStep(cache)
            /\ read' = IF pc' = "idle" THEN Absent ELSE cache
            /\ instance' = read'
            /\ todo' = IF pc' = "evictall" THEN cache.nodes ELSE {}
    /\ UNCHANGED <<obj, cache, cluster, azure, node, bounds>>

Finalize ==
    /\ pc = "finalize"
    /\ obj' = IF obj = read THEN [obj EXCEPT !.finalizer = TRUE] ELSE obj
    /\ Retry
    /\ UNCHANGED <<cache, cluster, azure, node, bounds>>

-----------------------------------------------------------------------------
(* CordonDrainAndDeleteNode                                                *)

\* Nothing is drained before a kubeconfig was reported.
Skipped == ~instance.kubeconfig

Registered(v) == node[v] \in {"notready", "ready"}

\* The Node is drained and deleted.
Evicted(v) == node' = IF Skipped THEN node ELSE [node EXCEPT ![v] = "evicted"]

\* The drain failed, its error went elsewhere, and the Node is deleted.
ErrorLost(v) ==
    /\ ~Skipped /\ Registered(v) /\ Fault("share")
    /\ node' = [node EXCEPT ![v] = "undrained"]

-----------------------------------------------------------------------------
(* deleteNodeSet: drain what can be drained, delete the scale set; no      *)
(* error of either keeps the finalizer.                                    *)

EvictAll ==
    /\ pc = "evictall"
    /\ IF todo = {}
       THEN Goto("deletevmss") /\ UNCHANGED <<node, bounds>>
       ELSE \E v \in todo :
              /\ todo' = todo \ {v}
              /\ UNCHANGED <<pc, queued, read, instance>>
              /\ \/ Registered(v) /\ Evicted(v) /\ UNCHANGED bounds
                 \/ ~Registered(v) /\ UNCHANGED <<node, bounds>>
                 \/ Registered(v) /\ Fault("drain") /\ UNCHANGED node
                 \/ ErrorLost(v)
    /\ UNCHANGED <<obj, cache, cluster, azure>>

DeleteVMSS ==
    /\ pc = "deletevmss"
    /\ \/ /\ vmss' = FALSE /\ vms' = {} /\ leaving' = {}
          /\ UNCHANGED bounds
       \/ Fault("delete") /\ UNCHANGED azure
    /\ Goto("release")
    /\ UNCHANGED <<obj, cache, cluster, node>>

\* The finalizer was the last thing the deleted object was kept for.
Release ==
    /\ pc = "release"
    /\ IF obj = read THEN obj' = Absent /\ Done
                     ELSE Retry /\ UNCHANGED obj
    /\ UNCHANGED <<cache, cluster, azure, node, bounds>>

-----------------------------------------------------------------------------
(* updateNodeSet: list the VMs                                             *)

\* The VMs listed before v; a list shows the VMs being deleted too.
Before(v, S) == {w \in S : w < v}

FirstPage(S) == {v \in S : Cardinality(Before(v, S)) < PageSize}

\* Mutant: more VMs than wanted are as good as enough.
AtSizeOrAbove(listed) == Cardinality(listed) >= instance.replicas

AtSize(listed) == Cardinality(listed) = instance.replicas

List ==
    /\ pc = "list"
    /\ \/ /\ vmss
          /\ LET listed == FirstPage(vms \cup leaving) IN
             /\ instance' = [instance EXCEPT !.nodes = listed]
             /\ pc' = IF AtSize(listed) THEN "wait" ELSE "scaling"
          /\ UNCHANGED <<queued, read, todo, bounds>>
       \/ ~vmss /\ Goto("updating") /\ UNCHANGED bounds
       \/ vmss /\ Goto("updating") /\ Fault("list")
    /\ UNCHANGED <<obj, cache, cluster, azure, node>>

-----------------------------------------------------------------------------
(* The VMs could not be listed: CreateVMSS                                 *)

\* The list left the copy's NodeStatus as it was read.
Updating ==
    /\ pc = "updating"
    /\ Write([instance EXCEPT !.state = "Updating"], "put")
    /\ todo' = {}
    /\ UNCHANGED <<cache, cluster, azure, node, bounds>>

\* Azure brings the scale set to n VMs; which ones come or go is its choice.
SetCapacity(n) ==
    IF Cardinality(vms) <= n
    THEN \E new \in SUBSET {v \in VMs \ (vms \cup leaving) : node[v] = "none"} :
           Cardinality(new) = n - Cardinality(vms) /\ vms' = vms \cup new
    ELSE \E keep \in SUBSET vms : Cardinality(keep) = n /\ vms' = keep

Put ==
    /\ pc = "put"
    /\ \/ /\ vmss' = TRUE
          /\ SetCapacity(instance.replicas)
          /\ UNCHANGED bounds
       \/ Fault("put") /\ UNCHANGED <<vmss, vms>>
    /\ Retry
    /\ UNCHANGED <<obj, cache, cluster, leaving, node>>

-----------------------------------------------------------------------------
(* Another number of VMs than wanted: scaleNodeSet                         *)

\* Mutant: one VM too many is spared.
SurplusOffByOne ==
    {v \in instance.nodes :
       Cardinality(Before(v, instance.nodes)) > instance.replicas}

\* The VMs listed after the first Spec.Replicas.
Surplus ==
    {v \in instance.nodes :
       Cardinality(Before(v, instance.nodes)) >= instance.replicas}

\* Mutant: the status is patched, whatever became of the NodeSet since it was read.
ScalingForced ==
    /\ pc = "scaling" /\ obj # Absent
    /\ obj' = [instance EXCEPT !.state = "Scaling"]
    /\ read' = obj' /\ instance' = obj'
    /\ pc' = IF Surplus = {} THEN "resize" ELSE "evict"
    /\ todo' = Surplus
    /\ UNCHANGED <<queued, cache, cluster, azure, node, bounds>>

Scaling ==
    /\ pc = "scaling"
    /\ Write([instance EXCEPT !.state = "Scaling"],
             IF Surplus = {} THEN "resize" ELSE "evict")
    /\ todo' = IF obj = read THEN Surplus ELSE {}
    /\ UNCHANGED <<cache, cluster, azure, node, bounds>>

First(S) == CHOOSE v \in S : Before(v, S) = {}

\* A Node that is gone cannot be drained: the error ends the reconciliation.
Evict ==
    /\ pc = "evict"
    /\ LET v == First(todo) IN
       \/ (Skipped \/ Registered(v)) /\ Evicted(v) /\ Goto("removevm")
          /\ UNCHANGED bounds
       \/ ~Skipped /\ ~Registered(v) /\ Retry /\ UNCHANGED <<node, bounds>>
       \/ ~Skipped /\ Registered(v) /\ Fault("drain") /\ Retry /\ UNCHANGED node
       \/ ErrorLost(v) /\ Goto("removevm")
    /\ UNCHANGED <<obj, cache, cluster, azure>>

\* Azure accepts the deletion of the VM; nobody waits for it to finish.
RemoveVM ==
    /\ pc = "removevm"
    /\ LET v == First(todo) IN
       \/ /\ vms' = vms \ {v}
          /\ leaving' = leaving \cup (vms \cap {v})
          /\ todo' = todo \ {v}
          /\ pc' = IF todo = {v} THEN "resize" ELSE "evict"
          /\ UNCHANGED <<queued, read, instance, bounds>>
       \/ Fault("vm") /\ Retry /\ UNCHANGED <<vms, leaving>>
    /\ UNCHANGED <<obj, cache, cluster, vmss, node>>

\* ScaleVMSS
Resize ==
    /\ pc = "resize"
    /\ \/ SetCapacity(instance.replicas) /\ UNCHANGED bounds
       \/ Fault("put") /\ UNCHANGED vms
    /\ Retry
    /\ UNCHANGED <<obj, cache, cluster, vmss, leaving, node>>

-----------------------------------------------------------------------------
(* The wanted number of VMs: WaitForNodesReady and report                  *)

\* Nodes named after the NodeSet that have a Ready condition, true or not.
FoundNodes == {v \in VMs : Registered(v)}

Wait ==
    /\ pc = "wait"
    /\ IF Cardinality(FoundNodes) >= instance.replicas
       THEN Goto("report") ELSE Retry
    /\ UNCHANGED <<obj, cache, cluster, azure, node, bounds>>

\* Mutant: the success is written on the NodeSet as it was read, without the
\* VMs listed since.
ReportAsRead ==
    /\ pc = "report"
    /\ IF obj = read
       THEN /\ obj' = [read EXCEPT !.state = "Succeeded", !.kubeconfig = TRUE]
            /\ Done
       ELSE Retry /\ UNCHANGED obj
    /\ UNCHANGED <<cache, cluster, azure, node, bounds>>

Report ==
    /\ pc = "report"
    /\ IF obj = read
       THEN /\ obj' = [instance EXCEPT !.state = "Succeeded",
                                       !.kubeconfig = TRUE]
            /\ Done
       ELSE Retry /\ UNCHANGED obj
    /\ UNCHANGED <<cache, cluster, azure, node, bounds>>

-----------------------------------------------------------------------------
(* controller-runtime                                                      *)

ApiError ==
    /\ pc \in {"finalize", "release", "updating", "scaling", "wait", "report"}
    /\ Fault("api") /\ Retry
    /\ UNCHANGED <<obj, cache, cluster, azure, node>>

Watch ==
    /\ cache # obj
    /\ cache' = obj
    /\ queued' = TRUE
    /\ UNCHANGED <<obj, cluster, pc, read, instance, todo, azure, node, bounds>>

\* The informer's periodic resync.
Resync ==
    /\ cache # Absent /\ ~queued
    /\ queued' = TRUE
    /\ UNCHANGED <<obj, cache, cluster, pc, read, instance, todo, azure, node,
                   bounds>>

Restart ==
    /\ Fault("restart")
    /\ cache' = obj
    /\ Finish(obj # Absent)
    /\ UNCHANGED <<obj, cluster, azure, node>>

-----------------------------------------------------------------------------
(* The rest of the world                                                   *)

ClusterSucceeds ==
    /\ ~cluster /\ cluster' = TRUE
    /\ UNCHANGED <<obj, cache, worker, azure, node, bounds>>

Edit ==
    /\ edits < MaxEdits /\ edits' = edits + 1
    /\ UNCHANGED <<cache, cluster, worker, azure, node, faults>>

\* The NodePool controller passes on another Spec.Replicas.
SetReplicas ==
    /\ obj # Absent
    /\ \E r \in Replicas \ {obj.replicas} :
         obj' = [obj EXCEPT !.replicas = r]
    /\ Edit

Delete ==
    /\ obj # Absent /\ ~obj.deleting
    /\ obj' = IF obj.finalizer THEN [obj EXCEPT !.deleting = TRUE] ELSE Absent
    /\ Edit

\* A VM boots and its kubelet registers the Node; the Node becomes Ready, or
\* stops being so.
Join(v) ==
    /\ v \in vms /\ node[v] = "none"
    /\ node' = [node EXCEPT ![v] = "notready"]
    /\ UNCHANGED <<obj, cache, cluster, worker, azure, bounds>>

TurnReady(v) ==
    /\ v \in vms /\ node[v] = "notready"
    /\ node' = [node EXCEPT ![v] = "ready"]
    /\ UNCHANGED <<obj, cache, cluster, worker, azure, bounds>>

TurnNotReady(v) ==
    /\ node[v] = "ready"
    /\ node' = [node EXCEPT ![v] = "notready"]
    /\ UNCHANGED <<obj, cache, cluster, worker, azure, bounds>>

\* Azure has deleted the VM.
VMGone(v) ==
    /\ v \in leaving
    /\ leaving' = leaving \ {v}
    /\ UNCHANGED <<obj, cache, cluster, worker, vmss, vms, node, bounds>>

\* Kubernetes forgets the Node of a VM that no longer exists.
NodeGone(v) ==
    /\ v \notin vms \cup leaving /\ node[v] # "none"
    /\ node' = [node EXCEPT ![v] = "none"]
    /\ UNCHANGED <<obj, cache, cluster, worker, azure, bounds>>

-----------------------------------------------------------------------------
Reconcile ==
    \/ Start \/ Finalize \/ EvictAll \/ DeleteVMSS \/ Release \/ List
    \/ Updating \/ Put \/ Scaling \/ Evict \/ RemoveVM \/ Resize \/ Wait
    \/ Report

World(v) == Join(v) \/ TurnReady(v) \/ VMGone(v) \/ NodeGone(v)

Next ==
    \/ Reconcile \/ ApiError \/ Watch \/ Resync \/ Restart
    \/ ClusterSucceeds \/ SetReplicas \/ Delete
    \/ \E v \in VMs : World(v) \/ TurnNotReady(v)

Spec == Init /\ [][Next]_vars

\* The manager keeps working, its caches catch up, VMs boot and go; calls need
\* not fail, nodes need not turn NotReady, nobody need edit anything.
Fairness ==
    /\ WF_vars(Reconcile) /\ WF_vars(Watch) /\ WF_vars(Resync)
    /\ WF_vars(ClusterSucceeds)
    /\ \A v \in VMs : WF_vars(World(v))

FairSpec == Spec /\ Fairness
-----------------------------------------------------------------------------
(* Properties                                                              *)

\* A scale set exists only for a NodeSet that still holds the finalizer, so
\* that its deletion removes the scale set too: whatever a reconciliation does
\* with a stale copy, none creates a scale set for a NodeSet that is gone.
NoOrphanVMSS == vmss => obj # Absent /\ obj.finalizer

\* A VM of a NodeSet in use is given up only after its Node was drained and
\* deleted, whichever of the three calls that shrink a scale set gives it up.
DrainBeforeRemove ==
    [][\A v \in vms \ vms' :
         obj # Absent /\ obj.kubeconfig /\ ~obj.deleting
           => node[v] = "evicted"]_vars

\* While "Succeeded" is said, every VM there is stands in Status.NodeStatus, the
\* list deleteNodeSet drains by: no VM is left out of it by a listing made before
\* the scale set changed.
StatusListsVMs ==
    obj # Absent /\ obj.state = "Succeeded"
      => vms \cup leaving \subseteq obj.nodes

\* The cluster has what the NodeSet asks for and says so, or the NodeSet is gone
\* and so is its scale set.
Settled ==
    IF obj = Absent THEN ~vmss
    ELSE /\ ~obj.deleting
         /\ obj.state = "Succeeded"
         /\ Cardinality(vms) = obj.replicas /\ obj.nodes = vms

\* What was reached is not lost again: until Spec.Replicas is changed or the
\* NodeSet deleted, no reconciliation, however old the copies it works with,
\* takes the status back or touches the scale set.
SettledStays == [][Settled /\ UNCHANGED edits => Settled']_vars

\* Once Spec.Replicas is left alone, the cluster reaches it for good; a NodeSet
\* being deleted goes, and its VMs with it: "the cluster strives to reach the
\* target behaviour".
Converges == <>[]Settled

\* The NodeSet as its readers see it.
View(o) ==
    IF o = Absent THEN Absent
    ELSE [replicas |-> o.replicas, deleting |-> o.deleting,
          finalizer |-> o.finalizer, nodes |-> Cardinality(o.nodes),
          state |-> o.state, reported |-> o.kubeconfig]

Contract == INSTANCE NodeSetContract
            WITH obj <- View(obj), Counts <- 0 .. Cardinality(VMs)

ASSUME ViewAssumption == Absent \notin Contract!Object

\* Whatever it does with scale set, VMs and Nodes, and whatever changes under a
\* reconciliation, the controller changes its NodeSet only as NodePool expects:
\* the number of VMs asked for is reported only with the success, a status is
\* never taken back, and nothing is written once the object is being deleted.
KeepsContract == Contract!Spec
=============================================================================
