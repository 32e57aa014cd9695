------------------------------- MODULE Cluster -------------------------------
(***************************************************************************)
(* The life of a cluster: "azk create cluster" and "azk delete cluster"    *)
(* (src/cmd/cluster/cluster.go, src/bootstrap), the Cluster controller     *)
(* (src/controllers/cluster_controller.go), kubectl, and the resource group*)
(* whose masters hold the API server and everything stored in it.          *)
(*                                                                         *)
(* "azk create" makes new keys each time it runs; keys are the number of   *)
(* the run that made them.  One azk command runs at a time; it may be      *)
(* interrupted.  The other controllers appear by what they do to the       *)
(* masters and the objects azk polls.                                      *)
(***************************************************************************)
EXTENDS Naturals, FiniteSets

CONSTANTS
    Count,         \* masters of a finished cluster, 3 in the code
    Failing,       \* what may fail, a subset of Calls
    MaxFaults,     \* bound: failures, interrupts and restarts
    MaxCreates,    \* bound: runs of "azk create"
    MaxDeletes,    \* bound: runs of "azk delete" and kubectl deletions
    CanRepeat,     \* may "azk create" be run for a Cluster that exists?
    Absent         \* no object

Calls == {"group", "network", "put", "delete", "apply", "api", "interrupt",
          "restart"}

ASSUME CountAssumption == Count \in Nat \ {0}
ASSUME FailingAssumption == Failing \subseteq Calls
ASSUME BoundsAssumption == {MaxFaults, MaxCreates, MaxDeletes} \subseteq Nat
ASSUME RepeatAssumption == CanRepeat \in BOOLEAN

Masters == 1 .. Count
Bootstrap == 1
None == 0
Keys == 1 .. MaxCreates

\* Spec's certificates, and what the Cluster controller reads and writes.
Object == [keys : Keys, finalizer : BOOLEAN, deleting : BOOLEAN,
           state : {"", "Succeeded"}]

ASSUME AbsentAssumption == Absent \notin Object

\* The objects azk creates and polls, and the state it sees them in.
Kinds == {"ControlPlane", "NodePool"}

\* What Bootstrap makes in the resource group before the scale set.
Network == {"azk-nsg", "azk-master-nsg", "azk-routetable", "azk-vnet",
            "azk-internal-lb", "azk-publicip", "azk-lb"}

Commands == Network \cup
            {"idle", "group", "address", "vmss", "cleanup", "cleaning", "nodes",
             "deploy", "namespace", "cluster", "objects"}
Outcomes == {"", "created", "failed", "cleaned", "deleting", "deleted"}
Steps == {"idle", "finalizer", "status", "cleanup", "cleaning", "release"}

VARIABLES
    cmd,        \* the next step of the azk command
    outcome,    \* what it said last; "deleting" while "azk delete" runs
    job,        \* the two goroutines at the end of RunCreate
    group,      \* the resource group: "none", "there" or "deleting"
    net,        \* the resources of Network that are in it
    vm,         \* the keys a master's VM was made with
    etcd,       \* the masters that are members of etcd
    nodes,      \* the masters that have a Node object
    deployed,   \* are the CRDs and the manager applied?
    cluster,    \* the Cluster object
    object,     \* the ControlPlane and the NodePool azk asked for
    cache,      \* the manager's cached Cluster
    queued,     \* is the Cluster in the controller's work queue?
    pc,         \* the next step of the reconciliation
    instance,   \* its copy of the Cluster
    asked,      \* history: has a user asked to delete this cluster?
    leaked,     \* history: has a deletion of the group failed?
    faults, creates, deletes

command == <<cmd, outcome, job>>
azure == <<group, net>>
masters == <<vm, etcd, nodes>>
api == <<deployed, cluster, object>>
worker == <<cache, queued, pc, instance>>
history == <<asked, leaked>>
bounds == <<faults, creates, deletes>>
vars == <<command, azure, masters, api, worker, history, bounds>>

TypeOK ==
    /\ cmd \in Commands
    /\ outcome \in Outcomes
    /\ job \in [Kinds -> {"none", "create", "poll", "done", "failed"}]
    /\ group \in {"none", "there", "deleting"}
    /\ net \in SUBSET Network
    /\ vm \in [Masters -> Keys \cup {None}]
    /\ etcd \in SUBSET Masters
    /\ nodes \in SUBSET Masters
    /\ deployed \in BOOLEAN
    /\ cluster \in Object \cup {Absent}
    /\ object \in [Kinds -> {"none", "asked", "Succeeded"}]
    /\ cache \in Object \cup {Absent}
    /\ queued \in BOOLEAN
    /\ pc \in Steps
    /\ instance \in Object \cup {Absent}
    /\ pc # "idle" <=> instance # Absent
    /\ <<asked, leaked>> \in BOOLEAN \X BOOLEAN
    /\ faults \in 0 .. MaxFaults
    /\ creates \in 0 .. MaxCreates
    /\ deletes \in 0 .. MaxDeletes

Init ==
    /\ cmd = "idle" /\ outcome = "" /\ job = [k \in Kinds |-> "none"]
    /\ group = "none" /\ net = {}
    /\ vm = [m \in Masters |-> None] /\ etcd = {} /\ nodes = {}
    /\ deployed = FALSE
    /\ cluster = Absent
    /\ object = [k \in Kinds |-> "none"]
    /\ cache = Absent /\ queued = FALSE /\ pc = "idle" /\ instance = Absent
    /\ asked = FALSE /\ leaked = FALSE
    /\ faults = 0 /\ creates = 0 /\ deletes = 0

-----------------------------------------------------------------------------
VMs == {m \in Masters : vm[m] # None}
Serving == etcd \cap VMs

\* The API server answers while most members of etcd are there.
Alive == 2 * Cardinality(Serving) > Cardinality(etcd)

\* Mutant: any certificate is accepted.
TrustsAny(m) == TRUE

\* A server and the kubeconfig of this run have one certificate authority.
Trusts(m) == vm[m] = creates

Reachable == Alive /\ \E m \in Serving : Trusts(m)

Fault(call) ==
    /\ call \in Failing /\ faults < MaxFaults
    /\ faults' = faults + 1
    /\ UNCHANGED <<creates, deletes>>

Step(c) == cmd' = c /\ UNCHANGED <<outcome, job>>

\* The command returns.
Return(o) ==
    /\ cmd' = "idle" /\ outcome' = o
    /\ job' = [k \in Kinds |-> "none"]

-----------------------------------------------------------------------------
(* RunCreate: Spec.Bootstrap                                               *)

\* CreateSpec makes new keys; nothing looks for a cluster that exists.
CreateSpec ==
    /\ cmd = "idle" /\ creates < MaxCreates
    /\ cluster = Absent \/ CanRepeat
    /\ cmd' = "group" /\ outcome' = "" /\ UNCHANGED job
    /\ creates' = creates + 1
    /\ UNCHANGED <<azure, masters, api, worker, history, faults, deletes>>

\* Mutant: what an earlier run made is taken for all of it.
CreateOrUpdateResourceGroupOnce ==
    /\ cmd = "group"
    /\ \/ /\ group # "deleting" /\ group' = "there"
          /\ Step(IF group = "there" THEN "vmss" ELSE "azk-nsg")
          /\ UNCHANGED bounds
       \/ /\ group = "deleting"
          /\ Step("cleanup") /\ UNCHANGED <<group, bounds>>
       \/ /\ group # "deleting" /\ group' \in {group, "there"}
          /\ Fault("group") /\ Step("cleanup")
    /\ UNCHANGED <<net, masters, api, worker, history>>

CreateOrUpdateResourceGroup ==
    /\ cmd = "group"
    /\ \/ /\ group # "deleting" /\ group' = "there"
          /\ Step("azk-nsg") /\ UNCHANGED bounds
       \/ /\ group = "deleting"
          /\ Step("cleanup") /\ UNCHANGED <<group, bounds>>
       \/ /\ group # "deleting" /\ group' \in {group, "there"}
          /\ Fault("group") /\ Step("cleanup")
    /\ UNCHANGED <<net, masters, api, worker, history>>

\* The resources a request names must be there.
Needs(r) ==
    CASE r = "azk-vnet" -> {"azk-nsg", "azk-master-nsg", "azk-routetable"}
      [] r = "azk-internal-lb" -> {"azk-vnet"}
      [] r = "azk-lb" -> {"azk-publicip"}
      [] r = "address" -> {"azk-publicip"}
      [] r = "vmss" -> {"azk-vnet", "azk-internal-lb", "azk-lb"}
      [] OTHER -> {}

\* Azure takes the request.
Accepts(r) == group = "there" /\ Needs(r) \subseteq net

\* CreateOrUpdate, which makes r or finds it, and the wait for its end.
Establish(r, next) ==
    /\ cmd = r
    /\ \/ /\ Accepts(r) /\ net' = net \cup {r}
          /\ Step(next) /\ UNCHANGED bounds
       \/ ~Accepts(r) /\ Step("cleanup") /\ UNCHANGED <<net, bounds>>
       \/ /\ net' \in {net} \cup (IF Accepts(r) THEN {net \cup {r}} ELSE {})
          /\ Fault("network") /\ Step("cleanup")
    /\ UNCHANGED <<group, masters, api, worker, history>>

CreateDefaultNetworkSecurityGroup == Establish("azk-nsg", "azk-master-nsg")
CreateNetworkSecurityGroup == Establish("azk-master-nsg", "azk-routetable")
CreateRouteTables == Establish("azk-routetable", "azk-vnet")
CreateVirtualNetworkAndSubnets == Establish("azk-vnet", "azk-internal-lb")
CreateInternalLoadBalancer == Establish("azk-internal-lb", "azk-publicip")
CreatePublicIP == Establish("azk-publicip", "azk-lb")
CreateLoadBalancer == Establish("azk-lb", "address")

GetPublicIP ==
    /\ cmd = "address"
    /\ \/ Needs("address") \subseteq net /\ Step("vmss") /\ UNCHANGED bounds
       \/ /\ ~(Needs("address") \subseteq net)
          /\ Step("cleanup") /\ UNCHANGED bounds
       \/ Fault("network") /\ Step("cleanup")
    /\ UNCHANGED <<azure, masters, api, worker, history>>

CreateBaseInfrastructure ==
    \/ CreateOrUpdateResourceGroup
    \/ CreateDefaultNetworkSecurityGroup \/ CreateNetworkSecurityGroup
    \/ CreateRouteTables \/ CreateVirtualNetworkAndSubnets
    \/ CreateInternalLoadBalancer \/ CreatePublicIP \/ CreateLoadBalancer
    \/ GetPublicIP

\* CreateVMSS with a capacity of 1: of the VMs there are, one stays.
OneMaster ==
    IF VMs = {} THEN {[vm EXCEPT ![Bootstrap] = creates]}
    ELSE {[m \in Masters |-> IF m = s THEN vm[m] ELSE None] : s \in VMs}

CreateInfrastructure ==
    /\ cmd = "vmss"
    /\ \/ /\ Accepts("vmss") /\ vm' \in OneMaster
          /\ Step("nodes") /\ UNCHANGED bounds
       \/ ~Accepts("vmss") /\ Step("cleanup") /\ UNCHANGED <<vm, bounds>>
       \/ /\ vm' \in {vm} \cup (IF Accepts("vmss") THEN OneMaster ELSE {})
          /\ Fault("put") /\ Step("cleanup")
    /\ UNCHANGED <<azure, etcd, nodes, api, worker, history>>

-----------------------------------------------------------------------------
(* CleanupInfrastructure, after a failed Bootstrap and by "azk delete"     *)

\* RunCreate drops the error, RunDelete returns it.
Answer(ok) == IF outcome # "deleting" THEN "cleaned"
              ELSE IF ok THEN "deleted" ELSE "failed"

DeleteResourceGroup ==
    /\ cmd = "cleanup"
    /\ \/ /\ group # "none" /\ group' = "deleting"
          /\ Step("cleaning") /\ UNCHANGED <<history, bounds>>
       \/ /\ group = "none"
          /\ Return(Answer(FALSE)) /\ UNCHANGED <<group, history, bounds>>
       \/ /\ Fault("delete") /\ leaked' = TRUE
          /\ Return(Answer(FALSE)) /\ UNCHANGED <<group, asked>>
    /\ UNCHANGED <<net, masters, api, worker>>

\* Mutant: the end of the deletion is not waited for.
DeletionOverAssumed == TRUE

DeletionOver == group = "none"

\* WaitForCompletionRef: the deletion ends, was given up, or asking fails.
WaitForDeletion ==
    /\ cmd = "cleaning"
    /\ \/ /\ DeletionOver
          /\ Return(Answer(TRUE)) /\ UNCHANGED <<history, bounds>>
       \/ /\ group = "there"
          /\ Return(Answer(FALSE)) /\ UNCHANGED <<history, bounds>>
       \/ /\ Fault("delete") /\ leaked' = TRUE
          /\ Return(Answer(FALSE)) /\ UNCHANGED asked
    /\ UNCHANGED <<azure, masters, api, worker>>

-----------------------------------------------------------------------------
(* RunCreate: in the new cluster                                           *)

\* Mutant: it does for the API server to answer.
WaitForApiServer ==
    /\ cmd = "nodes"
    /\ \/ Reachable /\ Step("deploy")
       \/ Return("failed")
    /\ UNCHANGED <<azure, masters, api, worker, history, bounds>>

\* A hundred attempts to find a Node, Ready or not, and their end.
WaitForFirstNode ==
    /\ cmd = "nodes"
    /\ \/ Reachable /\ nodes # {} /\ Step("deploy")
       \/ Return("failed")
    /\ UNCHANGED <<azure, masters, api, worker, history, bounds>>

\* KubectlApplyFolder logs its error and returns nil.
KubectlApply ==
    /\ cmd = "deploy" /\ Step("namespace")
    /\ \/ deployed' = (deployed \/ Reachable) /\ UNCHANGED bounds
       \/ Fault("apply") /\ UNCHANGED deployed
    /\ UNCHANGED <<azure, masters, cluster, object, worker, history>>

\* It may exist already.
CreateNamespace ==
    /\ cmd = "namespace"
    /\ \/ /\ IF Reachable THEN Step("cluster") ELSE Return("failed")
          /\ UNCHANGED bounds
       \/ Fault("api") /\ Return("failed")
    /\ UNCHANGED <<azure, masters, api, worker, history>>

NewCluster == [keys |-> creates, finalizer |-> FALSE, deleting |-> FALSE,
               state |-> ""]

StartJobs ==
    /\ cmd' = "objects" /\ job' = [k \in Kinds |-> "create"]
    /\ UNCHANGED outcome

CanCreate == Reachable /\ deployed /\ cluster = Absent

CreateCluster ==
    /\ cmd = "cluster"
    /\ \/ /\ Reachable /\ cluster # Absent
          /\ StartJobs /\ UNCHANGED <<cluster, bounds>>
       \/ /\ CanCreate /\ cluster' = NewCluster
          /\ StartJobs /\ UNCHANGED bounds
       \/ /\ ~Reachable \/ (cluster = Absent /\ ~deployed)
          /\ Return("failed") /\ UNCHANGED <<cluster, bounds>>
       \/ /\ cluster' \in {cluster} \cup (IF CanCreate THEN {NewCluster} ELSE {})
          /\ Fault("api") /\ Return("failed")
    /\ UNCHANGED <<azure, masters, deployed, object, worker, history>>

JobStep(k, s) == job' = [job EXCEPT ![k] = s] /\ UNCHANGED <<cmd, outcome>>

CanAsk(k) == Reachable /\ object[k] = "none"
AskFor(k) == [object EXCEPT ![k] = "asked"]

CreateObject(k) ==
    /\ cmd = "objects" /\ job[k] = "create"
    /\ \/ /\ CanAsk(k) /\ object' = AskFor(k)
          /\ JobStep(k, "poll") /\ UNCHANGED bounds
       \/ ~CanAsk(k) /\ JobStep(k, "failed") /\ UNCHANGED <<object, bounds>>
       \/ /\ object' \in {object} \cup (IF CanAsk(k) THEN {AskFor(k)} ELSE {})
          /\ Fault("api") /\ JobStep(k, "failed")
    /\ UNCHANGED <<azure, masters, deployed, cluster, worker, history>>

\* Polling ends when the object is Succeeded and when time is up: the error
\* assigned then is nil, so both are a success.
PollEnds(k) ==
    /\ cmd = "objects" /\ job[k] = "poll" /\ JobStep(k, "done")
    /\ UNCHANGED <<azure, masters, api, worker, history, bounds>>

\* Mutant: a creation that failed is cleaned up after.
CreateEndsCleaning ==
    /\ cmd = "objects" /\ \A k \in Kinds : job[k] \in {"done", "failed"}
    /\ IF \E k \in Kinds : job[k] = "failed" THEN Step("cleanup")
       ELSE Return("created")
    /\ UNCHANGED <<azure, masters, api, worker, history, bounds>>

CreateEnds ==
    /\ cmd = "objects" /\ \A k \in Kinds : job[k] \in {"done", "failed"}
    /\ Return(IF \E k \in Kinds : job[k] = "failed" THEN "failed"
              ELSE "created")
    /\ UNCHANGED <<azure, masters, api, worker, history, bounds>>

Create ==
    \/ CreateSpec \/ CreateBaseInfrastructure \/ CreateInfrastructure
    \/ DeleteResourceGroup \/ WaitForDeletion
    \/ WaitForFirstNode \/ KubectlApply \/ CreateNamespace \/ CreateCluster
    \/ \E k \in Kinds : CreateObject(k) \/ PollEnds(k)
    \/ CreateEnds

\* RunDelete reads the Cluster for its credentials.
RunDelete ==
    /\ cmd = "idle" /\ deletes < MaxDeletes
    /\ Alive /\ cluster # Absent
    /\ cmd' = "cleanup" /\ outcome' = "deleting" /\ UNCHANGED job
    /\ asked' = TRUE /\ deletes' = deletes + 1
    /\ UNCHANGED <<azure, masters, api, worker, leaked, faults, creates>>

\* ^C, or the end of the terminal's session.
Interrupt ==
    /\ cmd # "idle" /\ Fault("interrupt") /\ Return("")
    /\ UNCHANGED <<azure, masters, api, worker, history>>

-----------------------------------------------------------------------------
(* ClusterReconciler.Reconcile                                             *)

\* The manager and its API server are up.
Running == deployed /\ Alive

\* Mutant: the finalizer can wait.
NextStepAnyOrder(i) ==
    IF ~i.deleting /\ i.state = "" THEN "status"
    ELSE IF ~i.deleting THEN "finalizer"
    ELSE IF i.finalizer THEN "cleanup" ELSE "idle"

\* Mutant: a Cluster that has Succeeded is left alone.
NextStepSucceeded(i) ==
    IF i.state = "Succeeded" THEN "idle"
    ELSE IF ~i.deleting THEN IF i.finalizer THEN "status" ELSE "finalizer"
    ELSE IF i.finalizer THEN "cleanup" ELSE "idle"

NextStep(i) ==
    IF ~i.deleting THEN IF i.finalizer THEN "status" ELSE "finalizer"
    ELSE IF i.finalizer THEN "cleanup" ELSE "idle"

Start ==
    /\ Running /\ pc = "idle" /\ queued /\ queued' = FALSE
    /\ IF cache = Absent \/ NextStep(cache) = "idle"
       THEN UNCHANGED <<pc, instance>>
       ELSE pc' = NextStep(cache) /\ instance' = cache
    /\ UNCHANGED <<command, azure, masters, api, cache, history, bounds>>

\* Mutant: the copy outlives the reconciliation.
FinishKeepingCopy(again) ==
    /\ pc' = "idle" /\ queued' = again /\ UNCHANGED <<cache, instance>>

Finish(again) ==
    /\ pc' = "idle" /\ queued' = again /\ instance' = Absent
    /\ UNCHANGED cache

\* Update and Status().Update fail when the copy is not the object any more.
AddFinalizer ==
    /\ Running /\ pc = "finalizer" /\ Finish(TRUE)
    /\ cluster' = IF cluster = instance
                  THEN [instance EXCEPT !.finalizer = TRUE] ELSE cluster
    /\ UNCHANGED <<command, azure, masters, deployed, object, history, bounds>>

ReportSucceeded ==
    /\ Running /\ pc = "status"
    /\ IF cluster = instance
       THEN /\ cluster' = [instance EXCEPT !.state = "Succeeded"]
            /\ Finish(queued)
       ELSE Finish(TRUE) /\ UNCHANGED cluster
    /\ UNCHANGED <<command, azure, masters, deployed, object, history, bounds>>

\* CleanupInfrastructure, whose error is dropped.
DeleteGroup ==
    /\ Running /\ pc = "cleanup"
    /\ \/ /\ group' = "deleting" /\ pc' = "cleaning"
          /\ UNCHANGED <<history, bounds>>
       \/ /\ Fault("delete") /\ leaked' = TRUE /\ pc' = "release"
          /\ UNCHANGED <<group, asked>>
    /\ UNCHANGED <<command, net, masters, api, cache, queued, instance>>

\* The wait can only fail: the manager goes with the group.
AwaitDeletion ==
    /\ Running /\ pc = "cleaning" /\ pc' = "release"
    /\ \/ group = "there" /\ UNCHANGED <<history, bounds>>
       \/ Fault("delete") /\ leaked' = TRUE /\ UNCHANGED asked
    /\ UNCHANGED <<command, azure, masters, api, cache, queued, instance>>

RemoveFinalizer ==
    /\ Running /\ pc = "release"
    /\ IF cluster = instance
       THEN cluster' = Absent /\ Finish(queued)
       ELSE Finish(TRUE) /\ UNCHANGED cluster
    /\ UNCHANGED <<command, azure, masters, deployed, object, history, bounds>>

ApiError ==
    /\ Running /\ pc \in {"finalizer", "status", "release"}
    /\ Fault("api") /\ Finish(TRUE)
    /\ UNCHANGED <<command, azure, masters, api, history>>

Reconcile ==
    Start \/ AddFinalizer \/ ReportSucceeded \/ DeleteGroup \/ RemoveFinalizer

Watch ==
    /\ Running /\ cache # cluster
    /\ cache' = cluster /\ queued' = TRUE
    /\ UNCHANGED <<command, azure, masters, api, pc, instance, history, bounds>>

Restart ==
    /\ deployed /\ Fault("restart")
    /\ cache' = cluster /\ queued' = TRUE /\ pc' = "idle" /\ instance' = Absent
    /\ UNCHANGED <<command, azure, masters, api, history>>

-----------------------------------------------------------------------------
(* kubectl, Azure and the other controllers                                *)

KubectlDelete ==
    /\ Alive /\ cluster # Absent /\ ~cluster.deleting
    /\ deletes < MaxDeletes /\ deletes' = deletes + 1
    /\ asked' = TRUE
    /\ cluster' = IF cluster.finalizer
                  THEN [cluster EXCEPT !.deleting = TRUE] ELSE Absent
    /\ UNCHANGED <<command, azure, masters, deployed, object, worker, leaked,
                   faults, creates>>

\* Deleting the group deletes first what nothing refers to: the scale set, and
\* with it the API server and all it stores.
VMSSGoes ==
    /\ group = "deleting" /\ VMs # {}
    /\ vm' = [m \in Masters |-> None] /\ etcd' = {} /\ nodes' = {}
    /\ deployed' = FALSE /\ cluster' = Absent
    /\ object' = [k \in Kinds |-> "none"]
    /\ cache' = Absent /\ queued' = FALSE /\ pc' = "idle" /\ instance' = Absent
    /\ asked' = FALSE
    /\ UNCHANGED <<command, azure, leaked, bounds>>

Referred(r) ==
    \/ VMs # {} /\ r \in Needs("vmss")
    \/ \E other \in net : r \in Needs(other)

ResourceGoes(r) ==
    /\ group = "deleting" /\ r \in net /\ ~Referred(r)
    /\ net' = net \ {r}
    /\ UNCHANGED <<command, group, masters, api, worker, history, bounds>>

GroupGoes ==
    /\ group = "deleting" /\ VMs = {} /\ net = {}
    /\ group' = "none" /\ leaked' = FALSE
    /\ UNCHANGED <<command, net, masters, api, worker, asked, bounds>>

\* Azure gives the deletion up and keeps what is left.
DeletionFails ==
    /\ group = "deleting" /\ group' = "there"
    /\ Fault("delete") /\ leaked' = TRUE
    /\ UNCHANGED <<command, net, masters, api, worker, asked>>

\* The startup script of the first master: kubeadm init.
KubeadmInit(m) ==
    /\ vm[m] # None /\ etcd = {} /\ etcd' = {m}
    /\ UNCHANGED <<command, azure, vm, nodes, api, worker, history, bounds>>

\* A master's kubelet makes its Node once a server accepts its keys: its own or,
\* in kubeadm join, that of another master.
Register(m) ==
    /\ m \in VMs \ nodes /\ Alive /\ \E n \in Serving : vm[n] = vm[m]
    /\ nodes' = nodes \cup {m}
    /\ UNCHANGED <<command, azure, vm, etcd, api, worker, history, bounds>>

\* The startup script of the others: kubeadm join, which starts the kubelet and
\* after that adds the member.
KubeadmJoin(m) ==
    /\ m \in VMs \ etcd /\ m \in nodes
    /\ Alive /\ \E n \in Serving : vm[n] = vm[m]
    /\ etcd' = etcd \cup {m}
    /\ UNCHANGED <<command, azure, vm, nodes, api, worker, history, bounds>>

\* The cloud provider deletes the Node of a VM that is gone.
NodeGone(m) ==
    /\ m \in nodes \ VMs /\ Alive
    /\ nodes' = nodes \ {m}
    /\ UNCHANGED <<command, azure, vm, etcd, api, worker, history, bounds>>

MasterStep(m) == KubeadmInit(m) \/ Register(m) \/ KubeadmJoin(m) \/ NodeGone(m)

\* The other controllers wait for a Cluster that Succeeded.
Controlled(k) ==
    /\ Running /\ cluster # Absent /\ cluster.state = "Succeeded"
    /\ object[k] = "asked"

AddMasters ==
    /\ Controlled("ControlPlane") /\ group = "there" /\ VMs # Masters
    /\ vm' = [m \in Masters |-> IF vm[m] = None THEN cluster.keys ELSE vm[m]]
    /\ UNCHANGED <<command, azure, etcd, nodes, api, worker, history, bounds>>

\* The ControlPlane does when as many Nodes as masters are there: whether they
\* are Ready, have a VM or are members of etcd yet is not looked at.
Succeed(k) ==
    /\ Controlled(k)
    /\ k = "ControlPlane" => Cardinality(nodes) >= Count
    /\ object' = [object EXCEPT ![k] = "Succeeded"]
    /\ UNCHANGED <<command, azure, masters, deployed, cluster, worker, history,
                   bounds>>

Next ==
    \/ Create \/ RunDelete \/ Interrupt
    \/ Reconcile \/ AwaitDeletion \/ ApiError \/ Watch \/ Restart
    \/ KubectlDelete \/ AddMasters
    \/ VMSSGoes \/ GroupGoes \/ DeletionFails
    \/ \E r \in Network : ResourceGoes(r)
    \/ \E m \in Masters : MasterStep(m)
    \/ \E k \in Kinds : Succeed(k)

Spec == Init /\ [][Next]_vars

\* The manager keeps working while it runs; commands may be left waiting.
FairSpec == Spec /\ WF_vars(Reconcile) /\ WF_vars(Watch)
-----------------------------------------------------------------------------
(* Properties                                                              *)

\* The other controllers, which wait for "Succeeded", build only for a Cluster
\* whose finalizer is stored: deleting it is then sure to be noticed.
FinalizerFirst ==
    cluster # Absent /\ cluster.state = "Succeeded" => cluster.finalizer

\* The certificates kept in the Cluster, from which further masters are made,
\* are those of every master there is, however often "azk create" made new ones.
KeysAgree == cluster # Absent => \A m \in VMs : vm[m] = cluster.keys

\* "Successfully Deleted" is said of a group that is gone, and so is
\* "Successfully cleanup up" but for deletions whose error was dropped.
SaidGone ==
    /\ outcome = "deleted" => group = "none"
    /\ outcome = "cleaned" => group = "none" \/ leaked

\* Each request of Bootstrap finds what it refers to, made by the requests before
\* it or left by an earlier run, interrupted or cleaned up at any point: no
\* creation is given up for want of it, unless the group's deletion failed.
Prepared ==
    cmd \in Network \cup {"address", "vmss"} /\ group = "there" /\ ~leaked
      => Needs(cmd) \subseteq net

\* A cluster that exists lives on until someone asks to delete it: "azk checks
\* for existence of target cluster" and bootstraps only one that does not exist
\* (README.md:40-46).
ClusterKept ==
    [][Alive /\ cluster # Absent /\ ~asked => Alive']_vars

\* Deleting the Cluster deletes the group, unless that fails or the API server
\* is lost first.
DeletedGoes ==
    (cluster # Absent /\ cluster.deleting)
      ~> (group # "there" \/ leaked \/ ~Alive)

\* The control plane as this module has it, with the one version of azk.
Asked == IF object["ControlPlane"] = "none" THEN None ELSE 1
Said == IF object["ControlPlane"] = "Succeeded" THEN 1 ELSE None
Runs == [m \in Masters |-> IF m \in nodes THEN 1 ELSE None]

ControlPlane == INSTANCE ControlPlaneContract
                WITH Versions <- {1}, asked <- Asked, said <- Said, runs <- Runs

\* Through creations that are broken off and repeated, deletions that end half
\* way and restarts, the control plane lives as its controller and its owner may
\* have it: an object only once the first master has a Node, further masters
\* only for an object that was never reported, a report when as many Nodes as
\* masters are there, and none lost before there is an object.
ControlPlaneLives == ControlPlane!Spec
=============================================================================
