---------------------------- MODULE ControlPlane ----------------------------
(***************************************************************************)
(* The ControlPlane controller (src/controllers/controlplane_controller.go)*)
(* for the one ControlPlane of a cluster, beside the API server, the scale *)
(* set of the masters and the upgrade scripts Azure runs on them.          *)
(*                                                                         *)
(* The first master was made by "azk create"; the controller adds the      *)
(* others and, when Spec.KubernetesVersion changes, runs the upgrade script*)
(* on the masters one after the other.  A script runs on its VM: it goes on*)
(* when the manager that started it stops waiting or restarts, and its next*)
(* line runs when one has failed.  A master has two versions, that of its  *)
(* API server, which kubeadm brings, and that of its kubelet.              *)
(*                                                                         *)
(* Nothing but the upgrades makes a master's Node NotReady here, so that   *)
(* every lost master is the controller's doing.                            *)
(***************************************************************************)
EXTENDS Naturals, FiniteSets

CONSTANTS
    Count,         \* the number of masters, 3 in the code
    Versions,      \* Kubernetes versions, as positive numbers
    Failing,       \* what may fail, a subset of Calls
    MaxFaults,     \* bound: failures and manager restarts
    MaxEdits,      \* bound: changes to Spec.KubernetesVersion
    CanRevert,     \* may a user take an upgrade back that is under way?
    CanHurry,      \* may a user ask for another before the first success?
    Absent         \* no copy

Calls == {"api", "list", "put", "azure", "script", "restart"}

ASSUME CountAssumption == Count \in Nat \ {0}
ASSUME VersionsAssumption == Versions \subseteq Nat \ {0}
ASSUME FailingAssumption == Failing \subseteq Calls
ASSUME BoundsAssumption == {MaxFaults, MaxEdits} \subseteq Nat
ASSUME UsersAssumption == {CanRevert, CanHurry} \subseteq BOOLEAN

Masters == 1 .. Count
Bootstrap == 1      \* the master "azk create" made
None == 0           \* no version: nothing reported, no VM, no Node, no script

States == {"", "Updating", "Succeeded"}

\* Spec.KubernetesVersion, Status.KubernetesVersion, Status.ProvisioningState.
Object == [version : Versions, status : Versions \cup {None}, state : States]

ASSUME AbsentAssumption == Absent \notin Object

Steps == {"idle", "list", "updating", "put", "upgrade", "command", "await",
          "check", "wait", "report"}

VARIABLES
    cp,         \* the ControlPlane in the API server
    cache,      \* the manager's cached copy
    cluster,    \* is the Cluster's ProvisioningState "Succeeded"?
    queued,     \* is the ControlPlane's key in the work queue?
    pc,         \* the next step of the reconciliation
    instance,   \* its copy of the ControlPlane
    todo,       \* the listed masters it has still to look at
    vm,         \* the version a master's VM was created or upgraded for
    node,       \* the version of the kubelet its Node reports
    server,     \* the version of its API server
    ready,      \* is its Node Ready?
    script,     \* the version its running upgrade script installs
    line,       \* what the script installs next: "kubeadm", then "kubelet"
    broken,     \* history: the masters whose last "kubeadm upgrade" failed
    faults, edits

worker == <<queued, pc, instance, todo>>
scripts == <<script, line, broken>>
masters == <<vm, node, server, ready, scripts>>
bounds == <<faults, edits>>
vars == <<cp, cache, cluster, worker, masters, bounds>>

TypeOK ==
    /\ cp \in Object
    /\ cache \in Object
    /\ cluster \in BOOLEAN
    /\ queued \in BOOLEAN
    /\ pc \in Steps
    /\ instance \in Object \cup {Absent}
    /\ pc = "idle" <=> instance = Absent
    /\ todo \in SUBSET Masters
    /\ vm \in [Masters -> Versions \cup {None}]
    /\ node \in [Masters -> Versions \cup {None}]
    /\ server \in [Masters -> Versions \cup {None}]
    /\ ready \in [Masters -> BOOLEAN]
    /\ script \in [Masters -> Versions \cup {None}]
    /\ line \in [Masters -> {"kubeadm", "kubelet"}]
    /\ broken \in SUBSET Masters
    /\ faults \in 0 .. MaxFaults
    /\ edits \in 0 .. MaxEdits
    /\ \A m \in Masters : node[m] # None => vm[m] # None

\* "azk create" has made the first master and then the ControlPlane.
Init ==
    /\ \E v \in Versions :
         /\ cp = [version |-> v, status |-> None, state |-> ""]
         /\ vm = [m \in Masters |-> IF m = Bootstrap THEN v ELSE None]
    /\ cache = cp
    /\ cluster = FALSE
    /\ queued = TRUE
    /\ pc = "idle"
    /\ instance = Absent
    /\ todo = {}
    /\ node = vm
    /\ server = vm
    /\ ready = [m \in Masters |-> m = Bootstrap]
    /\ script = [m \in Masters |-> None]
    /\ line = [m \in Masters |-> "kubeadm"]
    /\ broken = {}
    /\ faults = 0
    /\ edits = 0

-----------------------------------------------------------------------------
Goto(step) == pc' = step /\ UNCHANGED <<queued, instance, todo>>

\* Mutant: the copy outlives the reconciliation.
FinishKeepingCopy(again) ==
    /\ pc' = "idle"
    /\ queued' = again
    /\ todo' = {}
    /\ UNCHANGED instance

Finish(again) ==
    /\ pc' = "idle"
    /\ queued' = again
    /\ todo' = {}
    /\ instance' = Absent

\* Mutant: an error does not queue the key again.
RetryForgotten == Finish(queued)

Done == Finish(queued)
Retry == Finish(TRUE)

Fault(call) ==
    /\ call \in Failing /\ faults < MaxFaults
    /\ faults' = faults + 1
    /\ UNCHANGED edits

-----------------------------------------------------------------------------
(* Reconcile                                                               *)

Start ==
    /\ pc = "idle" /\ queued
    /\ IF cache.version = cache.status
       THEN queued' = FALSE /\ UNCHANGED <<pc, instance>>
       ELSE IF ~cluster
       THEN UNCHANGED <<queued, pc, instance>>
       ELSE queued' = FALSE /\ pc' = "list" /\ instance' = cache
    /\ UNCHANGED <<cp, cache, cluster, todo, masters, bounds>>

\* updateVMSSStatus: the masters there are before the scale set grows.
List ==
    /\ pc = "list"
    /\ \/ /\ todo' = {m \in Masters : vm[m] # None}
          /\ pc' = "updating"
          /\ UNCHANGED <<queued, instance, bounds>>
       \/ Fault("list") /\ Retry
    /\ UNCHANGED <<cp, cache, cluster, masters>>

\* Mutant: the status is patched, whatever became of the object since.
UpdatingForced ==
    /\ pc = "updating"
    /\ cp' = [cp EXCEPT !.state = "Updating"]
    /\ instance' = cp'
    /\ pc' = "put"
    /\ UNCHANGED <<queued, todo, cache, cluster, masters, bounds>>

\* Status().Update: it fails when the object is not the copy that was read.
Updating ==
    /\ pc = "updating"
    /\ IF cp = instance
       THEN /\ cp' = [instance EXCEPT !.state = "Updating"]
            /\ instance' = cp'
            /\ pc' = "put"
            /\ UNCHANGED <<queued, todo>>
       ELSE Retry /\ UNCHANGED cp
    /\ UNCHANGED <<cache, cluster, masters, bounds>>

\* Mutant: masters are never upgraded in place.
NeedsUpgradeNever(i) == FALSE

\* A ControlPlane that never succeeded is created, not upgraded.
NeedsUpgrade(i) == i.status # None /\ i.status # i.version

\* The VMs that are missing come with this reconciliation's version.
AllCreated ==
    [m \in Masters |-> IF vm[m] = None THEN instance.version ELSE vm[m]]

\* CreateVMSS with the capacity of Count; a failure may follow its effect.
Put ==
    /\ pc = "put"
    /\ \/ /\ vm' = AllCreated
          /\ Goto(IF NeedsUpgrade(instance) THEN "upgrade" ELSE "wait")
          /\ UNCHANGED bounds
       \/ vm' \in {vm, AllCreated} /\ Fault("put") /\ Retry
    /\ UNCHANGED <<cp, cache, cluster, node, server, ready, scripts>>

-----------------------------------------------------------------------------
(* upgradeVMSS: the listed masters in their order                          *)

First == CHOOSE m \in todo : \A k \in todo : m <= k

IsNodeUpdated(m) == node[m] = instance.version

\* A Node that is not there yet ends the reconciliation with an error.
Inspect ==
    /\ pc = "upgrade"
    /\ \/ /\ todo = {} /\ Goto("wait")
       \/ /\ todo # {} /\ node[First] = None /\ Retry
       \/ /\ todo # {} /\ node[First] # None /\ IsNodeUpdated(First)
          /\ todo' = todo \ {First}
          /\ UNCHANGED <<queued, pc, instance>>
       \/ /\ todo # {} /\ node[First] # None /\ ~IsNodeUpdated(First)
          /\ Goto("command")
    /\ UNCHANGED <<cp, cache, cluster, masters, bounds>>

\* RunCommand; Azure runs one command at a time on a VM.
Command ==
    /\ pc = "command"
    /\ \/ /\ script[First] = None
          /\ script' = [script EXCEPT ![First] = instance.version]
          /\ Goto("await")
          /\ UNCHANGED bounds
       \/ /\ script[First] # None
          /\ Retry
          /\ UNCHANGED <<script, bounds>>
       \/ Fault("azure") /\ Retry /\ UNCHANGED script
    /\ UNCHANGED <<cp, cache, cluster, vm, node, server, ready, line, broken>>

\* Mutant: the end of the command is not waited for.
CommandOverAssumed(m) == TRUE

CommandOver(m) == script[m] = None

\* Waiting for the end of the command can fail before it ends.
Await ==
    /\ pc = "await"
    /\ \/ CommandOver(First) /\ Goto("check") /\ UNCHANGED bounds
       \/ Fault("azure") /\ Retry
    /\ UNCHANGED <<cp, cache, cluster, masters>>

\* WaitForNodeVersionReady compares the version; what it finds of the Ready
\* condition is forgotten.
Check ==
    /\ pc = "check"
    /\ IF node[First] = instance.version
       THEN /\ todo' = todo \ {First}
            /\ pc' = "upgrade"
            /\ UNCHANGED <<queued, instance>>
       ELSE Retry
    /\ UNCHANGED <<cp, cache, cluster, masters, bounds>>

-----------------------------------------------------------------------------
\* Mutant: the end of the time to wait is taken for success.
WaitGivenUp ==
    /\ pc = "wait" /\ Goto("report")
    /\ UNCHANGED <<cp, cache, cluster, masters, bounds>>

\* WaitForNodesReady counts the Nodes that have a Ready condition, which is all
\* of them.
Wait ==
    /\ pc = "wait"
    /\ IF Cardinality({m \in Masters : node[m] # None}) >= Count
       THEN Goto("report") ELSE Retry
    /\ UNCHANGED <<cp, cache, cluster, masters, bounds>>

Report ==
    /\ pc = "report"
    /\ IF cp = instance
       THEN /\ cp' = [instance EXCEPT !.status = instance.version,
                                      !.state = "Succeeded"]
            /\ Done
       ELSE Retry /\ UNCHANGED cp
    /\ UNCHANGED <<cache, cluster, masters, bounds>>

ApiError ==
    /\ pc \in Steps \ {"idle", "list", "command", "await"}
    /\ Fault("api") /\ Retry
    /\ UNCHANGED <<cp, cache, cluster, masters>>

Reconcile ==
    \/ Start \/ List \/ Updating \/ Put \/ Inspect \/ Command \/ Await
    \/ Check \/ Wait \/ Report

-----------------------------------------------------------------------------
(* controller-runtime                                                      *)

Watch ==
    /\ cache # cp
    /\ cache' = cp
    /\ queued' = TRUE
    /\ UNCHANGED <<cp, cluster, pc, instance, todo, masters, bounds>>

\* The caches' periodic resync brings every object to its controller.
Resync ==
    /\ ~queued /\ queued' = TRUE
    /\ UNCHANGED <<cp, cache, cluster, pc, instance, todo, masters, bounds>>

Restart ==
    /\ Fault("restart")
    /\ cache' = cp
    /\ Finish(TRUE)
    /\ UNCHANGED <<cp, cluster, masters>>

-----------------------------------------------------------------------------
(* The rest of the world                                                   *)

ClusterSucceeds ==
    /\ ~cluster /\ cluster' = TRUE
    /\ UNCHANGED <<cp, cache, worker, masters, bounds>>

\* "azk upgrade controlplane", and kubectl.
Upgrade(v) ==
    /\ v > cp.version \/ (CanRevert /\ v = cp.status /\ v < cp.version)
    /\ cp.status # None \/ CanHurry
    /\ edits < MaxEdits /\ edits' = edits + 1
    /\ cp' = [cp EXCEPT !.version = v]
    /\ UNCHANGED <<cache, cluster, worker, masters, faults>>

\* The startup script of a new master: kubeadm join, whose API server is of the
\* version the cluster has, not of the VM's.
Join(m) ==
    /\ vm[m] # None /\ node[m] = None
    /\ node' = [node EXCEPT ![m] = vm[m]]
    /\ server' = [server EXCEPT ![m] = server[Bootstrap]]
    /\ UNCHANGED <<cp, cache, cluster, worker, vm, ready, scripts, bounds>>

TurnReady(m) ==
    /\ node[m] # None /\ ~ready[m]
    /\ ready' = [ready EXCEPT ![m] = TRUE]
    /\ UNCHANGED <<cp, cache, cluster, worker, vm, node, server, scripts, bounds>>

\* The upgrade script: kubeadm upgrade apply brings the API server.
KubeadmApplies(m) ==
    /\ script[m] # None /\ line[m] = "kubeadm"
    /\ server' = [server EXCEPT ![m] = script[m]]
    /\ line' = [line EXCEPT ![m] = "kubelet"]
    /\ broken' = broken \ {m}
    /\ UNCHANGED <<cp, cache, cluster, worker, vm, node, ready, script, bounds>>

\* It fails, and the script goes on.
KubeadmFails(m) ==
    /\ script[m] # None /\ line[m] = "kubeadm"
    /\ Fault("script")
    /\ line' = [line EXCEPT ![m] = "kubelet"]
    /\ broken' = broken \cup {m}
    /\ UNCHANGED <<cp, cache, cluster, worker, vm, node, server, ready, script>>

\* Mutant: the lines of the kubelet come first.
ScriptUpgradesFirst(m) ==
    /\ script[m] > node[m] /\ node[m] # None
    /\ vm' = [vm EXCEPT ![m] = script[m]]
    /\ node' = [node EXCEPT ![m] = script[m]]
    /\ ready' = [ready EXCEPT ![m] = FALSE]
    /\ UNCHANGED <<cp, cache, cluster, worker, server, scripts, bounds>>

\* A new kubelet starts, and is not Ready at first.
ScriptUpgrades(m) ==
    /\ line[m] = "kubelet" /\ script[m] > node[m] /\ node[m] # None
    /\ vm' = [vm EXCEPT ![m] = script[m]]
    /\ node' = [node EXCEPT ![m] = script[m]]
    /\ ready' = [ready EXCEPT ![m] = FALSE]
    /\ UNCHANGED <<cp, cache, cluster, worker, server, scripts, bounds>>

Over(m) ==
    /\ script' = [script EXCEPT ![m] = None]
    /\ line' = [line EXCEPT ![m] = "kubeadm"]
    /\ UNCHANGED <<cp, cache, cluster, worker, vm, node, server, ready, broken>>

\* It ends; apt does not install an older version.
ScriptEnds(m) ==
    /\ line[m] = "kubelet" /\ script[m] # None /\ script[m] <= node[m]
    /\ Over(m) /\ UNCHANGED bounds

\* The kubelet is not installed or not restarted; Azure reports success.
KubeletFails(m) ==
    /\ line[m] = "kubelet" /\ script[m] > node[m]
    /\ Fault("script") /\ Over(m)

ScriptFails(m) == KubeadmFails(m) \/ KubeletFails(m)

World(m) ==
    \/ Join(m) \/ TurnReady(m)
    \/ KubeadmApplies(m) \/ ScriptUpgrades(m) \/ ScriptEnds(m)

Next ==
    \/ Reconcile \/ ApiError \/ Watch \/ Resync \/ Restart \/ ClusterSucceeds
    \/ \E v \in Versions : Upgrade(v)
    \/ \E m \in Masters : World(m) \/ ScriptFails(m)

Spec == Init /\ [][Next]_vars

\* The manager keeps working, caches catch up, VMs join and scripts end; calls
\* need not fail, and nobody need ask for an upgrade.
Fairness ==
    /\ WF_vars(Reconcile) /\ WF_vars(Watch) /\ WF_vars(ClusterSucceeds)
    /\ \A m \in Masters : WF_vars(World(m))

FairSpec == Spec /\ Fairness
-----------------------------------------------------------------------------
(* Properties                                                              *)

\* The masters' API servers are of version v, but for those where the last
\* "kubeadm upgrade" failed.
ServersAt(v) == \A m \in Masters \ broken : server[m] = v

Claimed == cp.state = "Succeeded" /\ cp.status = cp.version

\* "Succeeded" at the version asked for, what "azk upgrade controlplane" waits
\* for, is said only while every master's kubelet runs that version, and every
\* API server too whose "kubeadm upgrade" did not fail, whatever else failed,
\* restarted or was asked for on the way.
HonestReport ==
    Claimed => /\ \A m \in Masters : node[m] = cp.version
               /\ ServersAt(cp.version)

\* The control plane that is said to be upgraded is: "Successfully Upgraded
\* Control Plane" (controlplane.go), while nothing but the kubelets is looked at.
ServersUpgraded ==
    Claimed => \A m \in Masters : server[m] = cp.version

\* Masters are upgraded one after the other: a second script runs beside the
\* first only when a wait failed or the manager restarted, one for each time.
OneAtATime ==
    Cardinality({m \in Masters : script[m] # None}) <= 1 + faults

\* A majority of the masters stays Ready throughout an upgrade: the upgrade
\* waits for each master (WaitForNodeVersionReady) before it takes the next.
MajorityReady == 2 * Cardinality({m \in Masters : ready[m]}) > Count

QuorumKept == [][MajorityReady => MajorityReady']_vars

\* The masters' kubelets run the version asked for, and the object says so.
Settled ==
    /\ Claimed
    /\ \A m \in Masters : node[m] = cp.version /\ ready[m]

\* An upgrade that is over stays over: until another is asked for, neither a
\* reconciliation begun with an old copy nor a script a lost wait left running
\* takes the status back or a master down.
SettledStays == [][Settled /\ UNCHANGED edits => Settled']_vars

\* Once its version is left alone, the control plane runs it and says so: the
\* kubelets, and the API servers where "kubeadm upgrade" did not fail, which is
\* noticed by nobody and not done again.
Converges == <>[](Settled /\ ServersAt(cp.version))

\* Whatever was left half upgraded, however often a later version was asked for
\* on the way: the kubelets run versions between the one last reported and the one
\* asked for, none is newer than its master's API server unless kubeadm failed
\* there, and all are of one version before the first success.
VersionSkew ==
    \A m \in Masters :
      /\ node[m] <= cp.version /\ server[m] <= cp.version
      /\ m \notin broken => node[m] <= server[m]
      /\ cp.status # None => cp.status <= node[m]
      /\ cp.status = None => node[m] \in {None, cp.version}

Contract == INSTANCE ControlPlaneContract
            WITH asked <- cp.version, said <- cp.status, runs <- node

\* Of all that goes on below, the users of the control plane see the steps of the
\* contract: masters come at the version of the first report, their kubelets go
\* forward only, never past what was asked, and a version is reported when all of
\* the kubelets run it.  Of the API servers the contract says nothing.
KeepsContract == Contract!Spec
=============================================================================
