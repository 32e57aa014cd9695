# TLA+ specifications of azk

azk creates Kubernetes clusters on Azure and leaves their upkeep to controllers
that run inside them. These modules specify that machinery: the four
controllers, the commands that create and delete a cluster, and what Azure, the
API server and the nodes do around them. TLC checks them on small instances,
TLAPS proves the main theorems for every value of the constants. Paths and line
numbers are those of the repository; `PROJECT.json` maps each definition to its
lines.

## The system

| Part | State it keeps | Operations | Hard about it |
|---|---|---|---|
| NodePool controller (`controllers/nodepool_controller.go`) | NodePool, NodeSets named after pool and version hash | create or update the NodeSet, collect the other ones, copy the status | decides deletions from cached counts; one reconciliation per pool, 30 at once; nothing wakes it when its NodeSet changes |
| NodeSet controller (`controllers/nodeset_controller.go`) | NodeSet, its scale set, the Nodes | finalizer, PUT of the scale set, drain and delete VMs, resize, wait, report, delete | a call fails in the middle; Azure finishes deletions later |
| ControlPlane controller (`controllers/controlplane_controller.go`) | ControlPlane, the masters' scale set | grow to three masters, upgrade in place, wait, report | scripts outlive the manager that started them; etcd's majority |
| Cluster controller (`controllers/cluster_controller.go`) | Cluster | finalizer, delete the resource group, say Succeeded | runs inside what it deletes |
| `azk create`/`delete cluster` (`cmd/cluster`, `bootstrap`) | resource group, first master, keys | bootstrap, clean up, create the objects, poll | failures and ^C at every step, run again afterwards |
| Azure calls (`azure/*.go`) | scale sets, networks, resource group | create, scale, delete | asynchronous, may fail after they took effect |
| Waits and drains (`helpers/*.go`) | Nodes | wait for Ready or a version, cordon, drain, delete | what is counted is not what is meant; one error handler per process |
| `azk scale`/`upgrade`/`delete nodepool`, `azk upgrade controlplane` | the objects | change the object, poll | they return success at a timeout |
| Manager (`manager/main.go`) | work queues, informer caches | leader election, start | caches lag; it restarts |
| Addons, dashboard, guided creation, generated code | none of the above | | |

Everything goes through objects in the API server. A command writes a Spec; a
watch puts the key into a controller's work queue; the controller reads a
*cached* copy, calls Azure for minutes, and writes Specs and Statuses that
other controllers and commands read. A write fails when the object changed
since it was read. Nothing is locked.

What makes each part correct: a rollout never takes nodes away before their
replacement is there; a status tells the truth when it is read; VMs are drained
before they go; nothing outlives the object that remembers it; every request is
reached once users stop and failures end; and a cluster lives until it is asked
to go. `PROJECT.json` lists the hazards to these, each at its line.

## Modules

One module per component. A reconciliation is a process with a program counter
`pc`: one action per call it makes to the API server, Azure or the nodes, so
that anything may happen between two calls. Code between two calls is part of
the action before or after it.

| Module | Models | Its actions |
|---|---|---|
| `NodePool` | NodePool controller for several pools of a namespace; users; NodeSet controller by what others see of it | `Start Fetch Create Update List Collect UpdateStatus Fail`, `WatchPool WatchNodeSet Resync Restart`, `Upgrade Scale Resize Remove`, `OwnerCollect`, the contract's controller as `AddFinalizer Provision Rescale ReportSuccess Release` |
| `MCNodePool` | the starting states of the runs on `NodePool` | |
| `NodeSetContract` | a NodeSet as others may rely on it: every way in which its object changes | owner: `Create SetReplicas Delete`; controller: `Finalize Provision Rescale Report Release` |
| `NodeSet` | NodeSet controller for one NodeSet, its scale set VM by VM, its Nodes | `Finalize EvictAll DeleteVMSS Release List Updating Put Scaling Evict RemoveVM Resize Wait Report ApiError`, `SetReplicas Delete`, `Join TurnReady TurnNotReady VMGone NodeGone` |
| `ControlPlaneContract` | the control plane as its cluster has it: the version asked for, the one reported, those of the masters' kubelets | owner: `Found Create Upgrade Lose Destroy`; controller: `Join Install Report` |
| `ControlPlane` | ControlPlane controller, masters with the versions of their API servers and of their kubelets, upgrade scripts line by line | `List Updating Put Inspect Command Await Check Wait Report ApiError`, `Upgrade`, `Join TurnReady`, `KubeadmApplies KubeadmFails ScriptUpgrades KubeletFails ScriptEnds` |
| `Cluster` | `azk create cluster` and `delete cluster`, bootstrap, Cluster controller, resource group and the network in it, masters with their keys, etcd membership and Nodes | `CreateSpec CreateOrUpdateResourceGroup`, the network (`CreateDefaultNetworkSecurityGroup CreateNetworkSecurityGroup CreateRouteTables CreateVirtualNetworkAndSubnets CreateInternalLoadBalancer CreatePublicIP CreateLoadBalancer GetPublicIP`), `CreateInfrastructure` ... `CreateEnds`, `DeleteResourceGroup WaitForDeletion`, `RunDelete Interrupt`, `AddFinalizer ReportSucceeded DeleteGroup AwaitDeletion RemoveFinalizer ApiError`, `KubectlDelete`, `VMSSGoes ResourceGoes GroupGoes DeletionFails`, `KubeadmInit Register KubeadmJoin NodeGone AddMasters Succeed` |
| `*Proofs` | the theorems about each | |
| `NodeSetRefinement`, `NodePoolRefinement` | theorems: both follow `NodeSetContract` | |
| `NodeSetStability` | theorems: what a NodeSet reached stays, and its status is whole | |
| `ClusterRefinement` | theorem: `Cluster` follows `ControlPlaneContract` (that `ControlPlane` does is in `ControlPlaneProofs`) | |

**How they compose.** `NodeSetContract` is the seam between the two controllers
of node pools. `NodeSet`, with its scale set, VMs and Nodes, implements it under
the mapping `View` (the NodeSet's object, with the number of VMs it lists) as
`KeepsContract`. `NodePool` uses the contract's controller steps as its
environment and its own writes are the contract's owner steps
(`OwnsByContract`, again through `View`, for each NodeSet). What a rollout
relies on is one line of the contract: the count asked for is reported with the
success, never before. Success is what the NodeSet reports; it is no promise
that its Nodes are Ready, because `WaitForNodesReady` counts every Node that has
a Ready condition, true or not (`helpers.go:122-128`). In `NodePool` the NodeSet
controller may do all that the contract allows it, relapses up to the bound on
faults.

`ControlPlaneContract` is the seam between `Cluster` and `ControlPlane`: the
Nodes of masters come at the version of the first report, their kubelets go
forward only and never past what was asked, and a version is reported when all
of them run it. It speaks of kubelets because the controller looks at nothing
else: what is known of the API servers is in `HonestReport` and `VersionSkew`.
`ControlPlane`
implements it with caches, a scale set and scripts (`KeepsContract`; it starts
where `azk create` made the ControlPlane). `Cluster`, which has one version,
follows it from the first master's Node to the deletion of the group, through
broken and repeated creations (`ControlPlaneLives`): what it does to the masters
never takes the control plane where its controller has no step for it. A Node
there is a master that runs something here, a member of etcd or not. `Cluster` meets `NodeSet` and
`ControlPlane` where they wait for it: their `ClusterSucceeds` is its
`ReportSucceeded`, and its `AddMasters` and `Succeed` are what they then do.

Conventions shared by the modules:

- **Optimistic concurrency.** A write succeeds iff the stored object equals the
  copy that was read. The code compares a resourceVersion; two different
  histories that end in an equal object are then confused by the model, and the
  write does the same in both.
- **Caches** are one copy that may lag by any time and catches up in one step.
- **Faults** are bounded by `MaxFaults` and chosen with `Failing`, so that a
  property can be stated for the failures it survives. A call that may fail
  after it took effect has both outcomes. A restart of the manager loses `pc`
  and the copies, rereads the cache and queues every key.
- **Retry.** An error and `Requeue: true` both put the key back into the queue;
  delays and back-off are left out, so a retry comes at any time.
- **History variables.** `succeeded` (NodePool), `broken` (ControlPlane), `asked` and
  `leaked` (Cluster) remember what happened for the properties and guard no action.
- **Mutants.** Definitions marked `Mutant` are wrong versions of the definition
  that follows, never used by a specification; they show which mistake in the
  code a property would catch.

Particular to a module:

- *NodePool.* A NodeSet is judged by what it reports: `succeeded` remembers that
  it has said Succeeded, after which nothing is known of its Nodes, Ready or not.
  Sizes go from 0, which the commands accept, to `MaxReplicas`; a new NodeSet of
  size 0 has all its VMs at once and the old ones are collected immediately. A
  NodeSet that relapses (a VM lost, a list that fails after it succeeded, a
  report that wavers while it scales) costs one of `MaxFaults`. Kubernetes versions are numbers; a name is the pair of pool and
  version. Pools are not created again under the name of a deleted one.
- *NodeSet.* The capacity of a scale set is the number of its VMs; those being
  deleted (`leaving`) do not count, but hold their Node until they are gone. A
  PUT with a capacity below the number of VMs lets Azure choose. A Node the
  controller deleted is not registered again by its kubelet. An instance id is
  reused only after its Node is gone. A drain of another NodeSet that runs at
  the same time is the fault "share": `BehaviorOnFatal` keeps one handler for
  the process, so an error of this drain may be stored in the other's variable
  and this one goes on as if drained.
- *ControlPlane.* Only upgrades make masters NotReady, so that a lost majority
  is the controller's doing. Left out: cordoning of the masters,
  `Status.NodeStatus`, deletion of the object, a lag of the cached Nodes, and
  `upgradeVMSSWithReimage`, which nothing calls. apt refuses to downgrade. The
  upgrade script has two lines here, `kubeadm upgrade apply` for the API server
  and those that install and restart the kubelet. Each may fail; the script has
  no `set -e`, so the next line runs, and Azure reports success. A failure of
  line 90 (kubeadm itself is not upgraded) counts as one of kubeadm's. `broken`
  holds the masters where kubeadm failed the last time it ran.
- *Cluster.* The keys of a cluster are the number of the `azk create` that made
  them; a server is trusted by the kubeconfig with the same keys. The API server
  answers while most members of etcd run. The kubelet of a joining master makes
  its Node before the master becomes a member, and the Node of a VM that is gone
  stays until the cloud provider deletes it, so that Succeeded may be reported
  while a master is no member yet; nobody looks. A join that fails half way and
  removes its member again is left out. A resource of the network is
  a name; a request fails unless those it refers to exist, and Azure refuses
  to create in a group that is being deleted. A group is deleted one resource
  at a time, what is referred to last, and Azure may give up half way. The
  public address's name depends on a DNS prefix, which is the same in all runs
  of `azk create`. One azk command runs at a time. `kubectl apply` works or does
  not. Sending certificates to a new master is `AddMasters`; it is the
  ControlPlane controller's PUT.

## What TLC checks

All runs finish in less than three minutes with two workers.

| Run | Module, bounds | Shows |
|---|---|---|
| `pool_rollout` | NodePool, 1 pool, 2 versions, 0 to 2 replicas, 2 edits, 1 fault | `RetireAfterSuccess`, `KeepsSucceeded`, `WantedKept`, `ReportHonest`: the old NodeSet is collected only after the new one reported Succeeded or is to be empty, and one that succeeded is kept, through stale caches, conflicts, a failed call, a restart or a relapse |
| `pool_converges` | 1 pool, 2 versions up and down, 2 VM sizes, scaling from 0 to 2 at any time, 2 edits | `Converges`: one NodeSet left, reported as succeeded; none for a deleted pool. `OwnsByContract`: a NodeSet changes only by the contract |
| `nodeset_safe` | 3 VM ids, up to 2 replicas, 2 edits, 1 fault of API, PUT, drain or VM deletion, or a restart | `NoOrphanVMSS`, `DrainBeforeRemove`; `StatusListsVMs`: with a success every VM is in the list deletion drains by; `SettledStays`: no old copy undoes what was reached; `KeepsContract`: NodeSet implements the contract |
| `nodeset_converges` | the same, 1 edit, 1 fault of API, list, PUT or drain, or a shared error | `Converges` |
| `cp_upgrade` | 3 masters, 3 versions, 2 upgrades, 2 faults of any kind | `HonestReport`, `OneAtATime`, `Converges`, of kubelets, and of API servers where kubeadm did not fail; `VersionSkew`: kubelets are between what is reported and what is asked and not ahead of their API servers; `SettledStays`: an upgrade that is over stays over; `KeepsContract` |
| `cluster_life` | 3 masters, 3 `azk create` where no Cluster exists, 2 deletions, 3 faults of any kind | `FinalizerFirst`, `KeysAgree`, `SaidGone`, `ClusterKept`, `DeletedGoes`; `Prepared`: a bootstrap's requests find what they refer to, although earlier ones stopped or were cleaned up at any point; `ControlPlaneLives`: the masters' contract |
| `pool_pair` | 2 pools, 1 version | finds `WantedKept` violated |
| `nodeset_orphan` | a failing `delete` | finds `NoOrphanVMSS` violated |
| `nodeset_stuck` | a failing `vm` | finds `Converges` violated |
| `cp_server` | a failing `script`, 1 upgrade | finds `ServersUpgraded` violated |
| `cp_quorum` | no fault, 1 upgrade | finds `QuorumKept` violated |
| `cluster_again` | no fault, 2 `azk create` | finds `ClusterKept` violated |

Every module also has its type invariant in one of these runs.

**Why the bounds are enough to matter.** Two versions and one edit make a
rollout; a second edit makes an overlapping change or a deletion in the middle
of it. One fault at every point reaches every error path, a second one reaches
a retry that fails. Three VM ids let a scale-down choose, let an id linger
while its replacement boots, and let one be reused. Three masters are what the
code builds. Three runs of `azk create` let one be
interrupted, one follow it and one follow a deletion.

**Where the properties end.** The constants that restrict users and faults are
there because the properties depend on them, which the runs were varied to find:

- `KeepsSucceeded` and `ReportHonest` need users who do not go back to a former
  version (`CanRevert`): that NodeSet may be on its way out while the cache
  still counts its VMs. `RetireAfterSuccess` and `KeepsSucceeded` also need users
  who do not scale a pool between asking for a version and its report
  (`CanHurry`): the count of VMs in a stale status can equal the new Spec's.
  Scaling at other times is harmless. `ReportHonest` and `WantedKept` do not need
  it. `Converges` and `OwnsByContract` hold with both.
- `DrainBeforeRemove` fails when listing the VMs may fail: any error of the
  list counts as "no scale set", and a PUT follows
  (`nodeset_controller.go:152`). It fails for "share" too, where the Node of a
  VM that was never drained is deleted. A failing list also breaks
  `SettledStays`: a scale set that needs nothing is PUT again. `Converges` and
  `StatusListsVMs` fail when a page of the VM list is shorter than the scale set.
- `HonestReport` fails with `CanHurry` (a version changed before the first
  success is reported for masters that run the old one) and, with four edits,
  with `CanRevert` (an upgrade taken back leaves upgraded masters). `VersionSkew`
  and `KeepsContract` fail with either. So does `Converges`: in the first
  case the masters of the old version are not upgraded, in the second those of
  the version taken back stay. `SettledStays` holds with `CanHurry` and fails with
  `CanRevert` and four edits: a script of the version taken back still runs when a
  lower one is reported. `OneAtATime` holds with `CanHurry` as well.
- `ClusterKept` fails with `CanRepeat`, when `azk create` is run for a Cluster
  that exists (`cluster_again`). The other properties of `Cluster` hold with it
  too: its theorems but `ClusterLivesOn` do not exclude it.
- The status of a pool moves on only with the informers' resync, ten hours by
  default, because the controller does not watch NodeSets. `Converges` of
  NodePool is "eventually" in that sense.

**Fairness.** Weak fairness of the reconciliation, of the watches and of the
resync, which controller-runtime keeps going as long as the process runs, and
of the world: VMs boot, deletions Azure accepted finish, kubelets register,
scripts end. That a NodeSet left alone succeeds or goes, which `NodePool`
assumes of `AddFinalizer`, `ReportSuccess` and `Release`, is `Converges` of
`NodeSet`; `Provision` and `Rescale` have no fairness. Faults, users' edits, interrupts and commands are never fair; both
are finite, so that "once left alone" has a meaning. `Cluster` gives no fairness
to Azure or the azk command: `DeletedGoes` needs only the manager.

**Deadlock** is not checked in runs with `CHECK_DEADLOCK FALSE`: there the
system may really stop. A deleted NodeSet or pool leaves nothing to do,
and a cluster with the allowed commands used up is at rest. The ControlPlane
runs do check it, since their periodic resync always can happen.

## What is proved

Each `*Proofs` module starts with type correctness and builds one inductive
invariant on it. Nothing is assumed of the constants but the named `ASSUME`s of
the modules and, in the theorem, the restriction named here.

- **NodePool.** `Typing` with `Copies`, the copies a step needs. `FloorHolds`,
  for one pool whose version only grows: `MonotoneInv`, the manager never works
  for a version above the one asked for, and no NodeSet or cached NodeSet is
  above that floor. From it `WantedIsKept`. `PoolReportsTrue` from
  `BackedInv`: a version in a status (a NodeSet's, its cached copy's, that of
  the copy in hand, the pool's) was put there when that NodeSet succeeded, and
  the NodeSet has been there since. `RolloutOrder` and
  `SuccessKept`, for users who do not scale between asking for a version and its report, from
  `SteadyInv`: for a version whose NodeSet has not succeeded, every copy of the
  pool carries its present replica count (`Equal`) and, unless that is 0, no
  NodeSet, stored, cached or in hand, reports as many VMs (`Uncounted`). It rests
  on `BackedInv`: when a pool may be scaled its version was reported, so its
  NodeSet succeeded and no copy is for a later one. A pool of size 0 is exempt:
  its rollout removes the old NodeSet at once. The pool may be resized
  throughout. `ContractFollowed`, in
  `NodePoolRefinement`, for any number of pools and all users, from `MarkedInv`:
  what is being deleted has a finalizer; every write of a reconciliation starts
  from the object that is stored.
- **NodeSet.** `Typing`. `NoOrphans`, where deleting a scale set does not fail, from
  `FenceInv`: the finalizer is on every copy worked with after its check, on the
  stored object when the PUT is sent, and goes only without a scale set.
  `DrainedFirst` from `DrainInv`: a PUT creates a scale set anew, a scale-down
  works on the VMs that were there and takes each after its drain, and the
  capacity changes when only the spared ones are left. It needs a listing that
  does not fail, VMs that fit one page and drains that do not share their
  errors. `ContractKept`, in `NodeSetRefinement`, needs nothing: `CopyInv` says
  what the copy at each step has in common with the one that was read, so that
  a write that is not refused is a step of the contract, and the rest stutters.
  `NodeSetStability`: `StatusIsWhole`, where all VMs fit one page, from
  `ListedInv`: a reconciliation about to change the scale set has first said so in
  the status, and the list of one that is not is whole. `NoRelapse`, where
  listing does not fail either, from `StayInv`: a scale set is PUT only where there
  is none, a reconciliation about to scale, wait or report has one unless the
  NodeSet is going, and a copy at "scaling" lists no VM its status lacks.
- **ControlPlane.** `Typing`. `ReportIsHonest` from `HonestInv`: versions only grow
  from masters and running scripts over the manager's copy and its cache to the
  stored object, before the first success all of them are one, and the masters
  an upgrade has passed run the version it works for. `ServersFollow` adds that
  an API server is at its kubelet's version or ahead, unless kubeadm failed
  there, and no farther than the version asked for. For any number of masters,
  failures and restarts, and users who neither revert nor hurry.
  `SkewIsBounded` from the same and `Caught`, that no master is behind the report.
  `ContractIsKept`: under `HonestInv` each step is a step of the contract or shows
  nothing; a script runs only after the first report and ahead of its master.
  `NoRelapse` needs only users who do not revert: `Forward` says that no script is
  above the version in the cache and no copy at work reports its own version.
  `UpgradesTakeTurns`, for all users, from `FewLeft`: the scripts other than the
  one being awaited are no more than the faults so far.
- **Cluster.** `Typing`. `FinalizerComesFirst`: a copy at step "status" has the
  finalizer. `KeysAlwaysAgree` rests on `KeysInv`: all VMs have the same keys, and
  a Cluster has a VM; a run with newer keys is never trusted by an older server. `ClusterLivesOn`, without repeated
  `azk create`: `KeptInv` says that while a cluster exists that nobody asked to
  delete no command is before the end of its `CreateCluster`, no copy is being
  deleted and the group stays, so that no member of etcd loses its VM. The last step is arithmetic of majorities.
  `GoneIsGone` from `SaidInv`: a group that does not exist holds nothing, and
  nothing is created in it between the end of a deletion and what is said of it.
  `NetworkPrepared` from `MadeInv`: in a group whose deletion was not given up,
  what the steps before the command's next one make is there. `ControlPlaneFits`,
  in `ClusterRefinement`, from `LifeInv`: until there is a ControlPlane there is
  one Node at most, `azk create` gets past its wait only with it, the object goes
  with etcd, and once the ControlPlane Succeeded every master that has a VM has its
  Node, so that no Node comes after the report.

Only model-checked: the temporal properties (`Converges` of three modules,
`DeletedGoes`), whose fairness and `ENABLED` are beyond the prover. Every other
property of a passing run is a theorem.

## Disagreements between code and documentation

1. `pool_pair`: garbage collection deletes every NodeSet of the namespace except
   its own pool's current one, other pools' included (`nodepool_controller.go:121`).
2. `nodeset_orphan`: a failed deletion of the scale set is swallowed
   (`nodeset_controller.go:130-133`), against the comment beside it.
3. `nodeset_stuck`: a scale-down whose VM deletion failed never gets past the
   drain of a Node that is gone (`nodeset_controller.go:282`).
4. `cp_server`: the upgrade script goes on when `kubeadm upgrade apply` failed
   (`controlplane_controller.go:91`), and only kubelets are looked at:
   "Successfully Upgraded Control Plane" (`cmd/controlplane/controlplane.go:198`)
   is said over an old API server.
5. `cp_quorum`: neither wait looks at whether the Ready condition is true
   (`helpers.go:124,174`); an upgrade takes the majority down.
6. `cluster_again`: `azk create` does not look for an existing cluster first
   (`README.md:40`), and shrinks its masters to one (`infrastructure.go:191`).

Seen while modelling, and not expressed as a property: a new VM size overwrites
the NodeSet in place (`nodepool_controller.go:52,84`), where `README.md:61-63`
promises immutable sizes and a rollout; a rollout takes the old NodeSet away
while the new one's Nodes may all be NotReady, since Succeeded counts Nodes of
any Ready status (`helpers.go:124`, what `cp_quorum` shows for masters); at their
timeouts
`azk create`'s waits assign an error that is nil (`cluster.go:358,409`), so that
a creation that never finished is reported as successful; and after an
interrupted creation another one cannot take over, since the keys are new.

## Not modelled, and why

- Certificates, tokens, cloud-init and kubeadm texts, and what a network request
  carries beyond the names of other resources: data without states of their own.
- `azure/nic.go`, `GetSubnet`, `GetLoadBalancer`, the `Delete` functions of the
  network and `upgradeVMSSWithReimage`: nothing calls them.
- Guided creation (prompts), the dashboard (a proxy) and the generated code: no
  step of a cluster's life is in them.
- Strings: the substring match of node names (`helpers.go:122`). A NodeSet
  without `Spec.Replicas`, which no command makes.
- The polling of `azk scale` and `azk upgrade`: it changes nothing, and what it
  reads is the status `ReportHonest` and `HonestReport` are about. A scale takes
  a status older than its change for the answer when the count is the same
  (`cmd/nodepool/nodepool.go:299`), which no property expresses.

## Plan

Done, in this order: NodePool, NodeSet, ControlPlane, Cluster, each with runs
and first theorems; the shared drain handler; the network of a cluster;
`NodeSetContract` and `ControlPlaneContract` with two refinements each; what is
reached stays; theorems for every safety property. Left:

1. Commands that poll: what they say against what is.
2. Helpers as operators against reference definitions: the finalizer functions,
   node-name matching.
