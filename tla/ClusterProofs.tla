---------------------------- MODULE ClusterProofs ----------------------------
(***************************************************************************)
(* What holds of the life of a cluster for every number of masters, and for*)
(* every number of creations, deletions and failures.                      *)
(***************************************************************************)
EXTENDS Cluster, FiniteSetTheorems, TLAPS

-----------------------------------------------------------------------------
(* Type correctness: the parts of TypeOK, and what the steps share         *)

CommandOK ==
    /\ cmd \in Commands
    /\ outcome \in Outcomes
    /\ job \in [Kinds -> {"none", "create", "poll", "done", "failed"}]

MastersOK ==
    /\ vm \in [Masters -> Keys \cup {None}]
    /\ etcd \in SUBSET Masters
    /\ nodes \in SUBSET Masters

ApiOK ==
    /\ deployed \in BOOLEAN
    /\ cluster \in Object \cup {Absent}
    /\ object \in [Kinds -> {"none", "asked", "Succeeded"}]

WorkerOK ==
    /\ cache \in Object \cup {Absent}
    /\ queued \in BOOLEAN
    /\ pc \in Steps
    /\ instance \in Object \cup {Absent}
    /\ pc # "idle" <=> instance # Absent

HistoryOK == <<asked, leaked>> \in BOOLEAN \X BOOLEAN

BoundsOK ==
    /\ faults \in 0 .. MaxFaults
    /\ creates \in 0 .. MaxCreates
    /\ deletes \in 0 .. MaxDeletes

AzureOK == group \in {"none", "there", "deleting"} /\ net \in SUBSET Network

\* A run of "azk create" has a number, that of its keys.
Numbered == cmd \notin {"idle", "cleanup", "cleaning"} => creates \in Keys

LEMMA Parts ==
    TypeOK <=> /\ CommandOK /\ AzureOK /\ MastersOK /\ ApiOK /\ WorkerOK
               /\ HistoryOK /\ BoundsOK
BY DEF TypeOK, CommandOK, AzureOK, MastersOK, ApiOK, WorkerOK, HistoryOK,
       BoundsOK

LEMMA PartsNext ==
    CommandOK' /\ AzureOK' /\ MastersOK' /\ ApiOK' /\ WorkerOK'
      /\ HistoryOK' /\ BoundsOK' => TypeOK'
BY DEF TypeOK, CommandOK, AzureOK, MastersOK, ApiOK, WorkerOK, HistoryOK,
       BoundsOK

LEMMA Bounds == MaxFaults \in Nat /\ MaxCreates \in Nat /\ MaxDeletes \in Nat
BY BoundsAssumption

LEMMA SameCommand == CommandOK /\ UNCHANGED command => CommandOK'
BY DEF CommandOK, command

LEMMA SameMasters == MastersOK /\ UNCHANGED masters => MastersOK'
BY DEF MastersOK, masters

LEMMA SameApi == ApiOK /\ UNCHANGED api => ApiOK'
BY DEF ApiOK, api

LEMMA SameWorker == WorkerOK /\ UNCHANGED worker => WorkerOK'
BY DEF WorkerOK, worker

LEMMA SameHistory == HistoryOK /\ UNCHANGED history => HistoryOK'
BY DEF HistoryOK, history

LEMMA SameBounds == BoundsOK /\ UNCHANGED bounds => BoundsOK'
BY DEF BoundsOK, bounds

LEMMA FaultBounds == ASSUME NEW call, BoundsOK, Fault(call) PROVE BoundsOK'
BY BoundsAssumption DEF BoundsOK, Fault

LEMMA LeakedHistory ==
    HistoryOK /\ leaked' = TRUE /\ UNCHANGED asked => HistoryOK'
BY DEF HistoryOK

LEMMA StepCommand ==
    ASSUME CommandOK, NEW c \in Commands, Step(c) PROVE CommandOK'
BY DEF CommandOK, Step

LEMMA ReturnCommand ==
    ASSUME NEW o \in Outcomes, Return(o) PROVE CommandOK' /\ cmd' = "idle"
BY DEF CommandOK, Return, Commands

LEMMA JobCommand ==
    ASSUME CommandOK, NEW k \in Kinds, NEW s \in {"poll", "done", "failed"},
           JobStep(k, s)
    PROVE  CommandOK' /\ cmd' = cmd
BY DEF CommandOK, JobStep

LEMMA FinishWorker ==
    ASSUME WorkerOK, NEW again \in BOOLEAN, Finish(again) PROVE WorkerOK'
BY DEF WorkerOK, Finish, Steps

LEMMA InitType == Init => TypeOK /\ Numbered
<1> SUFFICES ASSUME Init PROVE TypeOK /\ Numbered
  OBVIOUS
<1>1. CommandOK /\ Numbered
  BY DEF Init, CommandOK, Commands, Outcomes, Numbered
<1>2. MastersOK /\ ApiOK
  BY DEF Init, MastersOK, ApiOK
<1>3. WorkerOK /\ HistoryOK /\ AzureOK
  BY DEF Init, WorkerOK, Steps, HistoryOK, AzureOK
<1>4. 0 \in 0 .. MaxFaults /\ 0 \in 0 .. MaxCreates /\ 0 \in 0 .. MaxDeletes
  BY Bounds
<1>5. BoundsOK
  BY <1>4 DEF Init, BoundsOK
<1> QED
  BY <1>1, <1>2, <1>3, <1>5, Parts

LEMMA NumberedStays ==
    Numbered /\ cmd' = cmd /\ UNCHANGED creates => Numbered'
BY DEF Numbered

\* The steps of CreateBaseInfrastructure, which share the shape of Establish.
BaseCalls == {"group", "address"} \cup Network

LEMMA EstablishStep ==
    ASSUME NEW r \in Network, NEW next \in Network \cup {"address"},
           Establish(r, next)
    PROVE  /\ cmd = r /\ Step(cmd')
           /\ cmd' \in Network \cup {"address", "vmss", "cleanup"}
           /\ net' \in {net, net \cup {r}}
           /\ UNCHANGED bounds \/ Fault("network")
           /\ UNCHANGED <<group, masters, api, worker, history>>
<1>1. /\ cmd = r /\ (Step(next) \/ Step("cleanup"))
      /\ net' \in {net, net \cup {r}}
      /\ UNCHANGED bounds \/ Fault("network")
      /\ UNCHANGED <<group, masters, api, worker, history>>
  BY Zenon DEF Establish
<1>2. Step(cmd') /\ cmd' \in {next, "cleanup"}
  BY <1>1 DEF Step
<1> QED BY <1>1, <1>2

BaseShape ==
    /\ cmd \in BaseCalls /\ Step(cmd')
    /\ cmd' \in Network \cup {"address", "vmss", "cleanup"}
    /\ net \in SUBSET Network => net' \in SUBSET Network
    /\ UNCHANGED bounds \/ Fault("network") \/ Fault("group")
    /\ \/ UNCHANGED group /\ cmd # "group"
       \/ UNCHANGED group /\ cmd' = "cleanup"
       \/ group' = "there"
    /\ UNCHANGED <<masters, api, worker, history>>

LEMMA BaseStep == CreateBaseInfrastructure => BaseShape
<1> SUFFICES ASSUME CreateBaseInfrastructure PROVE BaseShape
  OBVIOUS
<1>1. CASE CreateOrUpdateResourceGroup
  <2>1. /\ cmd = "group" /\ (Step("azk-nsg") \/ Step("cleanup"))
        /\ UNCHANGED bounds \/ Fault("group")
        /\ group' \in {group, "there"} /\ (group = "deleting" => Step("cleanup"))
        /\ UNCHANGED <<net, masters, api, worker, history>>
    BY <1>1 DEF CreateOrUpdateResourceGroup
  <2>2. Step(cmd') /\ cmd' \in {"azk-nsg", "cleanup"}
    BY <2>1 DEF Step
  <2>3. \/ UNCHANGED group /\ cmd' = "cleanup"
        \/ group' = "there"
    <3>1. CASE group = "deleting"
      <4>1. Step("cleanup")
        BY <2>1, <3>1
      <4> QED BY <2>1, <4>1, <3>1 DEF Step
    <3>2. CASE group # "deleting" /\ Step("azk-nsg")
      BY <1>1, <3>2 DEF CreateOrUpdateResourceGroup, Step
    <3>3. CASE group # "deleting" /\ Step("cleanup")
      BY <2>1, <3>3 DEF Step
    <3> QED BY <2>1, <3>1, <3>2, <3>3
  <2> QED BY <2>1, <2>2, <2>3 DEF BaseShape, BaseCalls, Network
<1>2. ASSUME NEW r \in Network, NEW next \in Network \cup {"address"},
             Establish(r, next)
      PROVE  BaseShape
  <2>1. cmd = r /\ cmd # "group"
    BY <1>2, EstablishStep DEF Network
  <2> QED BY <1>2, <2>1, EstablishStep DEF BaseShape, BaseCalls
<1>3. CASE GetPublicIP
  <2>1. /\ cmd = "address" /\ (Step("vmss") \/ Step("cleanup"))
        /\ UNCHANGED bounds \/ Fault("network")
        /\ UNCHANGED <<azure, masters, api, worker, history>>
    BY <1>3 DEF GetPublicIP
  <2>2. Step(cmd') /\ cmd' \in {"vmss", "cleanup"}
    BY <2>1 DEF Step
  <2> QED BY <2>1, <2>2 DEF BaseShape, BaseCalls, azure
<1> QED
  BY <1>1, <1>2, <1>3
     DEF CreateBaseInfrastructure, CreateDefaultNetworkSecurityGroup,
         CreateNetworkSecurityGroup, CreateRouteTables,
         CreateVirtualNetworkAndSubnets, CreateInternalLoadBalancer,
         CreatePublicIP, CreateLoadBalancer, Network

\* The steps of azk.
LEMMA CreateType ==
    ASSUME TypeOK, Numbered, Create PROVE TypeOK' /\ Numbered'
<1> USE Parts, PartsNext DEF command, azure, masters, api, worker, history, bounds
<1>1. CASE CreateSpec
  <2>1. BoundsOK' /\ creates' \in Keys
    <3>1. creates \in 0 .. MaxCreates
      BY DEF BoundsOK
    <3>2. creates < MaxCreates /\ creates' = creates + 1
          /\ UNCHANGED <<faults, deletes>>
      BY <1>1, Zenon DEF CreateSpec
    <3>3. creates' \in 0 .. MaxCreates /\ creates' \in 1 .. MaxCreates
      BY <3>1, <3>2, Bounds
    <3> QED BY <3>2, <3>3 DEF BoundsOK, Keys
  <2>2. CommandOK'
    BY <1>1 DEF CreateSpec, CommandOK, Commands, Outcomes
  <2> QED BY <1>1, <2>1, <2>2, SameMasters, SameApi, SameWorker,
             SameHistory DEF CreateSpec, AzureOK, Numbered
<1>2. CASE CreateBaseInfrastructure
  <2>1. BoundsOK' /\ creates' = creates
    BY <1>2, BaseStep, FaultBounds, SameBounds DEF BaseShape, Fault
  <2>2. CommandOK' /\ Numbered'
    <3>1. cmd \in BaseCalls /\ Step(cmd') /\ cmd' \in Commands
      BY <1>2, BaseStep DEF BaseShape, Commands
    <3>2. cmd \notin {"idle", "cleanup", "cleaning"}
      BY <3>1 DEF BaseCalls, Network
    <3> QED BY <3>1, <3>2, <2>1, StepCommand DEF Numbered
  <2>3. AzureOK'
    <3>1. net' \in SUBSET Network
      BY <1>2, BaseStep DEF BaseShape, AzureOK
    <3>2. group' \in {"none", "there", "deleting"}
      BY <1>2, BaseStep DEF BaseShape, AzureOK
    <3> QED BY <3>1, <3>2 DEF AzureOK
  <2> QED BY <1>2, <2>1, <2>2, <2>3, BaseStep, SameMasters, SameApi, SameWorker,
             SameHistory DEF BaseShape
<1>4. CASE CreateInfrastructure
  <2>1. BoundsOK' /\ creates' = creates
    BY <1>4, FaultBounds, SameBounds DEF CreateInfrastructure, Fault
  <2>2. CommandOK' /\ Numbered'
    BY <1>4, <2>1, StepCommand
       DEF CreateInfrastructure, Commands, Numbered, Step
  <2>3. OneMaster \subseteq [Masters -> Keys \cup {None}]
    BY <1>4 DEF CreateInfrastructure, Numbered, OneMaster, MastersOK
  <2>4. MastersOK'
    BY <1>4, <2>3 DEF CreateInfrastructure, MastersOK
  <2> QED BY <1>4, <2>1, <2>2, <2>4, SameApi, SameWorker, SameHistory
             DEF CreateInfrastructure, AzureOK
<1>5. CASE DeleteResourceGroup
  <2>1. BoundsOK' /\ creates' = creates
    BY <1>5, FaultBounds, SameBounds DEF DeleteResourceGroup, Fault
  <2>2. Answer(FALSE) \in Outcomes
    BY DEF Answer, Outcomes
  <2>3. CommandOK' /\ Numbered'
    BY <1>5, <2>2, StepCommand, ReturnCommand
       DEF DeleteResourceGroup, Commands, Numbered, Step, Return
  <2>4. AzureOK' /\ HistoryOK'
    BY <1>5, SameHistory, LeakedHistory DEF DeleteResourceGroup, AzureOK
  <2> QED BY <1>5, <2>1, <2>3, <2>4, SameMasters, SameApi, SameWorker
             DEF DeleteResourceGroup
<1>6. CASE WaitForDeletion
  <2>1. BoundsOK' /\ creates' = creates
    BY <1>6, FaultBounds, SameBounds DEF WaitForDeletion, Fault
  <2>2. Answer(FALSE) \in Outcomes /\ Answer(TRUE) \in Outcomes
    BY DEF Answer, Outcomes
  <2>3. CommandOK' /\ Numbered'
    BY <1>6, <2>2, ReturnCommand DEF WaitForDeletion, Numbered, Return
  <2>4. AzureOK' /\ HistoryOK'
    BY <1>6, SameHistory, LeakedHistory DEF WaitForDeletion, AzureOK
  <2> QED BY <1>6, <2>1, <2>3, <2>4, SameMasters, SameApi, SameWorker
             DEF WaitForDeletion
<1>7. CASE WaitForFirstNode
  <2>1. CommandOK' /\ Numbered'
    BY <1>7, StepCommand, ReturnCommand
       DEF WaitForFirstNode, Commands, Outcomes, Numbered, Step, Return
  <2> QED BY <1>7, <2>1, SameMasters, SameApi, SameWorker, SameHistory,
             SameBounds DEF WaitForFirstNode, AzureOK
<1>8. CASE KubectlApply
  <2>1. BoundsOK' /\ creates' = creates
    BY <1>8, FaultBounds, SameBounds DEF KubectlApply, Fault
  <2>2. CommandOK' /\ Numbered'
    BY <1>8, <2>1, StepCommand DEF KubectlApply, Commands, Numbered, Step
  <2>3. ApiOK'
    BY <1>8 DEF KubectlApply, ApiOK, Reachable, Alive
  <2> QED BY <1>8, <2>1, <2>2, <2>3, SameMasters, SameWorker, SameHistory
             DEF KubectlApply, AzureOK
<1>9. CASE CreateNamespace
  <2>1. BoundsOK' /\ creates' = creates
    BY <1>9, FaultBounds, SameBounds DEF CreateNamespace, Fault
  <2>2. CommandOK' /\ Numbered'
    BY <1>9, <2>1, StepCommand, ReturnCommand
       DEF CreateNamespace, Commands, Outcomes, Numbered, Step, Return
  <2> QED BY <1>9, <2>1, <2>2, SameMasters, SameApi, SameWorker, SameHistory
             DEF CreateNamespace, AzureOK
<1>10. CASE CreateCluster
  <2>1. BoundsOK' /\ creates' = creates
    BY <1>10, FaultBounds, SameBounds DEF CreateCluster, Fault
  <2>2. CommandOK' /\ Numbered'
    BY <1>10, <2>1, ReturnCommand
       DEF CreateCluster, StartJobs, CommandOK, Commands, Outcomes, Numbered,
           Return
  <2>3. NewCluster \in Object
    BY <1>10 DEF CreateCluster, Numbered, NewCluster, Object
  <2>4. ApiOK'
    BY <1>10, <2>3 DEF CreateCluster, ApiOK
  <2> QED BY <1>10, <2>1, <2>2, <2>4, SameMasters, SameWorker, SameHistory
             DEF CreateCluster, AzureOK
<1>11. ASSUME NEW k \in Kinds, CreateObject(k) PROVE TypeOK' /\ Numbered'
  <2>1. BoundsOK' /\ creates' = creates
    BY <1>11, FaultBounds, SameBounds DEF CreateObject, Fault
  <2>2. CommandOK' /\ cmd' = cmd
    BY <1>11, JobCommand DEF CreateObject
  <2>3. ApiOK'
    BY <1>11 DEF CreateObject, AskFor, ApiOK
  <2> QED BY <1>11, <2>1, <2>2, <2>3, SameMasters, SameWorker, SameHistory,
             NumberedStays DEF CreateObject, AzureOK
<1>12. ASSUME NEW k \in Kinds, PollEnds(k) PROVE TypeOK' /\ Numbered'
  <2>1. CommandOK' /\ cmd' = cmd
    BY <1>12, JobCommand DEF PollEnds
  <2> QED BY <1>12, <2>1, SameMasters, SameApi, SameWorker, SameHistory,
             SameBounds, NumberedStays DEF PollEnds, AzureOK
<1>13. CASE CreateEnds
  <2>1. CommandOK' /\ Numbered'
    BY <1>13, ReturnCommand DEF CreateEnds, Outcomes, Numbered
  <2> QED BY <1>13, <2>1, SameMasters, SameApi, SameWorker, SameHistory,
             SameBounds DEF CreateEnds, AzureOK
<1> QED
  BY <1>1, <1>2, <1>4, <1>5, <1>6, <1>7, <1>8, <1>9, <1>10, <1>11,
     <1>12, <1>13 DEF Create

\* The steps of the controller.
LEMMA WorkerStepType ==
    ASSUME TypeOK,
           Reconcile \/ AwaitDeletion \/ ApiError \/ Watch \/ Restart
    PROVE  TypeOK'
<1> USE Parts, PartsNext DEF command, azure, masters, api, history
<1>1. CASE Start
  <2>1. \A i : NextStep(i) \in Steps
    BY DEF NextStep, Steps
  <2>2. WorkerOK'
    BY <1>1, <2>1, AbsentAssumption DEF Start, WorkerOK
  <2> QED BY <1>1, <2>2, SameCommand, SameMasters, SameApi, SameHistory,
             SameBounds DEF Start, AzureOK
<1>2. CASE AddFinalizer
  <2>1. WorkerOK'
    BY <1>2, FinishWorker DEF AddFinalizer
  <2>2. instance \in Object
    BY <1>2 DEF AddFinalizer, WorkerOK
  <2>3. [instance EXCEPT !.finalizer = TRUE] \in Object
    BY <2>2 DEF Object
  <2>4. ApiOK'
    BY <1>2, <2>3 DEF AddFinalizer, ApiOK
  <2> QED BY <1>2, <2>1, <2>4, SameCommand, SameMasters, SameHistory,
             SameBounds DEF AddFinalizer, AzureOK
<1>3. CASE ReportSucceeded
  <2>1. WorkerOK'
    BY <1>3, FinishWorker DEF ReportSucceeded, WorkerOK
  <2>2. instance \in Object
    BY <1>3 DEF ReportSucceeded, WorkerOK
  <2>3. [instance EXCEPT !.state = "Succeeded"] \in Object
    BY <2>2 DEF Object
  <2>4. ApiOK'
    BY <1>3, <2>3 DEF ReportSucceeded, ApiOK
  <2> QED BY <1>3, <2>1, <2>4, SameCommand, SameMasters, SameHistory,
             SameBounds DEF ReportSucceeded, AzureOK
<1>4. CASE DeleteGroup
  <2>1. BoundsOK' /\ HistoryOK' /\ AzureOK'
    BY <1>4, FaultBounds, SameBounds, SameHistory, LeakedHistory
       DEF DeleteGroup, AzureOK
  <2>2. WorkerOK'
    BY <1>4 DEF DeleteGroup, WorkerOK, Steps
  <2> QED BY <1>4, <2>1, <2>2, SameCommand, SameMasters, SameApi
             DEF DeleteGroup
<1>5. CASE AwaitDeletion
  <2>1. BoundsOK' /\ HistoryOK' /\ AzureOK'
    BY <1>5, FaultBounds, LeakedHistory, SameHistory, SameBounds
       DEF AwaitDeletion, AzureOK
  <2>2. WorkerOK'
    BY <1>5 DEF AwaitDeletion, WorkerOK, Steps
  <2> QED BY <1>5, <2>1, <2>2, SameCommand, SameMasters, SameApi
             DEF AwaitDeletion
<1>6. CASE RemoveFinalizer
  <2>1. WorkerOK'
    BY <1>6, FinishWorker DEF RemoveFinalizer, WorkerOK
  <2>2. ApiOK'
    BY <1>6 DEF RemoveFinalizer, ApiOK
  <2> QED BY <1>6, <2>1, <2>2, SameCommand, SameMasters, SameHistory,
             SameBounds DEF RemoveFinalizer, AzureOK
<1>7. CASE ApiError
  <2>1. WorkerOK' /\ BoundsOK'
    BY <1>7, FinishWorker, FaultBounds DEF ApiError
  <2> QED BY <1>7, <2>1, SameCommand, SameMasters, SameApi, SameHistory
             DEF ApiError, AzureOK
<1>8. CASE Watch
  <2>1. WorkerOK'
    BY <1>8 DEF Watch, WorkerOK, ApiOK
  <2> QED BY <1>8, <2>1, SameCommand, SameMasters, SameApi, SameHistory,
             SameBounds DEF Watch, AzureOK
<1>9. CASE Restart
  <2>1. WorkerOK'
    BY <1>9 DEF Restart, WorkerOK, ApiOK, Steps
  <2>2. BoundsOK'
    BY <1>9, FaultBounds DEF Restart
  <2> QED BY <1>9, <2>1, <2>2, SameCommand, SameMasters, SameApi, SameHistory
             DEF Restart, AzureOK
<1> QED
  BY <1>1, <1>2, <1>3, <1>4, <1>5, <1>6, <1>7, <1>8, <1>9 DEF Reconcile

\* Azure, kubectl, and the masters.
World ==
    \/ KubectlDelete \/ AddMasters
    \/ VMSSGoes \/ GroupGoes \/ DeletionFails
    \/ \E r \in Network : ResourceGoes(r)
    \/ \E m \in Masters : MasterStep(m)
    \/ \E k \in Kinds : Succeed(k)

LEMMA WorldType == ASSUME TypeOK, World PROVE TypeOK'
<1> USE Parts, PartsNext DEF command, azure, masters, api, worker, history, bounds
<1>1. CASE KubectlDelete
  <2>1. deletes' \in 0 .. MaxDeletes
    <3>1. deletes \in Nat /\ deletes < MaxDeletes /\ deletes' = deletes + 1
      BY <1>1, Bounds DEF KubectlDelete, BoundsOK
    <3> QED BY <3>1, Bounds
  <2>2. BoundsOK' /\ HistoryOK'
    BY <1>1, <2>1 DEF KubectlDelete, BoundsOK, HistoryOK
  <2>3. cluster \in Object
    BY <1>1 DEF KubectlDelete, ApiOK
  <2>4. [cluster EXCEPT !.deleting = TRUE] \in Object
    BY <2>3 DEF Object
  <2>5. ApiOK'
    BY <1>1, <2>4 DEF KubectlDelete, ApiOK
  <2> QED BY <1>1, <2>2, <2>5, SameCommand, SameMasters, SameWorker
             DEF KubectlDelete, AzureOK
<1>2. CASE VMSSGoes
  <2>1. MastersOK' /\ ApiOK'
    BY <1>2 DEF VMSSGoes, MastersOK, ApiOK
  <2>2. WorkerOK' /\ HistoryOK' /\ AzureOK'
    BY <1>2 DEF VMSSGoes, WorkerOK, HistoryOK, AzureOK, Steps
  <2> QED BY <1>2, <2>1, <2>2, SameCommand, SameBounds DEF VMSSGoes
<1>6. ASSUME NEW r \in Network, ResourceGoes(r) PROVE TypeOK'
  <2>1. AzureOK'
    BY <1>6 DEF ResourceGoes, AzureOK
  <2> QED BY <1>6, <2>1, SameCommand, SameMasters, SameApi, SameWorker,
             SameHistory, SameBounds DEF ResourceGoes
<1>7. CASE GroupGoes
  <2>1. AzureOK' /\ HistoryOK'
    BY <1>7 DEF GroupGoes, AzureOK, HistoryOK
  <2> QED BY <1>7, <2>1, SameCommand, SameMasters, SameApi, SameWorker,
             SameBounds DEF GroupGoes
<1>8. CASE DeletionFails
  <2>1. AzureOK' /\ HistoryOK' /\ BoundsOK'
    BY <1>8, FaultBounds, LeakedHistory DEF DeletionFails, AzureOK
  <2> QED BY <1>8, <2>1, SameCommand, SameMasters, SameApi, SameWorker
             DEF DeletionFails
<1>3. CASE AddMasters
  <2>1. cluster \in Object
    BY <1>3 DEF AddMasters, Controlled, ApiOK
  <2>2. MastersOK'
    BY <1>3, <2>1 DEF AddMasters, MastersOK, Object
  <2> QED BY <1>3, <2>2, SameCommand, SameApi, SameWorker, SameHistory,
             SameBounds DEF AddMasters, AzureOK
<1>4. ASSUME NEW m \in Masters, MasterStep(m)
      PROVE  TypeOK'
  <2>1. MastersOK'
    BY <1>4 DEF MasterStep, KubeadmInit, Register, KubeadmJoin, NodeGone,
                MastersOK
  <2> QED BY <1>4, <2>1, SameCommand, SameApi, SameWorker, SameHistory,
             SameBounds
             DEF MasterStep, KubeadmInit, Register, KubeadmJoin, NodeGone, AzureOK
<1>5. ASSUME NEW k \in Kinds, Succeed(k) PROVE TypeOK'
  <2>1. ApiOK'
    BY <1>5 DEF Succeed, ApiOK
  <2> QED BY <1>5, <2>1, SameCommand, SameMasters, SameWorker, SameHistory,
             SameBounds DEF Succeed, AzureOK
<1> QED BY <1>1, <1>2, <1>3, <1>4, <1>5, <1>6, <1>7, <1>8 DEF World

LEMMA CommandType ==
    ASSUME TypeOK, RunDelete \/ Interrupt PROVE TypeOK'
<1> USE Parts, PartsNext DEF command, azure, masters, api, worker, history, bounds
<1>1. CASE RunDelete
  <2>1. deletes' \in 0 .. MaxDeletes
    <3>1. deletes \in Nat /\ deletes < MaxDeletes /\ deletes' = deletes + 1
      BY <1>1, Bounds DEF RunDelete, BoundsOK
    <3> QED BY <3>1, Bounds
  <2>2. BoundsOK' /\ HistoryOK'
    BY <1>1, <2>1 DEF RunDelete, BoundsOK, HistoryOK
  <2>3. CommandOK'
    BY <1>1 DEF RunDelete, CommandOK, Commands, Outcomes
  <2> QED BY <1>1, <2>2, <2>3, SameMasters, SameApi, SameWorker
             DEF RunDelete, AzureOK
<1>2. CASE Interrupt
  <2>1. CommandOK' /\ BoundsOK'
    BY <1>2, ReturnCommand, FaultBounds DEF Interrupt, Outcomes
  <2> QED BY <1>2, <2>1, SameMasters, SameApi, SameWorker, SameHistory
             DEF Interrupt, AzureOK
<1> QED BY <1>1, <1>2

LEMMA NextType ==
    ASSUME TypeOK, Numbered, [Next]_vars PROVE TypeOK' /\ Numbered'
<1>1. CASE Create
  BY <1>1, CreateType
<1>2. CASE RunDelete \/ Interrupt
  BY <1>2, CommandType DEF RunDelete, Interrupt, Return, Numbered
<1>3. CASE Reconcile \/ AwaitDeletion \/ ApiError \/ Watch \/ Restart
  <2>1. UNCHANGED <<cmd, creates>>
    BY <1>3 DEF Reconcile, Start, AddFinalizer, ReportSucceeded, DeleteGroup,
                AwaitDeletion, RemoveFinalizer, ApiError, Watch, Restart,
                Fault, command, bounds
  <2> QED BY <1>3, <2>1, WorkerStepType, NumberedStays
<1>4. CASE World
  <2>1. UNCHANGED <<cmd, creates>>
    BY <1>4 DEF World, KubectlDelete, VMSSGoes, ResourceGoes, GroupGoes,
                DeletionFails, AddMasters, MasterStep, KubeadmInit, Register,
                KubeadmJoin, NodeGone, Succeed, Fault, command, bounds
  <2> QED BY <1>4, <2>1, WorldType, NumberedStays
<1>5. CASE UNCHANGED vars
  BY <1>5 DEF vars, command, azure, masters, api, worker, history, bounds,
              TypeOK, Numbered
<1> QED
  BY <1>1, <1>2, <1>3, <1>4, <1>5 DEF Next, World

\* The variables keep their types, and the keys of a running "azk create" are
\* those of one of its runs.
THEOREM Typing == Spec => [](TypeOK /\ Numbered)
BY InitType, NextType, PTL DEF Spec

-----------------------------------------------------------------------------
(* The finalizer comes before success                                      *)

\* A reconciliation about to report success read a Cluster with a finalizer.
Guarded == pc = "status" => instance.finalizer

LEMMA FinishGuarded == ASSUME NEW again, Finish(again) PROVE Guarded'
BY DEF Finish, Guarded

LEMMA FinalizerNext ==
    ASSUME TypeOK, FinalizerFirst, Guarded, [Next]_vars
    PROVE  FinalizerFirst' /\ Guarded'
<1>1. CASE UNCHANGED <<cluster, pc, instance>>
  BY <1>1 DEF FinalizerFirst, Guarded
<1>2. CASE CreateCluster
  <2>1. cluster' = cluster \/ cluster' = NewCluster
    BY <1>2 DEF CreateCluster
  <2>2. NewCluster.state # "Succeeded"
    BY DEF NewCluster
  <2>3. FinalizerFirst'
    BY <2>1, <2>2 DEF FinalizerFirst
  <2>4. UNCHANGED <<pc, instance>>
    BY <1>2 DEF CreateCluster, worker
  <2> QED BY <2>3, <2>4 DEF Guarded
<1>3. CASE Start
  <2>1. Guarded'
    BY <1>3 DEF Start, NextStep, Guarded
  <2> QED BY <1>3, <2>1 DEF Start, api, FinalizerFirst
<1>4. CASE AddFinalizer
  <2>1. instance \in Object
    BY <1>4 DEF AddFinalizer, TypeOK
  <2>2. FinalizerFirst'
    BY <1>4, <2>1 DEF AddFinalizer, FinalizerFirst, Object
  <2> QED BY <1>4, <2>2, FinishGuarded DEF AddFinalizer
<1>5. CASE ReportSucceeded
  <2>1. instance \in Object /\ instance.finalizer
    BY <1>5 DEF ReportSucceeded, TypeOK, Guarded
  <2>2. FinalizerFirst'
    BY <1>5, <2>1 DEF ReportSucceeded, FinalizerFirst, Object
  <2> QED BY <1>5, <2>2, FinishGuarded DEF ReportSucceeded
<1>6. CASE DeleteGroup \/ AwaitDeletion
  BY <1>6 DEF DeleteGroup, AwaitDeletion, api, FinalizerFirst, Guarded
<1>7. CASE RemoveFinalizer
  <2>1. FinalizerFirst'
    BY <1>7 DEF RemoveFinalizer, FinalizerFirst
  <2> QED BY <1>7, <2>1, FinishGuarded DEF RemoveFinalizer
<1>8. CASE ApiError
  BY <1>8, FinishGuarded DEF ApiError, api, FinalizerFirst
<1>9. CASE Restart
  BY <1>9 DEF Restart, api, FinalizerFirst, Guarded
<1>10. CASE KubectlDelete
  <2>1. cluster \in Object
    BY <1>10 DEF KubectlDelete, TypeOK
  <2>2. FinalizerFirst'
    BY <1>10, <2>1 DEF KubectlDelete, FinalizerFirst, Object
  <2> QED BY <1>10, <2>2 DEF KubectlDelete, worker, Guarded
<1>11. CASE VMSSGoes
  BY <1>11 DEF VMSSGoes, FinalizerFirst, Guarded
<1>18. CASE GroupGoes \/ DeletionFails \/ \E r \in Network : ResourceGoes(r)
  <2>1. UNCHANGED <<cluster, pc, instance>>
    BY <1>18 DEF GroupGoes, DeletionFails, ResourceGoes, api, worker
  <2> QED BY <2>1, <1>1
<1>12. CASE Create /\ ~CreateCluster
  <2>1. UNCHANGED <<cluster, pc, instance>>
    BY <1>12, BaseStep DEF BaseShape, Create, CreateSpec, CreateInfrastructure,
         DeleteResourceGroup,
         WaitForDeletion, WaitForFirstNode, KubectlApply, CreateNamespace,
         CreateObject, PollEnds, CreateEnds, api, worker
  <2> QED BY <2>1, <1>1
<1>13. CASE RunDelete \/ Interrupt \/ Watch
  <2>1. UNCHANGED <<cluster, pc, instance>>
    BY <1>13 DEF RunDelete, Interrupt, Watch, api, worker
  <2> QED BY <2>1, <1>1
<1>14. CASE AddMasters
  <2>1. UNCHANGED <<cluster, pc, instance>>
    BY <1>14 DEF AddMasters, api, worker
  <2> QED BY <2>1, <1>1
<1>15. ASSUME NEW m \in Masters, MasterStep(m)
       PROVE  FinalizerFirst' /\ Guarded'
  <2>1. UNCHANGED <<cluster, pc, instance>>
    BY <1>15 DEF MasterStep, KubeadmInit, Register, KubeadmJoin, NodeGone, api,
                 worker
  <2> QED BY <2>1, <1>1
<1>16. ASSUME NEW k \in Kinds, Succeed(k) PROVE FinalizerFirst' /\ Guarded'
  <2>1. UNCHANGED <<cluster, pc, instance>>
    BY <1>16 DEF Succeed, worker
  <2> QED BY <2>1, <1>1
<1>17. CASE UNCHANGED vars
  BY <1>17, <1>1 DEF vars, api, worker
<1> QED
  BY <1>2, <1>3, <1>4, <1>5, <1>6, <1>7, <1>8, <1>9, <1>10, <1>11, <1>12,
     <1>13, <1>14, <1>15, <1>16, <1>17, <1>18 DEF Next, Reconcile

\* The Cluster controller reports "Succeeded", for which the others wait, only
\* after its finalizer is stored: stale copies, conflicts and restarts do not
\* bring the two out of order.
THEOREM FinalizerComesFirst == Spec => []FinalizerFirst
<1>1. Init => FinalizerFirst /\ Guarded
  BY DEF Init, FinalizerFirst, Guarded
<1>2. TypeOK /\ FinalizerFirst /\ Guarded /\ [Next]_vars
        => FinalizerFirst' /\ Guarded'
  BY FinalizerNext
<1> QED
  BY <1>1, <1>2, Typing, PTL DEF Spec

-----------------------------------------------------------------------------
(* The keys of the masters                                                 *)

\* All masters have the same keys, and a Cluster has a master.
SameKeys == \A m, n \in VMs : vm[m] = vm[n]
Hosted == cluster # Absent => VMs # {}

KeysInv == SameKeys /\ Hosted /\ KeysAgree

\* A Cluster that is updated keeps its keys.
KeepsKeys ==
    cluster' # Absent =>
      cluster # Absent /\ cluster'.keys = cluster.keys

LEMMA KeysKept ==
    ASSUME KeysInv, KeepsKeys, UNCHANGED vm PROVE KeysInv'
BY DEF KeysInv, SameKeys, Hosted, KeysAgree, KeepsKeys, VMs

LEMMA UpdatesKeepKeys ==
    ASSUME TypeOK,
           AddFinalizer \/ ReportSucceeded \/ RemoveFinalizer \/ KubectlDelete
    PROVE  KeepsKeys /\ UNCHANGED vm
<1>1. CASE AddFinalizer
  <2>1. instance \in Object
    BY <1>1 DEF AddFinalizer, TypeOK
  <2> QED BY <1>1, <2>1, AbsentAssumption
          DEF AddFinalizer, KeepsKeys, Object, masters
<1>2. CASE ReportSucceeded
  <2>1. instance \in Object
    BY <1>2 DEF ReportSucceeded, TypeOK
  <2> QED BY <1>2, <2>1, AbsentAssumption
          DEF ReportSucceeded, KeepsKeys, Object, masters
<1>3. CASE RemoveFinalizer
  BY <1>3 DEF RemoveFinalizer, KeepsKeys, masters
<1>4. CASE KubectlDelete
  <2>1. cluster \in Object
    BY <1>4 DEF KubectlDelete, TypeOK
  <2> QED BY <1>4, <2>1 DEF KubectlDelete, KeepsKeys, Object, masters
<1> QED BY <1>1, <1>2, <1>3, <1>4

LEMMA KeysNext ==
    ASSUME TypeOK, Numbered, KeysInv, [Next]_vars PROVE KeysInv'
<1>1. CASE UNCHANGED <<cluster, vm>>
  BY <1>1, KeysKept DEF KeepsKeys
<1>2. CASE CreateInfrastructure
  <2>1. CASE UNCHANGED vm
    BY <1>2, <2>1, <1>1 DEF CreateInfrastructure, api
  <2>2. CASE VMs = {} /\ vm' = [vm EXCEPT ![Bootstrap] = creates]
    <3>1. cluster' = Absent
      BY <1>2, <2>2 DEF CreateInfrastructure, api, KeysInv, Hosted
    <3>2. VMs' \subseteq {Bootstrap}
      BY <2>2 DEF VMs, TypeOK
    <3> QED BY <3>1, <3>2 DEF KeysInv, SameKeys, Hosted, KeysAgree
  <2>3. ASSUME NEW s \in VMs,
               vm' = [m \in Masters |-> IF m = s THEN vm[m] ELSE None]
        PROVE  KeysInv'
    <3>1. VMs' = {s} /\ vm'[s] = vm[s]
      BY <2>3 DEF VMs
    <3>2. cluster' = cluster
      BY <1>2 DEF CreateInfrastructure, api
    <3> QED BY <2>3, <3>1, <3>2 DEF KeysInv, SameKeys, Hosted, KeysAgree
  <2> QED BY <1>2, <2>1, <2>2, <2>3 DEF CreateInfrastructure, OneMaster
<1>3. CASE CreateCluster
  <2>1. CASE cluster' = cluster
    BY <1>3, <2>1, <1>1 DEF CreateCluster, masters
  <2>2. CASE CanCreate /\ cluster' = NewCluster
    <3>1. PICK m \in Serving : vm[m] = creates
      BY <2>2 DEF CanCreate, Reachable, Trusts
    <3>2. m \in VMs
      BY <3>1 DEF Serving
    <3>3. cluster'.keys = creates
      BY <2>2 DEF NewCluster
    <3>4. UNCHANGED vm
      BY <1>3 DEF CreateCluster, masters
    <3> QED BY <3>1, <3>2, <3>3, <3>4
            DEF KeysInv, SameKeys, Hosted, KeysAgree, VMs
  <2> QED BY <1>3, <2>1, <2>2 DEF CreateCluster
<1>4. CASE AddFinalizer \/ ReportSucceeded \/ RemoveFinalizer \/ KubectlDelete
  BY <1>4, UpdatesKeepKeys, KeysKept
<1>5. CASE VMSSGoes
  BY <1>5 DEF VMSSGoes, KeysInv, SameKeys, Hosted, KeysAgree, VMs
<1>12. CASE GroupGoes \/ DeletionFails \/ \E r \in Network : ResourceGoes(r)
  <2>1. UNCHANGED <<cluster, vm>>
    BY <1>12 DEF GroupGoes, DeletionFails, ResourceGoes, api, masters
  <2> QED BY <2>1, <1>1
<1>6. CASE AddMasters
  <2>1. cluster # Absent /\ cluster' = cluster
    BY <1>6 DEF AddMasters, Controlled, api
  <2>2. \A m \in Masters : vm'[m] = cluster.keys
    BY <1>6, <2>1 DEF AddMasters, KeysInv, KeysAgree, VMs
  <2>3. VMs \subseteq VMs'
    BY <1>6 DEF AddMasters, VMs
  <2> QED BY <2>1, <2>2, <2>3
          DEF KeysInv, SameKeys, Hosted, KeysAgree, VMs
<1>7. CASE Create /\ ~CreateCluster /\ ~CreateInfrastructure
  <2>1. UNCHANGED <<cluster, vm>>
    BY <1>7, BaseStep DEF BaseShape, Create, CreateSpec, DeleteResourceGroup,
         WaitForDeletion, WaitForFirstNode, KubectlApply, CreateNamespace,
         CreateObject, PollEnds, CreateEnds, api, masters
  <2> QED BY <2>1, <1>1
<1>8. CASE RunDelete \/ Interrupt \/ Watch \/ Start \/ DeleteGroup
             \/ AwaitDeletion \/ ApiError \/ Restart
  <2>1. UNCHANGED <<cluster, vm>>
    BY <1>8 DEF RunDelete, Interrupt, Watch, Start, DeleteGroup,
                AwaitDeletion, ApiError, Restart, api, masters
  <2> QED BY <2>1, <1>1
<1>9. ASSUME NEW m \in Masters, MasterStep(m)
      PROVE  KeysInv'
  <2>1. UNCHANGED <<cluster, vm>>
    BY <1>9 DEF MasterStep, KubeadmInit, Register, KubeadmJoin, NodeGone, api
  <2> QED BY <2>1, <1>1
<1>10. ASSUME NEW k \in Kinds, Succeed(k) PROVE KeysInv'
  <2>1. UNCHANGED <<cluster, vm>>
    BY <1>10 DEF Succeed, masters
  <2> QED BY <2>1, <1>1
<1>11. CASE UNCHANGED vars
  BY <1>11, <1>1 DEF vars, api, masters
<1> QED
  BY <1>2, <1>3, <1>4, <1>5, <1>6, <1>7, <1>8, <1>9, <1>10, <1>11, <1>12
     DEF Next, Reconcile

\* The keys in the Cluster object are those of every master, although each run
\* of "azk create" makes new ones before it looks at what exists.
THEOREM KeysAlwaysAgree == Spec => []KeysAgree
<1>1. Init => KeysInv
  BY DEF Init, KeysInv, SameKeys, Hosted, KeysAgree, VMs
<1>2. TypeOK /\ Numbered /\ KeysInv /\ [Next]_vars => KeysInv'
  BY KeysNext
<1>3. KeysInv => KeysAgree
  BY DEF KeysInv
<1> QED
  BY <1>1, <1>2, <1>3, Typing, PTL DEF Spec

-----------------------------------------------------------------------------
(* A cluster lives on.  Here "azk create" is run only where no Cluster      *)
(* exists, which azk itself does not check.                                 *)

\* A Cluster exists in the middle of a command only once RunCreate made it,
\* or when someone asked to delete it.
Expected ==
    cluster # Absent =>
      \/ cmd \in {"idle", "objects"}
      \/ asked /\ cmd \in {"cleanup", "cleaning"}

\* Between making the group and the Cluster RunCreate relies on the group.
Building == Network \cup {"address", "vmss", "nodes", "deploy", "namespace",
                         "cluster"}

\* A group is deleted because someone asked, or there is no Cluster, nor a
\* command that could come to create one.
Justified ==
    group = "deleting" =>
      asked \/ (cluster = Absent /\ (cmd \notin Building \/ VMs = {}))

\* What the controller deletes someone asked to delete.
Doomed(o) == o # Absent => (o.deleting => asked)

Ordered ==
    /\ Doomed(cluster) /\ Doomed(cache)
    /\ pc \in {"cleanup", "cleaning", "release"} => asked

KeptInv == Expected /\ Justified /\ Ordered

LEMMA SameKept ==
    ASSUME KeptInv,
           UNCHANGED <<cmd, group, cluster, cache, pc, asked>>,
           VMs = {} => VMs' = {} \/ group # "deleting"
    PROVE  KeptInv'
BY DEF KeptInv, Expected, Justified, Ordered, Doomed

LEMMA CreateKept ==
    ASSUME TypeOK, KeptInv, ~CanRepeat, Create PROVE KeptInv'
<1> USE DEF KeptInv, azure, masters, api, worker, history
<1>1. CASE CreateSpec
  <2>1. cluster = Absent /\ cmd' = "group"
    BY <1>1, Zenon DEF CreateSpec
  <2>2. UNCHANGED <<group, vm, cluster, cache, pc, asked>>
    BY <1>1, Zenon DEF CreateSpec
  <2> QED BY <2>1, <2>2
          DEF Expected, Justified, Building, Network, Ordered, Doomed, VMs
<1>2. CASE CreateBaseInfrastructure
  <2>1. UNCHANGED <<cluster, cache, pc, asked>> /\ VMs' = VMs
    BY <1>2, BaseStep DEF BaseShape, masters, VMs
  <2>2. cmd \notin {"idle", "objects", "cleanup", "cleaning"}
    BY <1>2, BaseStep DEF BaseShape, BaseCalls, Network
  <2>3. cluster = Absent
    BY <2>2 DEF Expected
  <2>4. group' = "deleting" => group = "deleting"
          /\ (cmd' \notin Building \/ cmd \in Building)
    <3>1. cmd # "group" => cmd \in Building
      BY <1>2, BaseStep DEF BaseShape, BaseCalls, Building
    <3>2. cmd' = "cleanup" => cmd' \notin Building
      BY DEF Building, Network
    <3> QED BY <1>2, <3>1, <3>2, BaseStep DEF BaseShape
  <2> QED BY <2>1, <2>3, <2>4 DEF Expected, Justified, Ordered, Doomed
<1>7. CASE CreateInfrastructure
  <2>1. UNCHANGED <<group, cluster, cache, pc, asked>>
    BY <1>7 DEF CreateInfrastructure, azure
  <2>2. cmd = "vmss" /\ cluster = Absent
    BY <1>7 DEF CreateInfrastructure, Expected
  <2>3. group = "deleting" => cmd' \notin Building
    BY <1>7 DEF CreateInfrastructure, Accepts, Step, Building, Network
  <2> QED BY <2>1, <2>2, <2>3 DEF Expected, Justified, Ordered, Doomed
<1>3. CASE DeleteResourceGroup \/ WaitForDeletion
  <2>1. UNCHANGED <<vm, cluster, cache, pc, asked>>
    BY <1>3 DEF DeleteResourceGroup, WaitForDeletion
  <2>2. /\ cmd \in {"cleanup", "cleaning"} /\ cmd' \in {"idle", "cleaning"}
        /\ cluster = Absent \/ asked
    BY <1>3 DEF DeleteResourceGroup, WaitForDeletion, Return, Step, Expected
  <2>3. Expected'
    BY <2>1, <2>2 DEF Expected
  <2>4. Justified'
    BY <2>1, <2>2 DEF Justified, Building, Network, VMs
  <2> QED BY <2>1, <2>3, <2>4 DEF Ordered, Doomed
<1>4. CASE WaitForFirstNode \/ KubectlApply \/ CreateNamespace
  <2>1. UNCHANGED <<group, vm, cluster, cache, pc, asked>>
    BY <1>4 DEF WaitForFirstNode, KubectlApply, CreateNamespace
  <2>2. cmd \in {"nodes", "deploy", "namespace"} /\ cluster = Absent
    BY <1>4 DEF WaitForFirstNode, KubectlApply, CreateNamespace, Expected
  <2> QED BY <2>1, <2>2 DEF Expected, Justified, Building, Network, Ordered, Doomed, VMs
<1>5. CASE CreateCluster
  <2>1. UNCHANGED <<group, vm, cache, pc, asked>>
    BY <1>5 DEF CreateCluster
  <2>2. cmd = "cluster" /\ cmd' \in {"idle", "objects"}
    BY <1>5 DEF CreateCluster, StartJobs, Return
  <2>3. cluster = Absent
    BY <2>2 DEF Expected
  <2>4. cluster' = Absent \/ cluster' = NewCluster
    BY <1>5, <2>3 DEF CreateCluster
  <2>5. Expected'
    BY <2>2 DEF Expected
  <2>6. Justified'
    <3>1. CASE cluster' = Absent
      BY <2>1, <2>2, <3>1 DEF Justified, Building, Network
    <3>2. CASE CanCreate
      <4>1. VMs # {}
        BY <3>2 DEF CanCreate, Reachable, Serving
      <4>2. cmd \in Building
        BY <2>2 DEF Building
      <4> QED BY <2>1, <2>3, <4>1, <4>2 DEF Justified
    <3> QED BY <1>5, <2>3, <3>1, <3>2 DEF CreateCluster
  <2>7. ~NewCluster.deleting
    BY DEF NewCluster
  <2>8. Ordered'
    BY <2>1, <2>4, <2>7 DEF Ordered, Doomed
  <2> QED BY <2>5, <2>6, <2>8
<1>6. CASE (\E k \in Kinds : CreateObject(k) \/ PollEnds(k)) \/ CreateEnds
  <2>1. UNCHANGED <<group, vm, cluster, cache, pc, asked>>
    BY <1>6 DEF CreateObject, PollEnds, CreateEnds
  <2>2. cmd = "objects" /\ cmd' \in {"idle", "objects"}
    BY <1>6 DEF CreateObject, PollEnds, CreateEnds, JobStep, Return
  <2> QED BY <2>1, <2>2 DEF Expected, Justified, Building, Network, Ordered, Doomed, VMs
<1> QED BY <1>1, <1>2, <1>3, <1>4, <1>5, <1>6, <1>7 DEF Create

LEMMA UpdateKept ==
    ASSUME TypeOK, KeptInv,
           AddFinalizer \/ ReportSucceeded \/ RemoveFinalizer \/ KubectlDelete
    PROVE  KeptInv'
<1> USE DEF KeptInv
<1>1. cluster = Absent => cluster' = Absent
  BY AbsentAssumption DEF AddFinalizer, ReportSucceeded, RemoveFinalizer,
     KubectlDelete, TypeOK
<1>2. UNCHANGED <<cmd, group, vm, cache>> /\ (asked => asked')
  BY DEF AddFinalizer, ReportSucceeded, RemoveFinalizer, KubectlDelete,
     command, azure, masters, history, worker, Finish, TypeOK
<1>3. Expected' /\ Justified'
  BY <1>1, <1>2 DEF Expected, Justified, VMs
<1>4. Ordered'
  <2>1. CASE AddFinalizer \/ ReportSucceeded
    <3>1. instance \in Object
      BY <2>1 DEF AddFinalizer, ReportSucceeded, TypeOK
    <3>2. pc' = "idle" /\ UNCHANGED asked
      BY <2>1 DEF AddFinalizer, ReportSucceeded, Finish, history
    <3>3. cluster' = cluster \/ (cluster = instance
            /\ cluster' \in {[instance EXCEPT !.finalizer = TRUE],
                             [instance EXCEPT !.state = "Succeeded"]})
      BY <2>1 DEF AddFinalizer, ReportSucceeded
    <3>4. Doomed(cluster')
      BY <3>1, <3>3, AbsentAssumption DEF Ordered, Doomed, Object
    <3> QED BY <1>2, <3>2, <3>4 DEF Ordered, Doomed
  <2>2. CASE RemoveFinalizer
    BY <1>2, <2>2 DEF RemoveFinalizer, Finish, history, Ordered, Doomed
  <2>3. CASE KubectlDelete
    BY <2>3 DEF KubectlDelete, Ordered, Doomed
  <2> QED BY <2>1, <2>2, <2>3
<1> QED BY <1>3, <1>4

LEMMA KeptNext ==
    ASSUME TypeOK, KeptInv, ~CanRepeat, [Next]_vars PROVE KeptInv'
<1> USE DEF command, azure, api, worker, history, masters, bounds
<1>1. CASE Create
  BY <1>1, CreateKept
<1>2. CASE RunDelete
  BY <1>2 DEF RunDelete, KeptInv, Expected, Justified, Ordered, Doomed
<1>3. CASE Interrupt
  BY <1>3 DEF Interrupt, Return, KeptInv, Expected, Justified, Building, Network,
              Ordered, Doomed
<1>4. CASE Start
  <2>1. pc' \in {"cleanup", "cleaning", "release"} =>
          cache # Absent /\ cache.deleting
    BY <1>4 DEF Start, NextStep
  <2>2. UNCHANGED <<cmd, group, vm, cluster, cache, asked>>
    BY <1>4 DEF Start
  <2> QED BY <2>1, <2>2 DEF KeptInv, Expected, Justified, Ordered, Doomed, VMs
<1>5. CASE DeleteGroup \/ AwaitDeletion
  <2>1. asked /\ UNCHANGED <<cmd, cluster, cache, asked>>
    BY <1>5 DEF DeleteGroup, AwaitDeletion, KeptInv, Ordered
  <2> QED BY <2>1 DEF KeptInv, Expected, Justified, Ordered, Doomed
<1>6. CASE AddFinalizer \/ ReportSucceeded \/ RemoveFinalizer \/ KubectlDelete
  BY <1>6, UpdateKept
<1>7. CASE ApiError \/ Watch \/ Restart
  <2>1. UNCHANGED <<cmd, group, vm, cluster, asked>>
    BY <1>7 DEF ApiError, Watch, Restart
  <2>2. (pc' = pc \/ pc' = "idle") /\ cache' \in {cache, cluster}
    BY <1>7 DEF ApiError, Watch, Restart, Finish
  <2> QED BY <2>1, <2>2 DEF KeptInv, Expected, Justified, Ordered, Doomed, VMs
<1>8. CASE VMSSGoes
  BY <1>8 DEF VMSSGoes, KeptInv, Expected, Justified, Ordered, Doomed, VMs
<1>13. CASE GroupGoes \/ DeletionFails
  BY <1>13 DEF GroupGoes, DeletionFails, KeptInv, Expected, Justified, Ordered,
               Doomed
<1>14. ASSUME NEW r \in Network, ResourceGoes(r) PROVE KeptInv'
  BY <1>14, SameKept DEF ResourceGoes, VMs
<1>9. CASE AddMasters
  BY <1>9, SameKept DEF AddMasters
<1>10. ASSUME NEW m \in Masters, MasterStep(m)
       PROVE  KeptInv'
  BY <1>10, SameKept
  DEF MasterStep, KubeadmInit, Register, KubeadmJoin, NodeGone, VMs
<1>11. ASSUME NEW k \in Kinds, Succeed(k) PROVE KeptInv'
  BY <1>11, SameKept DEF Succeed, VMs
<1>12. CASE UNCHANGED vars
  BY <1>12, SameKept DEF vars, VMs
<1> QED
  BY <1>1, <1>2, <1>3, <1>4, <1>5, <1>6, <1>7, <1>8, <1>9, <1>10, <1>11,
     <1>12, <1>13, <1>14 DEF Next, Reconcile

\* The members of etcd can be counted.
LEMMA Countable ==
    ASSUME NEW S \in SUBSET Masters
    PROVE  IsFiniteSet(S) /\ Cardinality(S) \in Nat
<1>1. IsFiniteSet(Masters)
  BY CountAssumption, FS_Interval DEF Masters
<1> QED BY <1>1, FS_Subset, FS_CardinalityType

LEMMA MoreServing ==
    ASSUME TypeOK, Alive, VMs \subseteq VMs', UNCHANGED etcd
    PROVE  Alive'
<1>1. Serving \subseteq Serving' /\ Serving' \in SUBSET Masters
  BY DEF Serving, VMs
<1>2. Serving \in SUBSET Masters /\ etcd \in SUBSET Masters
  BY DEF Serving, VMs, TypeOK
<1>3. Cardinality(Serving) <= Cardinality(Serving')
  BY <1>1, Countable, FS_Subset
<1>4. /\ Cardinality(Serving) \in Nat /\ Cardinality(Serving') \in Nat
      /\ Cardinality(etcd) \in Nat
  BY <1>1, <1>2, Countable
<1> QED BY <1>3, <1>4 DEF Alive

LEMMA OneMoreMember ==
    ASSUME TypeOK, Alive, NEW m \in Masters, KubeadmJoin(m)
    PROVE  Alive'
<1>1. m \in VMs \ etcd /\ etcd' = etcd \cup {m} /\ vm' = vm
  BY DEF KubeadmJoin
<1>2. Serving' = Serving \cup {m} /\ m \notin Serving
  BY <1>1 DEF Serving, VMs
<1>3. Serving \in SUBSET Masters /\ etcd \in SUBSET Masters
  BY DEF Serving, VMs, TypeOK
<1>4. Cardinality(Serving') = Cardinality(Serving) + 1
  BY <1>2, <1>3, Countable, FS_AddElement
<1>5. Cardinality(etcd') = Cardinality(etcd) + 1
  BY <1>1, <1>3, Countable, FS_AddElement
<1>6. Cardinality(Serving) \in Nat /\ Cardinality(etcd) \in Nat
  BY <1>3, Countable
<1> QED BY <1>4, <1>5, <1>6 DEF Alive

LEMMA StaysAlive ==
    ASSUME TypeOK, KeptInv, [Next]_vars, Alive, cluster # Absent, ~asked
    PROVE  Alive'
<1> USE DEF masters
<1>1. CASE UNCHANGED <<vm, etcd>>
  BY <1>1, MoreServing DEF VMs
<1>2. CASE CreateInfrastructure
  BY <1>2 DEF CreateInfrastructure, KeptInv, Expected
<1>3. CASE VMSSGoes
  BY <1>3 DEF VMSSGoes, KeptInv, Justified
<1>11. CASE GroupGoes \/ DeletionFails \/ \E r \in Network : ResourceGoes(r)
  <2>1. UNCHANGED <<vm, etcd>>
    BY <1>11 DEF GroupGoes, DeletionFails, ResourceGoes
  <2> QED BY <2>1, <1>1
<1>4. CASE AddMasters
  <2>1. VMs \subseteq VMs' /\ etcd' = etcd
    BY <1>4 DEF AddMasters, VMs
  <2> QED BY <2>1, MoreServing
<1>5. ASSUME NEW m \in Masters, KubeadmInit(m) PROVE Alive'
  <2>1. etcd = {} /\ Serving = {}
    BY <1>5 DEF KubeadmInit, Serving
  <2>2. ~Alive
    BY <2>1, FS_EmptySet DEF Alive
  <2> QED BY <2>2
<1>6. ASSUME NEW m \in Masters, KubeadmJoin(m) PROVE Alive'
  BY <1>6, OneMoreMember
<1>12. ASSUME NEW m \in Masters, Register(m) \/ NodeGone(m) PROVE Alive'
  BY <1>12, <1>1 DEF Register, NodeGone
<1>7. CASE Create /\ ~CreateInfrastructure
  <2>1. UNCHANGED <<vm, etcd>>
    BY <1>7, BaseStep DEF BaseShape, Create, CreateSpec, DeleteResourceGroup,
         WaitForDeletion, WaitForFirstNode, KubectlApply, CreateNamespace,
         CreateCluster, CreateObject, PollEnds, CreateEnds
  <2> QED BY <2>1, <1>1
<1>8. CASE RunDelete \/ Interrupt \/ Reconcile \/ AwaitDeletion \/ ApiError
             \/ Watch \/ Restart \/ KubectlDelete
  <2>1. UNCHANGED <<vm, etcd>>
    BY <1>8 DEF RunDelete, Interrupt, Reconcile, Start, AddFinalizer,
         ReportSucceeded, DeleteGroup, RemoveFinalizer, AwaitDeletion,
         ApiError, Watch, Restart, KubectlDelete
  <2> QED BY <2>1, <1>1
<1>9. ASSUME NEW k \in Kinds, Succeed(k) PROVE Alive'
  BY <1>9, <1>1 DEF Succeed
<1>10. CASE UNCHANGED vars
  BY <1>10, <1>1 DEF vars
<1> QED
  BY <1>2, <1>3, <1>4, <1>5, <1>6, <1>7, <1>8, <1>9, <1>10, <1>11, <1>12
     DEF Next, MasterStep

\* Where "azk create" is not run again for a Cluster that exists, a cluster
\* nobody asked to delete keeps its API server, whatever fails, restarts or is
\* interrupted, and however often a creation failed before.
THEOREM ClusterLivesOn ==
    ASSUME ~CanRepeat
    PROVE  Spec => ClusterKept
<1>1. Init => KeptInv
  BY DEF Init, KeptInv, Expected, Justified, Ordered, Doomed
<1>2. TypeOK /\ KeptInv /\ [Next]_vars => KeptInv'
  BY KeptNext
<1>3. TypeOK /\ KeptInv /\ [Next]_vars
        => [Alive /\ cluster # Absent /\ ~asked => Alive']_vars
  BY StaysAlive
<1> QED
  BY <1>1, <1>2, <1>3, Typing, PTL DEF Spec, ClusterKept
-----------------------------------------------------------------------------
(* What azk says is gone                                                    *)

Empty == group = "none" => VMs = {}
Silent == cmd # "idle" => outcome \in {"", "deleting"}
GivenUp == cmd = "cleaning" /\ group = "there" => leaked

SaidInv == Empty /\ Silent /\ GivenUp /\ SaidGone

LEMMA AliveHasVMs == ASSUME TypeOK, Alive PROVE VMs # {}
<1> SUFFICES ASSUME VMs = {} PROVE FALSE
  OBVIOUS
<1>1. Serving = {} /\ etcd \in SUBSET Masters
  BY DEF Serving, TypeOK
<1>2. Cardinality(Serving) = 0 /\ Cardinality(etcd) \in Nat
  BY <1>1, FS_EmptySet, Countable
<1> QED BY <1>2 DEF Alive

LEMMA SameSaid ==
    ASSUME SaidInv, UNCHANGED <<cmd, outcome, group, vm, leaked>>
    PROVE  SaidInv'
BY DEF SaidInv, Empty, Silent, GivenUp, SaidGone, VMs

\* A step of azk to another call says nothing and leaves the group alone.
LEMMA StepSaid ==
    ASSUME SaidInv, NEW c, Step(c), c # "cleaning", cmd # "idle",
           UNCHANGED <<vm, leaked>>,
           UNCHANGED group \/ group' = "there"
    PROVE  SaidInv'
BY DEF SaidInv, Empty, Silent, GivenUp, SaidGone, Step, VMs

LEMMA ReturnSaid ==
    ASSUME SaidInv, NEW o, Return(o), UNCHANGED <<group, vm, leaked>>,
           o \notin {"deleted", "cleaned"}
    PROVE  SaidInv'
BY DEF SaidInv, Empty, Silent, GivenUp, SaidGone, Return, VMs

LEMMA CreateSaid ==
    ASSUME TypeOK, SaidInv, Create PROVE SaidInv'
<1> USE DEF azure, masters, history
<1>1. CASE CreateSpec
  BY <1>1 DEF CreateSpec, SaidInv, Empty, Silent, GivenUp, SaidGone, VMs
<1>2. CASE CreateBaseInfrastructure
  <2>1. cmd # "idle" /\ cmd' # "cleaning"
    BY <1>2, BaseStep DEF BaseShape, BaseCalls, Network
  <2> QED BY <1>2, <2>1, BaseStep, StepSaid DEF BaseShape
<1>3. CASE CreateInfrastructure
  <2>1. group' = group /\ leaked' = leaked /\ cmd' # "cleaning" /\ Step(cmd')
        /\ cmd # "idle"
    BY <1>3 DEF CreateInfrastructure, Step
  <2>2. CASE UNCHANGED vm
    BY <2>1, <2>2, StepSaid
  <2>3. CASE group = "there"
    BY <2>1, <2>3 DEF SaidInv, Empty, Silent, GivenUp, SaidGone, Step
  <2> QED BY <1>3, <2>2, <2>3 DEF CreateInfrastructure, Accepts
<1>4. CASE DeleteResourceGroup
  <2>1. cmd # "idle" /\ UNCHANGED vm
    BY <1>4 DEF DeleteResourceGroup
  <2>2. CASE group # "none" /\ group' = "deleting" /\ Step("cleaning")
             /\ UNCHANGED leaked
    BY <2>1, <2>2 DEF SaidInv, Empty, Silent, GivenUp, SaidGone, Step
  <2>3. CASE /\ group = "none" \/ leaked' = TRUE
             /\ Return(Answer(FALSE)) /\ UNCHANGED group
    BY <2>1, <2>3
       DEF SaidInv, Empty, Silent, GivenUp, SaidGone, Return, Answer, VMs
  <2> QED BY <1>4, <2>2, <2>3 DEF DeleteResourceGroup
<1>5. CASE WaitForDeletion
  <2>1. cmd = "cleaning" /\ UNCHANGED <<vm, group>> /\ cmd' = "idle"
    BY <1>5 DEF WaitForDeletion, Return
  <2>2. CASE DeletionOver /\ outcome' = Answer(TRUE) /\ UNCHANGED leaked
    BY <2>1, <2>2 DEF DeletionOver, SaidInv, Empty, Silent, GivenUp, SaidGone,
                      VMs
  <2>3. CASE leaked' = TRUE /\ outcome' = Answer(FALSE)
    BY <2>1, <2>3 DEF Answer, SaidInv, Empty, Silent, GivenUp, SaidGone, VMs
  <2>4. CASE group = "there" /\ outcome' = Answer(FALSE) /\ UNCHANGED leaked
    BY <2>1, <2>4 DEF Answer, SaidInv, Empty, Silent, GivenUp, SaidGone, VMs
  <2> QED BY <1>5, <2>2, <2>3, <2>4 DEF WaitForDeletion, Return
<1>6. CASE WaitForFirstNode
  BY <1>6, StepSaid, ReturnSaid DEF WaitForFirstNode
<1>7. CASE KubectlApply
  BY <1>7, StepSaid DEF KubectlApply
<1>8. CASE CreateNamespace
  BY <1>8, StepSaid, ReturnSaid DEF CreateNamespace
<1>9. CASE CreateCluster
  BY <1>9, ReturnSaid
     DEF CreateCluster, StartJobs, SaidInv, Empty, Silent, GivenUp, SaidGone, VMs
<1>10. ASSUME NEW k \in Kinds, CreateObject(k) \/ PollEnds(k) PROVE SaidInv'
  BY <1>10, SameSaid DEF CreateObject, PollEnds, JobStep
<1>11. CASE CreateEnds
  BY <1>11, ReturnSaid DEF CreateEnds
<1> QED
  BY <1>1, <1>2, <1>3, <1>4, <1>5, <1>6, <1>7, <1>8, <1>9, <1>10, <1>11
     DEF Create

LEMMA SaidNext == ASSUME TypeOK, SaidInv, [Next]_vars PROVE SaidInv'
<1> USE DEF command, azure, masters, history
<1>1. CASE Create
  BY <1>1, CreateSaid
<1>2. CASE RunDelete
  BY <1>2 DEF RunDelete, SaidInv, Empty, Silent, GivenUp, SaidGone, VMs
<1>3. CASE Interrupt
  BY <1>3, ReturnSaid DEF Interrupt
<1>4. CASE DeleteGroup
  <2>1. VMs # {}
    BY <1>4, AliveHasVMs DEF DeleteGroup, Running
  <2>2. group # "none" /\ group' \in {group, "deleting"}
        /\ (leaked => leaked') /\ UNCHANGED <<cmd, outcome, vm>>
    BY <1>4, <2>1 DEF DeleteGroup, SaidInv, Empty
  <2> QED BY <2>1, <2>2 DEF SaidInv, Empty, Silent, GivenUp, SaidGone, VMs
<1>5. CASE AwaitDeletion \/ DeletionFails
  BY <1>5 DEF AwaitDeletion, DeletionFails, SaidInv, Empty, Silent, GivenUp,
              SaidGone, VMs
<1>6. CASE VMSSGoes
  BY <1>6 DEF VMSSGoes, SaidInv, Empty, Silent, GivenUp, SaidGone, VMs
<1>7. CASE GroupGoes
  BY <1>7 DEF GroupGoes, SaidInv, Empty, Silent, GivenUp, SaidGone, VMs
<1>8. CASE AddMasters
  BY <1>8 DEF AddMasters, SaidInv, Empty, Silent, GivenUp, SaidGone
<1>9. CASE Start \/ AddFinalizer \/ ReportSucceeded \/ RemoveFinalizer
             \/ ApiError \/ Watch \/ Restart \/ KubectlDelete
  BY <1>9, SameSaid DEF Start, AddFinalizer, ReportSucceeded, RemoveFinalizer,
     ApiError, Watch, Restart, KubectlDelete
<1>10. ASSUME NEW r \in Network, ResourceGoes(r) PROVE SaidInv'
  BY <1>10, SameSaid DEF ResourceGoes
<1>11. ASSUME NEW m \in Masters, MasterStep(m)
       PROVE  SaidInv'
  BY <1>11, SameSaid
  DEF MasterStep, KubeadmInit, Register, KubeadmJoin, NodeGone
<1>12. ASSUME NEW k \in Kinds, Succeed(k) PROVE SaidInv'
  BY <1>12, SameSaid DEF Succeed
<1>13. CASE UNCHANGED vars
  BY <1>13, SameSaid DEF vars
<1> QED
  BY <1>1, <1>2, <1>3, <1>4, <1>5, <1>6, <1>7, <1>8, <1>9, <1>10, <1>11,
     <1>12, <1>13 DEF Next, Reconcile

\* "Successfully Deleted" and "Successfully cleanup up" are said of a group that
\* is gone, until another creation makes it again; but the second, whose error
\* azk drops, also after a deletion that failed.
THEOREM GoneIsGone == Spec => []SaidGone
<1>1. Init => SaidInv
  BY DEF Init, SaidInv, Empty, Silent, GivenUp, SaidGone, VMs
<1>2. TypeOK /\ SaidInv /\ [Next]_vars => SaidInv'
  BY SaidNext
<1>3. SaidInv => SaidGone
  BY DEF SaidInv
<1> QED
  BY <1>1, <1>2, <1>3, Typing, PTL DEF Spec

-----------------------------------------------------------------------------
(* What Bootstrap refers to                                                 *)

\* The resources made before step c.
Made(c) ==
    CASE c = "azk-master-nsg" -> {"azk-nsg"}
      [] c = "azk-routetable" -> {"azk-nsg", "azk-master-nsg"}
      [] c = "azk-vnet" -> {"azk-nsg", "azk-master-nsg", "azk-routetable"}
      [] c = "azk-internal-lb" ->
           {"azk-nsg", "azk-master-nsg", "azk-routetable", "azk-vnet"}
      [] c = "azk-publicip" -> Network \ {"azk-publicip", "azk-lb"}
      [] c = "azk-lb" -> Network \ {"azk-lb"}
      [] c \in {"address", "vmss"} -> Network
      [] OTHER -> {}

MadeInv == group = "there" /\ ~leaked => Made(cmd) \subseteq net

LEMMA MadeEnough ==
    ASSUME NEW c \in Network \cup {"address", "vmss"}
    PROVE  Needs(c) \subseteq Made(c)
BY DEF Needs, Made, Network

\* Outside of Bootstrap nothing is needed.
LEMMA MadeNothing ==
    ASSUME NEW c, c \notin Network \cup {"address", "vmss"} PROVE Made(c) = {}
BY DEF Made, Network

LEMMA SameMade ==
    ASSUME MadeInv,
           cmd' = cmd \/ cmd' \notin Network \cup {"address", "vmss"},
           group' = "there" => group = "there" \/ leaked', net \subseteq net',
           leaked => leaked'
    PROVE  MadeInv'
<1>1. CASE cmd' = cmd
  BY <1>1 DEF MadeInv
<1>2. CASE cmd' \notin Network \cup {"address", "vmss"}
  BY <1>2, MadeNothing DEF MadeInv
<1> QED BY <1>1, <1>2

LEMMA EstablishMade ==
    ASSUME MadeInv, NEW r, NEW next, Made(next) \subseteq Made(r) \cup {r},
           Establish(r, next)
    PROVE  MadeInv'
<1>1. /\ cmd = r /\ UNCHANGED <<group, leaked>>
      /\ \/ cmd' = next /\ net' = net \cup {r}
         \/ cmd' = "cleanup" /\ net \subseteq net'
  BY DEF Establish, Step, history
<1>2. CASE cmd' = next /\ net' = net \cup {r}
  BY <1>1, <1>2 DEF MadeInv
<1>3. CASE cmd' = "cleanup" /\ net \subseteq net'
  BY <1>1, <1>3, SameMade DEF Network
<1> QED BY <1>1, <1>2, <1>3

LEMMA BaseMade == ASSUME MadeInv, CreateBaseInfrastructure PROVE MadeInv'
<1>1. CASE CreateOrUpdateResourceGroup
  <2>1. cmd' \in {"azk-nsg", "cleanup"}
    BY <1>1 DEF CreateOrUpdateResourceGroup, Step
  <2>2. Made(cmd') = {}
    BY <2>1 DEF Made, Network
  <2> QED BY <2>2 DEF MadeInv
<1>2. CASE GetPublicIP
  <2>1. cmd = "address" /\ cmd' \in {"vmss", "cleanup"}
        /\ UNCHANGED <<group, net, leaked>>
    BY <1>2 DEF GetPublicIP, Step, azure, history
  <2>2. Made(cmd') \subseteq Made(cmd)
    BY <2>1 DEF Made, Network
  <2> QED BY <2>1, <2>2 DEF MadeInv
<1>3. CASE CreateDefaultNetworkSecurityGroup
  BY <1>3, EstablishMade DEF CreateDefaultNetworkSecurityGroup, Made, Network
<1>4. CASE CreateNetworkSecurityGroup
  BY <1>4, EstablishMade DEF CreateNetworkSecurityGroup, Made, Network
<1>5. CASE CreateRouteTables
  BY <1>5, EstablishMade DEF CreateRouteTables, Made, Network
<1>6. CASE CreateVirtualNetworkAndSubnets
  BY <1>6, EstablishMade DEF CreateVirtualNetworkAndSubnets, Made, Network
<1>7. CASE CreateInternalLoadBalancer
  BY <1>7, EstablishMade DEF CreateInternalLoadBalancer, Made, Network
<1>8. CASE CreatePublicIP
  BY <1>8, EstablishMade DEF CreatePublicIP, Made, Network
<1>9. CASE CreateLoadBalancer
  BY <1>9, EstablishMade DEF CreateLoadBalancer, Made, Network
<1> QED
  BY <1>1, <1>2, <1>3, <1>4, <1>5, <1>6, <1>7, <1>8, <1>9
     DEF CreateBaseInfrastructure

LEMMA MadeNext == ASSUME TypeOK, MadeInv, [Next]_vars PROVE MadeInv'
<1> USE DEF command, azure, history
<1>1. CASE CreateBaseInfrastructure
  BY <1>1, BaseMade
<1>2. CASE CreateSpec \/ CreateInfrastructure \/ WaitForFirstNode
             \/ KubectlApply \/ CreateNamespace \/ CreateCluster
             \/ CreateEnds \/ RunDelete \/ Interrupt
  <2>1. cmd' \notin Network \cup {"address", "vmss"}
    BY <1>2 DEF CreateSpec, CreateInfrastructure, WaitForFirstNode,
       KubectlApply, CreateNamespace, CreateCluster, CreateEnds, RunDelete,
       Interrupt, Step, Return, StartJobs, Network
  <2> QED BY <2>1, MadeNothing DEF MadeInv
<1>3. CASE DeleteResourceGroup \/ WaitForDeletion
  <2>1. cmd' \in {"idle", "cleaning"}
    BY <1>3 DEF DeleteResourceGroup, WaitForDeletion, Step, Return
  <2> QED BY <2>1, MadeNothing DEF MadeInv, Network
<1>4. ASSUME NEW k \in Kinds, CreateObject(k) \/ PollEnds(k) PROVE MadeInv'
  BY <1>4, SameMade DEF CreateObject, PollEnds, JobStep
<1>5. CASE Start \/ AddFinalizer \/ ReportSucceeded \/ RemoveFinalizer
             \/ ApiError \/ Watch \/ Restart \/ KubectlDelete
  <2>1. UNCHANGED <<cmd, group, net, leaked>>
    BY <1>5 DEF Start, AddFinalizer, ReportSucceeded, RemoveFinalizer,
       ApiError, Watch, Restart, KubectlDelete
  <2> QED BY <2>1, SameMade
<1>6. CASE DeleteGroup \/ AwaitDeletion \/ VMSSGoes \/ DeletionFails
  BY <1>6, SameMade DEF DeleteGroup, AwaitDeletion, VMSSGoes, DeletionFails
<1>7. CASE GroupGoes \/ \E r \in Network : ResourceGoes(r)
  BY <1>7 DEF GroupGoes, ResourceGoes, MadeInv
<1>8. CASE AddMasters
  BY <1>8, SameMade DEF AddMasters
<1>9. ASSUME NEW m \in Masters, MasterStep(m)
      PROVE  MadeInv'
  BY <1>9, SameMade
  DEF MasterStep, KubeadmInit, Register, KubeadmJoin, NodeGone
<1>10. ASSUME NEW k \in Kinds, Succeed(k) PROVE MadeInv'
  BY <1>10, SameMade DEF Succeed
<1>11. CASE UNCHANGED vars
  BY <1>11, SameMade DEF vars
<1> QED
  BY <1>1, <1>2, <1>3, <1>4, <1>5, <1>6, <1>7, <1>8, <1>9, <1>10, <1>11
     DEF Next, Create, Reconcile

\* No request of Bootstrap lacks what it refers to, whatever an earlier run, an
\* interrupt or a deletion left in the group.
THEOREM NetworkPrepared == Spec => []Prepared
<1>1. Init => MadeInv
  BY DEF Init, MadeInv
<1>2. TypeOK /\ MadeInv /\ [Next]_vars => MadeInv'
  BY MadeNext
<1>3. MadeInv => Prepared
  BY MadeEnough DEF MadeInv, Prepared
<1> QED
  BY <1>1, <1>2, <1>3, Typing, PTL DEF Spec
=============================================================================
