------------------------- MODULE ClusterRefinement -------------------------
(***************************************************************************)
(* The control plane of Cluster lives by ControlPlaneContract, for every   *)
(* number of masters and every number of creations, deletions and failures:*)
(* what "azk create" and the resource group do to the masters leaves them  *)
(* such as the ControlPlane controller may find and report them.           *)
(***************************************************************************)
EXTENDS ClusterProofs

\* Members of etcd and Nodes were VMs, and Nodes and objects are stored in etcd.
Stored ==
    /\ VMs = {} => etcd = {}
    /\ etcd = {} => nodes = {} /\ object["ControlPlane"] = "none"

\* Until there is a ControlPlane, there is one master: "azk create" makes it and
\* on a second run keeps one, and the controller has nothing to add to.
Alone ==
    object["ControlPlane"] = "none" =>
      /\ \A m, n \in VMs : m = n
      /\ etcd \subseteq VMs /\ nodes \subseteq VMs

\* The run of "azk create" that asks for a ControlPlane has found a Node.
AfterWait == {"deploy", "namespace", "cluster", "objects"}
Waited ==
    cmd \in AfterWait /\ object["ControlPlane"] = "none" /\ VMs # {}
      => nodes # {}

\* After the report a master may lose its VM, and then its Node; no other comes.
Complete == object["ControlPlane"] = "Succeeded" => VMs \subseteq nodes

LifeInv == Stored /\ Alone /\ Waited /\ Complete

LEMMA InitLife == Init => LifeInv
<1> SUFFICES ASSUME Init PROVE LifeInv
  OBVIOUS
<1>1. /\ object["ControlPlane"] = "none" /\ etcd = {} /\ nodes = {}
      /\ VMs = {} /\ cmd = "idle"
  BY DEF Init, Kinds, VMs
<1> QED
  BY <1>1 DEF LifeInv, Stored, Alone, Waited, AfterWait, Complete

LEMMA SameLife ==
    ASSUME LifeInv, UNCHANGED <<vm, etcd, nodes, object>>,
           cmd' \in AfterWait => cmd \in AfterWait \/ nodes # {}
    PROVE  LifeInv'
<1>1. VMs' = VMs
  BY DEF VMs
<1> QED
  BY <1>1 DEF LifeInv, Stored, Alone, Waited, AfterWait, Complete

LEMMA AliveServes == ASSUME TypeOK, Alive PROVE Serving # {}
<1> SUFFICES ASSUME Serving = {} PROVE FALSE
  OBVIOUS
<1>1. IsFiniteSet(Masters)
  BY CountAssumption, FS_Interval DEF Masters
<1>2. IsFiniteSet(etcd)
  BY <1>1, FS_Subset DEF TypeOK
<1>3. Cardinality(etcd) \in Nat
  BY <1>2, FS_CardinalityType
<1>4. Cardinality({}) = 0
  BY FS_EmptySet
<1> QED
  BY <1>3, <1>4 DEF Alive

\* As many Nodes as masters are the Nodes of all the masters.
LEMMA AllRegistered ==
    ASSUME TypeOK, Cardinality(nodes) >= Count PROVE nodes = Masters
<1>1. Count \in Nat
  BY CountAssumption
<1>2. IsFiniteSet(Masters) /\ Cardinality(Masters) = Count
  <2>1. Cardinality(1 .. Count) = IF 1 > Count THEN 0 ELSE Count - 1 + 1
    BY <1>1, FS_Interval
  <2>2. IsFiniteSet(1 .. Count)
    BY <1>1, FS_Interval
  <2> QED
    BY <1>1, <2>1, <2>2, CountAssumption DEF Masters
<1>3. nodes \in SUBSET Masters
  BY DEF TypeOK
<1>4. /\ IsFiniteSet(nodes) /\ Cardinality(nodes) <= Cardinality(Masters)
      /\ Cardinality(nodes) = Cardinality(Masters) => nodes = Masters
  BY <1>2, <1>3, FS_Subset
<1>5. Cardinality(nodes) \in Nat
  BY <1>4, FS_CardinalityType
<1> QED
  BY <1>1, <1>2, <1>4, <1>5

\* Of the steps of the commands and the manager, these alone matter here.
Quiet ==
    \/ Create /\ ~CreateInfrastructure
              /\ ~(\E k \in Kinds : CreateObject(k))
    \/ RunDelete \/ Interrupt
    \/ Reconcile \/ AwaitDeletion \/ ApiError \/ Watch \/ Restart
    \/ KubectlDelete \/ GroupGoes \/ DeletionFails
    \/ \E r \in Network : ResourceGoes(r)

LEMMA QuietSteps ==
    Quiet => /\ UNCHANGED <<vm, etcd, nodes, object>>
             /\ cmd' \in AfterWait => cmd \in AfterWait \/ nodes # {}
<1>1. ASSUME Create, ~CreateInfrastructure, ~(\E k \in Kinds : CreateObject(k))
      PROVE  UNCHANGED <<vm, etcd, nodes, object>>
  BY <1>1, BaseStep
  DEF BaseShape, Create, CreateSpec, DeleteResourceGroup, WaitForDeletion,
      WaitForFirstNode, KubectlApply, CreateNamespace, CreateCluster, PollEnds,
      CreateEnds, api, masters
<1>2. ASSUME Create, ~CreateInfrastructure, ~(\E k \in Kinds : CreateObject(k))
      PROVE  cmd' \in AfterWait => cmd \in AfterWait \/ nodes # {}
  <2>1. CASE CreateBaseInfrastructure
    BY <2>1, BaseStep DEF BaseShape, AfterWait, Network
  <2>2. CASE CreateSpec \/ DeleteResourceGroup \/ WaitForDeletion \/ CreateEnds
    BY <2>2
    DEF CreateSpec, DeleteResourceGroup, WaitForDeletion, CreateEnds, Step,
        Return, AfterWait
  <2>3. CASE WaitForFirstNode
    BY <2>3 DEF WaitForFirstNode, Return, AfterWait
  <2>4. CASE KubectlApply \/ CreateNamespace \/ CreateCluster
    BY <2>4 DEF KubectlApply, CreateNamespace, CreateCluster, AfterWait
  <2>5. ASSUME NEW k \in Kinds, PollEnds(k) PROVE cmd' = cmd
    BY <2>5 DEF PollEnds, JobStep
  <2> QED
    BY <1>2, <2>1, <2>2, <2>3, <2>4, <2>5 DEF Create
<1>3. CASE RunDelete \/ Interrupt \/ KubectlDelete \/ GroupGoes \/ DeletionFails
           \/ \E r \in Network : ResourceGoes(r)
  BY <1>3 DEF RunDelete, Interrupt, Return, KubectlDelete, GroupGoes,
              DeletionFails, ResourceGoes, api, masters, command, AfterWait
<1>4. CASE Reconcile \/ AwaitDeletion \/ ApiError \/ Watch \/ Restart
  BY <1>4 DEF Reconcile, Start, AddFinalizer, ReportSucceeded, DeleteGroup,
              AwaitDeletion, RemoveFinalizer, ApiError, Watch, Restart, api,
              masters, command
<1> QED
  BY <1>1, <1>2, <1>3, <1>4 DEF Quiet

LEMMA InfrastructureLife ==
    ASSUME TypeOK, Numbered, LifeInv, CreateInfrastructure
    PROVE  LifeInv' /\ UNCHANGED <<etcd, nodes, object>>
<1>1. UNCHANGED <<etcd, nodes, object>> /\ cmd' \notin AfterWait
  BY DEF CreateInfrastructure, Step, AfterWait, api
<1>2. CASE UNCHANGED vm
  BY <1>1, <1>2, SameLife
<1>3. CASE VMs = {} /\ vm' = [vm EXCEPT ![Bootstrap] = creates]
  <2>1. \A m, n \in VMs' : m = n
    <3>1. \A m \in Masters : m # Bootstrap => vm'[m] = None
      BY <1>3 DEF VMs, TypeOK
    <3> QED
      BY <3>1 DEF VMs
  <2>2. etcd' = {} /\ nodes' = {} /\ object'["ControlPlane"] = "none"
    BY <1>1, <1>3 DEF LifeInv, Stored
  <2> QED
    BY <1>1, <2>1, <2>2 DEF LifeInv, Stored, Alone, Waited, Complete
<1>4. ASSUME NEW s \in VMs,
             vm' = [m \in Masters |-> IF m = s THEN vm[m] ELSE None]
      PROVE  LifeInv'
  <2>1. VMs' = {s}
    BY <1>4 DEF VMs
  <2>2. object["ControlPlane"] = "none" => etcd \subseteq {s} /\ nodes \subseteq {s}
    BY <1>4 DEF LifeInv, Alone
  <2>3. object["ControlPlane"] = "Succeeded" => s \in nodes
    BY <1>4 DEF LifeInv, Complete
  <2> QED
    BY <1>1, <2>1, <2>2, <2>3 DEF LifeInv, Stored, Alone, Waited, Complete
<1> QED
  BY <1>1, <1>2, <1>3, <1>4 DEF CreateInfrastructure, OneMaster

LEMMA MasterLife ==
    ASSUME TypeOK, LifeInv, NEW m \in Masters, MasterStep(m)
    PROVE  LifeInv'
<1> USE DEF LifeInv, Stored, Alone, Waited, Complete
<1>1. VMs' = VMs /\ UNCHANGED <<vm, object, cmd>>
  BY DEF MasterStep, KubeadmInit, Register, KubeadmJoin, NodeGone, VMs, api,
         command
<1>2. CASE KubeadmInit(m)
  <2>1. /\ m \in VMs /\ etcd = {} /\ etcd' = {m} /\ nodes' = nodes
    BY <1>2 DEF KubeadmInit, VMs
  <2>2. object["ControlPlane"] = "none" /\ nodes = {}
    BY <2>1
  <2> QED
    BY <1>1, <2>1, <2>2
<1>3. CASE Register(m)
  <2>1. /\ m \in VMs /\ nodes' = nodes \cup {m} /\ etcd' = etcd
    BY <1>3 DEF Register
  <2>2. etcd # {}
    BY <1>3, AliveServes DEF Register, Serving
  <2> QED
    BY <1>1, <2>1, <2>2
<1>4. CASE KubeadmJoin(m)
  <2>1. /\ m \in VMs /\ etcd' = etcd \cup {m} /\ nodes' = nodes
    BY <1>4 DEF KubeadmJoin
  <2> QED
    BY <1>1, <2>1
<1>5. CASE NodeGone(m)
  <2>1. m \in nodes /\ m \notin VMs /\ nodes' = nodes \ {m} /\ etcd' = etcd
    BY <1>5 DEF NodeGone
  <2>2. object["ControlPlane"] # "none"
    BY <2>1
  <2> QED
    BY <1>1, <2>1, <2>2
<1> QED
  BY <1>2, <1>3, <1>4, <1>5 DEF MasterStep

LEMMA NextLife ==
    ASSUME TypeOK, Numbered, LifeInv, [Next]_vars
    PROVE  LifeInv'
<1>1. CASE CreateInfrastructure
  BY <1>1, InfrastructureLife
<1>2. ASSUME NEW k \in Kinds, CreateObject(k) PROVE LifeInv'
  <2>1. UNCHANGED <<vm, etcd, nodes, cmd>>
    BY <1>2 DEF CreateObject, JobStep, masters
  <2>2. CASE UNCHANGED object
    BY <2>1, <2>2, SameLife
  <2>3. CASE CanAsk(k) /\ object' = AskFor(k)
    <3>1. etcd # {}
      BY <2>3, AliveServes DEF CanAsk, Reachable, Serving
    <3>2. object'["ControlPlane"] \in {object["ControlPlane"], "asked"}
      BY <2>3 DEF AskFor, TypeOK, Kinds
    <3>3. VMs' = VMs
      BY <2>1 DEF VMs
    <3> QED
      BY <2>1, <3>1, <3>2, <3>3 DEF LifeInv, Stored, Alone, Waited, Complete
  <2> QED
    BY <1>2, <2>2, <2>3 DEF CreateObject
<1>3. CASE VMSSGoes
  <2>1. /\ object'["ControlPlane"] = "none" /\ etcd' = {} /\ nodes' = {}
        /\ VMs' = {}
    BY <1>3 DEF VMSSGoes, Kinds, VMs
  <2> QED
    BY <2>1 DEF LifeInv, Stored, Alone, Waited, Complete
<1>4. ASSUME NEW m \in Masters, MasterStep(m) PROVE LifeInv'
  BY <1>4, MasterLife
<1>5. CASE AddMasters
  <2>1. /\ VMs \subseteq VMs' /\ object["ControlPlane"] = "asked"
        /\ UNCHANGED <<etcd, nodes, object>>
    BY <1>5 DEF AddMasters, Controlled, VMs, api
  <2>2. VMs # {}
    BY <1>5, AliveServes DEF AddMasters, Controlled, Running, Serving
  <2> QED
    BY <2>1, <2>2 DEF LifeInv, Stored, Alone, Waited, Complete
<1>6. ASSUME NEW k \in Kinds, Succeed(k) PROVE LifeInv'
  <2>1. /\ UNCHANGED <<vm, etcd, nodes, cmd>>
        /\ object' = [object EXCEPT ![k] = "Succeeded"]
    BY <1>6 DEF Succeed, masters, command
  <2>2. CASE k = "ControlPlane"
    <3>1. object["ControlPlane"] = "asked" /\ nodes = Masters
      BY <1>6, <2>2, AllRegistered DEF Succeed, Controlled
    <3>2. object'["ControlPlane"] = "Succeeded"
      BY <2>1, <2>2 DEF TypeOK
    <3>3. VMs' = VMs /\ VMs \subseteq nodes
      BY <2>1, <3>1 DEF VMs
    <3> QED
      BY <2>1, <3>1, <3>2, <3>3 DEF LifeInv, Stored, Alone, Waited, Complete
  <2>3. CASE k # "ControlPlane"
    <3>1. object'["ControlPlane"] = object["ControlPlane"]
      BY <2>1, <2>3 DEF TypeOK
    <3>2. VMs' = VMs
      BY <2>1 DEF VMs
    <3> QED
      BY <2>1, <3>1, <3>2 DEF LifeInv, Stored, Alone, Waited, Complete
  <2> QED
    BY <2>2, <2>3
<1>7. CASE Quiet
  BY <1>7, QuietSteps, SameLife
<1>8. CASE UNCHANGED vars
  BY <1>8, SameLife DEF vars, masters, api, command
<1> QED
  BY <1>1, <1>2, <1>3, <1>4, <1>5, <1>6, <1>7, <1>8 DEF Next, Quiet, Create

-----------------------------------------------------------------------------
(* Steps of Cluster are steps of the contract                              *)

LEMMA OneVersion == None = 0 /\ None # 1 /\ {1} \cup {None} = {0, 1}
BY DEF None

LEMMA InitLives == Init => ControlPlane!Init
<1> SUFFICES ASSUME Init PROVE ControlPlane!Init
  OBVIOUS
<1>1. object["ControlPlane"] = "none" /\ nodes = {}
  BY DEF Init, Kinds
<1>2. Asked = None /\ Said = None /\ Runs = [m \in Masters |-> None]
  BY <1>1 DEF Asked, Said, Runs
<1> QED
  BY <1>2 DEF ControlPlane!Init

\* What the mapping reads.
LEMMA SameLives ==
    ASSUME UNCHANGED nodes, object'["ControlPlane"] = object["ControlPlane"]
    PROVE  UNCHANGED ControlPlane!vars
BY DEF ControlPlane!vars, Asked, Said, Runs

LEMMA RegisterLives ==
    ASSUME TypeOK, LifeInv, NEW m \in Masters, Register(m)
    PROVE  ControlPlane!Next
<1>1. /\ m \in VMs \ nodes /\ nodes' = nodes \cup {m} /\ UNCHANGED object
  BY DEF Register, api
<1>2. UNCHANGED <<Asked, Said>>
  BY <1>1 DEF Asked, Said
<1>3. Runs[m] = None /\ Runs' = [Runs EXCEPT ![m] = 1]
  BY <1>1 DEF Runs
<1>4. CASE object["ControlPlane"] = "none"
  <2>1. nodes = {}
    BY <1>1, <1>4 DEF LifeInv, Alone
  <2>2. Asked = None /\ Runs = [n \in Masters |-> None]
    BY <1>4, <2>1 DEF Asked, Runs
  <2>3. ControlPlane!Found
    BY <1>2, <1>3, <2>2 DEF ControlPlane!Found
  <2> QED
    BY <2>3 DEF ControlPlane!Next, ControlPlane!Owner
<1>5. CASE object["ControlPlane"] # "none"
  <2>1. object["ControlPlane"] # "Succeeded"
    BY <1>1 DEF LifeInv, Complete
  <2>2. Asked = 1 /\ Said = None
    BY <1>5, <2>1 DEF Asked, Said
  <2>3. ControlPlane!Join
    BY <1>2, <1>3, <2>2, OneVersion DEF ControlPlane!Join
  <2> QED
    BY <2>3 DEF ControlPlane!Next, ControlPlane!Controller
<1> QED
  BY <1>4, <1>5

LEMMA NodeGoneLives ==
    ASSUME TypeOK, LifeInv, NEW m \in Masters, NodeGone(m)
    PROVE  ControlPlane!Next
<1>1. m \in nodes \ VMs /\ nodes' = nodes \ {m} /\ UNCHANGED object
  BY DEF NodeGone, api
<1>2. object["ControlPlane"] # "none"
  BY <1>1 DEF LifeInv, Alone
<1>3. Asked = 1 /\ UNCHANGED <<Asked, Said>>
  BY <1>1, <1>2 DEF Asked, Said
<1>4. Runs' = [Runs EXCEPT ![m] = None]
  BY <1>1 DEF Runs
<1>5. ControlPlane!Lose
  BY <1>3, <1>4, OneVersion DEF ControlPlane!Lose
<1> QED
  BY <1>5 DEF ControlPlane!Next, ControlPlane!Owner

LEMMA NextLives ==
    ASSUME TypeOK, Numbered, LifeInv, [Next]_vars
    PROVE  [ControlPlane!Next]_(ControlPlane!vars)
<1>1. CASE CreateInfrastructure
  BY <1>1, InfrastructureLife, SameLives
<1>2. ASSUME NEW k \in Kinds, CreateObject(k)
      PROVE  [ControlPlane!Next]_(ControlPlane!vars)
  <2>1. UNCHANGED nodes /\ cmd = "objects"
    BY <1>2 DEF CreateObject, masters
  <2>2. CASE object'["ControlPlane"] = object["ControlPlane"]
    BY <2>1, <2>2, SameLives
  <2>3. CASE object'["ControlPlane"] # object["ControlPlane"]
    <3>1. CanAsk(k) /\ object' = [object EXCEPT ![k] = "asked"]
      BY <1>2, <2>3 DEF CreateObject, AskFor
    <3>2. k = "ControlPlane" /\ CanAsk(k) /\ object' = AskFor(k)
      BY <2>3, <3>1 DEF AskFor, TypeOK
    <3>3. object["ControlPlane"] = "none" /\ object'["ControlPlane"] = "asked"
      BY <3>2 DEF CanAsk, AskFor, TypeOK
    <3>4. VMs # {}
      BY <3>2, AliveServes DEF CanAsk, Reachable, Serving
    <3>5. PICK m \in nodes : TRUE
      BY <2>1, <3>3, <3>4 DEF LifeInv, Waited, AfterWait
    <3>6. m \in Masters /\ Runs[m] = 1
      BY <3>5 DEF Runs, TypeOK
    <3>7. Asked = None /\ Asked' = 1 /\ Said' = Said /\ Runs' = Runs
      BY <2>1, <3>3 DEF Asked, Said, Runs
    <3>8. Asked' \in {Runs[n] : n \in Masters} \ {None}
      BY <3>6, <3>7, OneVersion
    <3>9. ControlPlane!Create
      BY <3>7, <3>8 DEF ControlPlane!Create
    <3> QED
      BY <3>9 DEF ControlPlane!Next, ControlPlane!Owner
  <2> QED
    BY <2>2, <2>3
<1>3. CASE VMSSGoes
  <2>1. object'["ControlPlane"] = "none" /\ nodes' = {}
    BY <1>3 DEF VMSSGoes, Kinds
  <2>2. Asked' = None /\ Said' = None /\ Runs' = [m \in Masters |-> None]
    BY <2>1 DEF Asked, Said, Runs
  <2>3. ControlPlane!Destroy
    BY <2>2 DEF ControlPlane!Destroy
  <2> QED
    BY <2>3 DEF ControlPlane!Next, ControlPlane!Owner
<1>4. ASSUME NEW m \in Masters, MasterStep(m)
      PROVE  [ControlPlane!Next]_(ControlPlane!vars)
  <2>1. CASE KubeadmInit(m) \/ KubeadmJoin(m)
    BY <2>1, SameLives DEF KubeadmInit, KubeadmJoin, api
  <2> QED
    BY <1>4, <2>1, RegisterLives, NodeGoneLives DEF MasterStep
<1>5. CASE AddMasters
  BY <1>5, SameLives DEF AddMasters, api
<1>6. ASSUME NEW k \in Kinds, Succeed(k)
      PROVE  [ControlPlane!Next]_(ControlPlane!vars)
  <2>1. UNCHANGED nodes /\ object' = [object EXCEPT ![k] = "Succeeded"]
    BY <1>6 DEF Succeed, masters
  <2>2. CASE k = "ControlPlane"
    <3>1. object["ControlPlane"] = "asked" /\ nodes = Masters
      BY <1>6, <2>2, AllRegistered DEF Succeed, Controlled
    <3>2. object'["ControlPlane"] = "Succeeded"
      BY <2>1, <2>2 DEF TypeOK
    <3>3. Asked = 1 /\ Asked' = 1 /\ Said' = 1 /\ Runs' = Runs
      BY <2>1, <3>1, <3>2 DEF Asked, Said, Runs
    <3>4. \A m \in Masters : Runs[m] = 1
      BY <3>1 DEF Runs
    <3>5. ControlPlane!Report
      BY <3>3, <3>4, OneVersion DEF ControlPlane!Report
    <3> QED
      BY <3>5 DEF ControlPlane!Next, ControlPlane!Controller
  <2>3. CASE k # "ControlPlane"
    BY <2>1, <2>3, SameLives DEF TypeOK
  <2> QED
    BY <2>2, <2>3
<1>7. CASE Quiet
  BY <1>7, QuietSteps, SameLives
<1>8. CASE UNCHANGED vars
  BY <1>8, SameLives DEF vars, masters, api
<1> QED
  BY <1>1, <1>2, <1>3, <1>4, <1>5, <1>6, <1>7, <1>8 DEF Next, Quiet, Create

\* Creations that are broken off and repeated, deletions that end half way and
\* restarts included, the life of a cluster's control plane is one the contract
\* of ControlPlane's controller allows: it is asked for when the first master has
\* its Node, masters come only until the report, and the report is of as many
\* Nodes as masters, which says nothing of their being Ready or members of etcd.
THEOREM ControlPlaneFits == Spec => ControlPlaneLives
<1>1. Init => LifeInv /\ ControlPlane!Init
  BY InitLife, InitLives
<1>2. TypeOK /\ Numbered /\ LifeInv /\ [Next]_vars => LifeInv'
  BY NextLife
<1>3. TypeOK /\ Numbered /\ LifeInv /\ [Next]_vars
        => [ControlPlane!Next]_(ControlPlane!vars)
  BY NextLives
<1> QED
  BY <1>1, <1>2, <1>3, Typing, PTL
  DEF Spec, ControlPlaneLives, ControlPlane!Spec
=============================================================================
