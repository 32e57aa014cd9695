------------------------- MODULE ControlPlaneProofs -------------------------
(***************************************************************************)
(* What holds of the ControlPlane controller for every number of masters,  *)
(* every set of versions and every number of faults and edits.             *)
(***************************************************************************)
EXTENDS ControlPlane, FiniteSetTheorems, TLAPS

-----------------------------------------------------------------------------
(* Type correctness                                                        *)

LEMMA InitType == Init => TypeOK
<1> SUFFICES ASSUME Init PROVE TypeOK
  OBVIOUS
<1>1. PICK v \in Versions :
        /\ cp = [version |-> v, status |-> None, state |-> ""]
        /\ vm = [m \in Masters |-> IF m = Bootstrap THEN v ELSE None]
  BY DEF Init
<1>2. cp \in Object
  BY <1>1 DEF Object, States
<1>3. vm \in [Masters -> Versions \cup {None}]
  BY <1>1
<1>4. 0 \in 0 .. MaxFaults /\ 0 \in 0 .. MaxEdits
  BY BoundsAssumption
<1> QED
  BY <1>2, <1>3, <1>4 DEF Init, TypeOK, Steps

LEMMA FaultType ==
    ASSUME TypeOK, NEW call, Fault(call)
    PROVE  faults' \in 0 .. MaxFaults /\ edits' \in 0 .. MaxEdits
BY BoundsAssumption DEF TypeOK, Fault

LEMMA BoundsType ==
    ASSUME TypeOK, UNCHANGED bounds
    PROVE  faults' \in 0 .. MaxFaults /\ edits' \in 0 .. MaxEdits
BY DEF TypeOK, bounds

\* What the steps of a reconciliation leave of its own variables.
WorkerOK ==
    /\ queued \in BOOLEAN
    /\ pc \in Steps
    /\ instance \in Object \cup {Absent}
    /\ pc = "idle" <=> instance = Absent
    /\ todo \in SUBSET Masters

LEMMA FinishType ==
    ASSUME NEW again \in BOOLEAN, Finish(again)
    PROVE  WorkerOK'
BY DEF Finish, WorkerOK, Steps

LEMMA GotoType ==
    ASSUME TypeOK, NEW step \in Steps \ {"idle"}, pc # "idle", Goto(step)
    PROVE  WorkerOK'
BY DEF Goto, WorkerOK, TypeOK

\* The copy of a reconciliation under way is an object.
LEMMA CopyType ==
    ASSUME TypeOK, pc # "idle"
    PROVE  /\ instance \in Object
           /\ instance.version \in Versions
           /\ instance.status \in Versions \cup {None}
BY DEF TypeOK, Object

\* Versions are numbers, and None is below them.
LEMMA Numbers ==
    /\ Versions \subseteq Nat
    /\ \A v \in Versions \cup {None} : v \in Nat
    /\ None \notin Versions
BY VersionsAssumption DEF None

LEMMA BootstrapType == Bootstrap \in Masters
BY CountAssumption DEF Bootstrap, Masters

LEMMA NextType ==
    ASSUME TypeOK, [Next]_vars
    PROVE  TypeOK'
<1> USE DEF vars, worker, masters, scripts, bounds
<1>1. CASE Start
  <2>1. WorkerOK'
    BY <1>1, AbsentAssumption DEF Start, WorkerOK, TypeOK, Steps
  <2> QED
    BY <1>1, <2>1 DEF Start, TypeOK, WorkerOK
<1>2. CASE List
  <2>1. WorkerOK'
    BY <1>2, FinishType DEF List, Retry, TypeOK, WorkerOK, Steps
  <2>2. faults' \in 0 .. MaxFaults /\ edits' \in 0 .. MaxEdits
    BY <1>2, FaultType, BoundsType DEF List
  <2> QED
    BY <1>2, <2>1, <2>2 DEF List, TypeOK, WorkerOK
<1>3. CASE Updating
  <2>1. instance \in Object
    BY <1>3, CopyType DEF Updating
  <2>2. [instance EXCEPT !.state = "Updating"] \in Object
    BY <2>1 DEF Object, States
  <2>3. WorkerOK' /\ cp' \in Object
    BY <1>3, <2>1, <2>2, FinishType, AbsentAssumption
       DEF Updating, Retry, TypeOK, WorkerOK, Steps
  <2> QED
    BY <1>3, <2>3 DEF Updating, TypeOK, WorkerOK
<1>4. CASE Put
  <2>1. AllCreated \in [Masters -> Versions \cup {None}]
    BY <1>4, CopyType DEF Put, AllCreated, TypeOK
  <2>2. WorkerOK'
    BY <1>4, FinishType, GotoType DEF Put, Retry, Steps
  <2>3. faults' \in 0 .. MaxFaults /\ edits' \in 0 .. MaxEdits
    BY <1>4, FaultType, BoundsType DEF Put
  <2>4. vm' = vm \/ vm' = AllCreated
    BY <1>4 DEF Put
  <2>5. vm' \in [Masters -> Versions \cup {None}]
    BY <2>1, <2>4 DEF TypeOK
  <2>6. \A m \in Masters : vm[m] # None => vm'[m] # None
    BY <2>4 DEF AllCreated
  <2> QED
    BY <1>4, <2>2, <2>3, <2>5, <2>6 DEF Put, TypeOK, WorkerOK
<1>5. CASE Inspect
  <2>1. WorkerOK'
    BY <1>5, FinishType, GotoType DEF Inspect, Retry, TypeOK, WorkerOK, Steps
  <2> QED
    BY <1>5, <2>1 DEF Inspect, TypeOK, WorkerOK
<1>6. CASE Command
  <2>1. script' \in [Masters -> Versions \cup {None}]
    BY <1>6, CopyType DEF Command, TypeOK
  <2>2. WorkerOK'
    BY <1>6, FinishType, GotoType DEF Command, Retry, Steps
  <2>3. faults' \in 0 .. MaxFaults /\ edits' \in 0 .. MaxEdits
    BY <1>6, FaultType, BoundsType DEF Command
  <2> QED
    BY <1>6, <2>1, <2>2, <2>3 DEF Command, TypeOK, WorkerOK
<1>7. CASE Await
  <2>1. WorkerOK'
    BY <1>7, FinishType, GotoType DEF Await, Retry, Steps
  <2>2. faults' \in 0 .. MaxFaults /\ edits' \in 0 .. MaxEdits
    BY <1>7, FaultType, BoundsType DEF Await
  <2> QED
    BY <1>7, <2>1, <2>2 DEF Await, TypeOK, WorkerOK
<1>8. CASE Check
  <2>1. WorkerOK'
    BY <1>8, FinishType DEF Check, Retry, TypeOK, WorkerOK, Steps
  <2> QED
    BY <1>8, <2>1 DEF Check, TypeOK, WorkerOK
<1>9. CASE Wait
  <2>1. WorkerOK'
    BY <1>9, FinishType, GotoType DEF Wait, Retry, Steps
  <2> QED
    BY <1>9, <2>1 DEF Wait, TypeOK, WorkerOK
<1>10. CASE Report
  <2>1. instance \in Object
    BY <1>10, CopyType DEF Report
  <2>2. [instance EXCEPT !.status = instance.version, !.state = "Succeeded"]
          \in Object
    BY <2>1 DEF Object, States
  <2>3. WorkerOK'
    BY <1>10, FinishType DEF Report, Done, Retry, TypeOK
  <2> QED
    BY <1>10, <2>2, <2>3 DEF Report, TypeOK, WorkerOK
<1>11. CASE ApiError
  <2>1. WorkerOK'
    BY <1>11, FinishType DEF ApiError, Retry
  <2>2. faults' \in 0 .. MaxFaults /\ edits' \in 0 .. MaxEdits
    BY <1>11, FaultType DEF ApiError
  <2> QED
    BY <1>11, <2>1, <2>2 DEF ApiError, TypeOK, WorkerOK
<1>12. CASE Watch
  BY <1>12 DEF Watch, TypeOK
<1>13. CASE Resync
  BY <1>13 DEF Resync, TypeOK
<1>14. CASE Restart
  <2>1. WorkerOK'
    BY <1>14, FinishType DEF Restart
  <2>2. faults' \in 0 .. MaxFaults /\ edits' \in 0 .. MaxEdits
    BY <1>14, FaultType DEF Restart
  <2> QED
    BY <1>14, <2>1, <2>2 DEF Restart, TypeOK, WorkerOK
<1>15. CASE ClusterSucceeds
  BY <1>15 DEF ClusterSucceeds, TypeOK
<1>16. ASSUME NEW v \in Versions, Upgrade(v) PROVE TypeOK'
  <2>1. cp' \in Object
    BY <1>16 DEF Upgrade, TypeOK, Object
  <2>2. edits' \in 0 .. MaxEdits
    BY <1>16, BoundsAssumption DEF Upgrade, TypeOK
  <2> QED
    BY <1>16, <2>1, <2>2 DEF Upgrade, TypeOK
<1>17. ASSUME NEW m \in Masters, Join(m) PROVE TypeOK'
  <2>1. /\ node' \in [Masters -> Versions \cup {None}]
        /\ server' \in [Masters -> Versions \cup {None}]
    BY <1>17, BootstrapType DEF Join, TypeOK
  <2>2. \A k \in Masters : node'[k] # None => vm[k] # None
    BY <1>17 DEF Join, TypeOK
  <2> QED
    BY <1>17, <2>1, <2>2 DEF Join, TypeOK
<1>18. ASSUME NEW m \in Masters, TurnReady(m) PROVE TypeOK'
  BY <1>18 DEF TurnReady, TypeOK
<1>19. ASSUME NEW m \in Masters, ScriptUpgrades(m) PROVE TypeOK'
  <2>1. script[m] # None
    <3>1. script[m] \in Nat /\ node[m] \in Nat /\ script[m] > node[m]
      BY <1>19, Numbers DEF ScriptUpgrades, TypeOK
    <3> QED
      BY <3>1 DEF None
  <2>2. /\ vm' \in [Masters -> Versions \cup {None}]
        /\ node' \in [Masters -> Versions \cup {None}]
        /\ ready' \in [Masters -> BOOLEAN]
    BY <1>19 DEF ScriptUpgrades, TypeOK
  <2>3. \A k \in Masters : node'[k] # None => vm'[k] # None
    BY <1>19, <2>1 DEF ScriptUpgrades, TypeOK
  <2> QED
    BY <1>19, <2>2, <2>3 DEF ScriptUpgrades, TypeOK
<1>20. ASSUME NEW m \in Masters, KubeadmApplies(m) PROVE TypeOK'
  <2>1. /\ server' \in [Masters -> Versions \cup {None}]
        /\ line' \in [Masters -> {"kubeadm", "kubelet"}]
        /\ broken' \in SUBSET Masters
    BY <1>20 DEF KubeadmApplies, TypeOK
  <2> QED
    BY <1>20, <2>1 DEF KubeadmApplies, TypeOK
<1>21. ASSUME NEW m \in Masters, ScriptEnds(m) \/ ScriptFails(m) PROVE TypeOK'
  <2>1. faults' \in 0 .. MaxFaults /\ edits' \in 0 .. MaxEdits
    BY <1>21, FaultType, BoundsType
    DEF ScriptEnds, ScriptFails, KubeadmFails, KubeletFails
  <2>2. /\ script' \in [Masters -> Versions \cup {None}]
        /\ line' \in [Masters -> {"kubeadm", "kubelet"}]
        /\ broken' \in SUBSET Masters
    BY <1>21 DEF ScriptEnds, ScriptFails, KubeadmFails, KubeletFails, Over, TypeOK
  <2> QED
    BY <1>21, <2>1, <2>2
    DEF ScriptEnds, ScriptFails, KubeadmFails, KubeletFails, Over, TypeOK
<1>22. CASE UNCHANGED vars
  BY <1>22 DEF TypeOK
<1> QED
  BY <1>1, <1>2, <1>3, <1>4, <1>5, <1>6, <1>7, <1>8, <1>9, <1>10, <1>11,
     <1>12, <1>13, <1>14, <1>15, <1>16, <1>17, <1>18, <1>19, <1>20, <1>21,
     <1>22 DEF Next, Reconcile, World

\* The variables keep their types, whatever fails: a reconciliation holds a copy
\* of the ControlPlane exactly while it is under way, and no master has a Node
\* without a VM.
THEOREM Typing == Spec => []TypeOK
<1>1. Init => TypeOK
  BY InitType
<1>2. TypeOK /\ [Next]_vars => TypeOK'
  BY NextType
<1> QED
  BY <1>1, <1>2, PTL DEF Spec

-----------------------------------------------------------------------------
(* What is reported is true                                                *)
(*                                                                         *)
(* Versions only grow, from the masters over the manager's copy and its    *)
(* cache to the API server: a script left running cannot overtake what is  *)
(* reported.  Before the first success all of them are one version; after  *)
(* it every master has a Node, so that the listing of an upgrade finds all.*)

AtMost(v) == \A m \in Masters : vm[m] <= v /\ node[m] <= v /\ script[m] <= v

Fresh ==
    \A m \in Masters : /\ vm[m] \in {None, cp.version}
                       /\ node[m] \in {None, cp.version}
                       /\ script[m] = None

AllThere == \A m \in Masters : node[m] # None
AllRun(v) == \A m \in Masters : node[m] = v

Stored ==
    /\ cp.status <= cp.version
    /\ cache.version <= cp.version
    /\ AtMost(cache.version)
    /\ cache.status # None => cp.status # None
    /\ cp.status = None => Fresh /\ cache.version = cp.version
    /\ cp.status # None => AllThere
    /\ Claimed => AllRun(cp.version)

Copied ==
    /\ instance.version <= cache.version
    /\ AtMost(instance.version)
    /\ instance.status # instance.version
    /\ instance.status # None => cp.status # None
    /\ cp.status = None => instance.version = cp.version

Upgrading == {"upgrade", "command", "await", "check"}

Progress ==
    /\ pc \in Upgrading => instance.status # None
    /\ pc \in {"updating", "put"} /\ instance.status # None => todo = Masters
    /\ pc \in Upgrading =>
         \A m \in Masters \ todo : node[m] = instance.version
    /\ pc \in {"wait", "report"} /\ instance.status # None =>
         AllRun(instance.version)
    /\ pc \in Steps \ {"idle", "list", "updating"} /\ instance.status = None =>
         cp.status = None
    /\ pc = "report" => AllThere

Working == pc # "idle" => Copied /\ Progress

HonestInv == TypeOK /\ Stored /\ Working

LEMMA Ranges ==
    ASSUME TypeOK
    PROVE  /\ cp.version \in Nat /\ cp.version # None /\ cp.status \in Nat
           /\ cache.version \in Nat /\ cache.version # None
           /\ cache.status \in Nat
           /\ \A m \in Masters :
                vm[m] \in Nat /\ node[m] \in Nat /\ script[m] \in Nat
           /\ pc # "idle" => /\ instance.version \in Nat
                             /\ instance.version # None
                             /\ instance.status \in Nat
BY Numbers, CopyType DEF TypeOK, Object

LEMMA InitHonest == Init => Stored /\ Working
<1> SUFFICES ASSUME Init PROVE Stored /\ Working
  OBVIOUS
<1>1. PICK v \in Versions :
        /\ cp = [version |-> v, status |-> None, state |-> ""]
        /\ vm = [m \in Masters |-> IF m = Bootstrap THEN v ELSE None]
  BY DEF Init
<1>2. v \in Nat /\ None <= v /\ v <= v /\ None <= None
  BY Numbers DEF None
<1>3. \A m \in Masters :
        /\ vm[m] \in {None, v} /\ node[m] \in {None, v} /\ script[m] = None
  BY <1>1 DEF Init
<1>4. AtMost(v) /\ Fresh
  BY <1>1, <1>2, <1>3 DEF AtMost, Fresh
<1>5. cache = cp /\ pc = "idle"
  BY DEF Init
<1>6. ~Claimed
  BY <1>1 DEF Claimed
<1> QED
  BY <1>1, <1>2, <1>4, <1>5, <1>6 DEF Stored, Working

\* Steps of the manager that touch neither the ControlPlane nor the masters.
LEMMA SameStored ==
    ASSUME Stored, UNCHANGED <<cp, cache, masters>>
    PROVE  Stored'
BY DEF Stored, AtMost, Fresh, AllThere, Claimed, AllRun, masters, scripts

LEMMA SameCopied ==
    ASSUME Copied, UNCHANGED <<cp, cache, masters, instance>>
    PROVE  Copied'
BY DEF Copied, AtMost, masters, scripts

LEMMA FinishWorking ==
    ASSUME NEW again, Finish(again)
    PROVE  Working'
BY DEF Finish, Working

LEMMA FinishHonest ==
    ASSUME Stored, NEW again, Finish(again), UNCHANGED <<cp, cache, masters>>
    PROVE  Stored' /\ Working'
BY SameStored, FinishWorking

LEMMA StartHonest ==
    ASSUME HonestInv, Start
    PROVE  Stored' /\ Working'
<1>1. Stored'
  BY SameStored DEF HonestInv, Start
<1>2. CASE pc' = "idle"
  BY <1>1, <1>2 DEF Working
<1>3. CASE pc' # "idle"
  <2>1. pc' = "list" /\ instance' = cache /\ cache.version # cache.status
    BY <1>3 DEF Start
  <2>2. cache.version <= cache.version
    BY Ranges DEF HonestInv
  <2>3. Copied'
    BY <2>1, <2>2 DEF Start, HonestInv, Stored, Copied, AtMost, masters, scripts
  <2>4. Progress'
    BY <2>1 DEF Progress, Upgrading
  <2> QED
    BY <1>1, <2>3, <2>4 DEF Working
<1> QED
  BY <1>2, <1>3

LEMMA ListHonest ==
    ASSUME HonestInv, List
    PROVE  Stored' /\ Working'
<1>1. CASE Retry
  BY <1>1, FinishHonest DEF List, HonestInv, Retry
<1>2. CASE ~Retry
  <2>1. /\ pc = "list" /\ pc' = "updating"
        /\ todo' = {m \in Masters : vm[m] # None}
        /\ UNCHANGED <<instance, cp, cache, masters>>
    BY <1>2 DEF List
  <2>2. Copied /\ Copied'
    BY <2>1, SameCopied DEF HonestInv, Working
  <2>3. instance'.status # None => todo' = Masters
    BY <2>1, <2>2 DEF Copied, HonestInv, Stored, AllThere, TypeOK
  <2>4. Progress'
    BY <2>1, <2>3 DEF Progress, Upgrading
  <2> QED
    BY <2>1, <2>2, <2>4, SameStored DEF HonestInv, Working
<1> QED
  BY <1>1, <1>2

LEMMA UpdatingHonest ==
    ASSUME HonestInv, Updating
    PROVE  Stored' /\ Working'
<1>1. CASE cp # instance
  BY <1>1, FinishHonest DEF Updating, HonestInv, Retry
<1>2. CASE cp = instance
  <2>1. /\ pc = "updating" /\ pc' = "put"
        /\ cp' = [instance EXCEPT !.state = "Updating"] /\ instance' = cp'
        /\ UNCHANGED <<todo, cache, masters>>
    BY <1>2 DEF Updating
  <2>2. /\ cp'.version = cp.version /\ cp'.status = cp.status
        /\ cp'.state = "Updating"
        /\ instance'.version = instance.version
        /\ instance'.status = instance.status
    BY <1>2, <2>1 DEF HonestInv, TypeOK, Object
  <2>3. Copied /\ Progress
    BY <2>1 DEF HonestInv, Working
  <2>4. Stored'
    BY <2>1, <2>2
       DEF HonestInv, Stored, AtMost, Fresh, AllThere, Claimed, AllRun, masters, scripts
  <2>5. Copied'
    BY <2>1, <2>2, <2>3 DEF Copied, AtMost, masters, scripts
  <2>6. Progress'
    BY <1>2, <2>1, <2>2, <2>3 DEF Progress, Upgrading
  <2> QED
    BY <2>4, <2>5, <2>6 DEF Working
<1> QED
  BY <1>1, <1>2

\* The VMs the scale set gets are of the version being installed.
LEMMA PutHonest ==
    ASSUME HonestInv, Put
    PROVE  Stored' /\ Working'
<1>1. /\ pc = "put" /\ UNCHANGED <<cp, cache, node, script>>
      /\ vm' = vm \/ vm' = AllCreated
      /\ Retry \/ Goto(IF NeedsUpgrade(instance) THEN "upgrade" ELSE "wait")
  BY DEF Put, scripts
<1>2. Copied /\ Progress
  BY <1>1 DEF HonestInv, Working
<1>3. \A m \in Masters : vm'[m] = vm[m] \/ vm'[m] = instance.version
  BY <1>1 DEF AllCreated
<1>4. instance.version <= cache.version /\ instance.version <= instance.version
  BY <1>1, <1>2, Ranges DEF Copied, HonestInv
<1>5. AtMost(cache.version)' /\ (UNCHANGED instance => AtMost(instance.version)')
  BY <1>1, <1>2, <1>3, <1>4 DEF HonestInv, Stored, Copied, AtMost
<1>6. cp.status = None => Fresh'
  BY <1>1, <1>2, <1>3 DEF HonestInv, Stored, Copied, Fresh
<1>7. Stored'
  BY <1>1, <1>5, <1>6 DEF HonestInv, Stored, AllThere, Claimed, AllRun
<1>8. CASE Retry
  BY <1>7, <1>8, FinishWorking DEF Retry
<1>9. CASE ~Retry
  <2>1. UNCHANGED <<instance, todo>>
    BY <1>1, <1>9 DEF Goto
  <2>2. Copied'
    BY <1>1, <1>2, <1>5, <2>1 DEF Copied
  <2>3. CASE NeedsUpgrade(instance)
    <3>1. pc' = "upgrade" /\ instance.status # None /\ todo = Masters
      BY <1>1, <1>2, <1>9, <2>3 DEF Goto, NeedsUpgrade, Progress
    <3> QED
      BY <1>1, <1>7, <2>1, <2>2, <3>1 DEF Working, Progress, Upgrading
  <2>4. CASE ~NeedsUpgrade(instance)
    <3>1. pc' = "wait" /\ instance.status = None
      BY <1>1, <1>2, <1>9, <2>4 DEF Goto, NeedsUpgrade, Copied
    <3>2. cp.status = None
      BY <1>1, <1>2, <3>1 DEF Progress, Steps
    <3> QED
      BY <1>1, <1>7, <2>1, <2>2, <3>1, <3>2 DEF Working, Progress, Upgrading
  <2> QED
    BY <2>3, <2>4
<1> QED
  BY <1>8, <1>9

\* Steps of an upgrade that leave its masters alone.
LEMMA UpgradeStep ==
    ASSUME HonestInv, pc \in Upgrading, pc' \in Upgrading \cup {"wait"},
           UNCHANGED <<cp, cache, masters, instance>>,
           \A m \in Masters \ todo' : node[m] = instance.version,
           pc' = "wait" => todo' = {}
    PROVE  Stored' /\ Working'
<1>1. pc # "idle" /\ pc \in Steps
  BY DEF Upgrading, Steps
<1>2. Copied /\ Progress
  BY <1>1 DEF HonestInv, Working
<1>3. Stored' /\ Copied'
  BY <1>2, SameStored, SameCopied DEF HonestInv
<1>4. instance.status # None
  BY <1>2 DEF Progress
<1>5. Progress'
  BY <1>4 DEF Progress, Upgrading, AllRun, masters, scripts
<1> QED
  BY <1>3, <1>5 DEF Working

LEMMA InspectHonest ==
    ASSUME HonestInv, Inspect
    PROVE  Stored' /\ Working'
<1>1. pc = "upgrade" /\ UNCHANGED <<cp, cache, masters>> /\ pc \in Upgrading
  BY DEF Inspect, Upgrading
<1>2. \A m \in Masters \ todo : node[m] = instance.version
  BY <1>1 DEF HonestInv, Working, Progress
<1>3. CASE Retry
  BY <1>1, <1>3, FinishHonest DEF HonestInv, Retry
<1>4. CASE todo = {} /\ Goto("wait")
  BY <1>1, <1>2, <1>4, UpgradeStep DEF Goto
<1>5. CASE /\ IsNodeUpdated(First)
           /\ todo' = todo \ {First} /\ UNCHANGED <<pc, instance>>
  <2>1. \A m \in Masters \ todo' : node[m] = instance.version
    BY <1>2, <1>5 DEF IsNodeUpdated
  <2> QED
    BY <1>1, <1>5, <2>1, UpgradeStep
<1>6. CASE Goto("command")
  BY <1>1, <1>2, <1>6, UpgradeStep DEF Goto, Upgrading
<1> QED
  BY <1>3, <1>4, <1>5, <1>6 DEF Inspect

\* A script is started for the version being installed only.
LEMMA CommandHonest ==
    ASSUME HonestInv, Command
    PROVE  Stored' /\ Working'
<1>1. /\ pc = "command" /\ pc \in Upgrading
      /\ UNCHANGED <<cp, cache, vm, node>>
  BY DEF Command, Upgrading
<1>2. Copied /\ Progress
  BY <1>1 DEF HonestInv, Working
<1>3. CASE Retry /\ UNCHANGED script
  BY <1>1, <1>3, FinishHonest DEF Command, HonestInv, Retry, masters, scripts
<1>4. CASE /\ script' = [script EXCEPT ![First] = instance.version]
           /\ Goto("await")
  <2>1. \A m \in Masters : script'[m] \in {script[m], instance.version}
    BY <1>4 DEF HonestInv, TypeOK
  <2>2. /\ instance.version <= cache.version
        /\ instance.version <= instance.version
    BY <1>1, <1>2, Ranges DEF Copied, HonestInv
  <2>3. cp.status # None
    BY <1>1, <1>2 DEF Copied, Progress
  <2>4. AtMost(cache.version)' /\ AtMost(instance.version)'
    BY <1>1, <1>2, <1>4, <2>1, <2>2
       DEF HonestInv, Stored, Copied, AtMost, Goto
  <2>5. Stored'
    BY <1>1, <2>3, <2>4 DEF HonestInv, Stored, AllThere, Claimed, AllRun
  <2>6. Copied'
    BY <1>1, <1>2, <1>4, <2>4 DEF Copied, Goto
  <2>7. Progress'
    BY <1>1, <1>2, <1>4 DEF Progress, Upgrading, Goto
  <2> QED
    BY <2>5, <2>6, <2>7 DEF Working
<1> QED
  BY <1>3, <1>4 DEF Command

LEMMA AwaitHonest ==
    ASSUME HonestInv, Await
    PROVE  Stored' /\ Working'
<1>1. pc = "await" /\ UNCHANGED <<cp, cache, masters>> /\ pc \in Upgrading
  BY DEF Await, Upgrading
<1>2. \A m \in Masters \ todo : node[m] = instance.version
  BY <1>1 DEF HonestInv, Working, Progress
<1>3. CASE Retry
  BY <1>1, <1>3, FinishHonest DEF HonestInv, Retry
<1>4. CASE Goto("check")
  BY <1>1, <1>2, <1>4, UpgradeStep DEF Goto, Upgrading
<1> QED
  BY <1>3, <1>4 DEF Await

LEMMA CheckHonest ==
    ASSUME HonestInv, Check
    PROVE  Stored' /\ Working'
<1>1. pc = "check" /\ UNCHANGED <<cp, cache, masters>> /\ pc \in Upgrading
  BY DEF Check, Upgrading
<1>2. \A m \in Masters \ todo : node[m] = instance.version
  BY <1>1 DEF HonestInv, Working, Progress
<1>3. CASE Retry
  BY <1>1, <1>3, FinishHonest DEF HonestInv, Retry
<1>4. CASE /\ node[First] = instance.version
           /\ todo' = todo \ {First} /\ pc' = "upgrade" /\ UNCHANGED instance
  <2>1. \A m \in Masters \ todo' : node[m] = instance.version
    BY <1>2, <1>4
  <2> QED
    BY <1>1, <1>4, <2>1, UpgradeStep DEF Upgrading
<1> QED
  BY <1>3, <1>4 DEF Check

\* As many Nodes as there are masters: every master has one.
LEMMA Counted ==
    ASSUME Cardinality({m \in Masters : node[m] # None}) >= Count
    PROVE  AllThere
<1> DEFINE There == {m \in Masters : node[m] # None}
<1>1. Count \in Nat
  BY CountAssumption
<1>2. IsFiniteSet(Masters) /\ Cardinality(Masters) = Count
  BY <1>1, FS_Interval DEF Masters
<1>3. There \subseteq Masters
  OBVIOUS
<1>4. /\ IsFiniteSet(There) /\ Cardinality(There) <= Count
      /\ Cardinality(There) = Count => There = Masters
  BY <1>2, <1>3, FS_Subset
<1>5. Cardinality(There) \in Nat
  BY <1>4, FS_CardinalityType
<1>6. Cardinality(There) = Count
  BY <1>1, <1>4, <1>5
<1> QED
  BY <1>4, <1>6 DEF AllThere

LEMMA WaitHonest ==
    ASSUME HonestInv, Wait
    PROVE  Stored' /\ Working'
<1>1. pc = "wait" /\ UNCHANGED <<cp, cache, masters>>
  BY DEF Wait
<1>2. CASE Retry
  BY <1>1, <1>2, FinishHonest DEF HonestInv, Retry
<1>3. CASE ~Retry
  <2>1. Goto("report") /\ AllThere
    BY <1>3, Counted DEF Wait
  <2>2. Copied /\ Progress
    BY <1>1 DEF HonestInv, Working
  <2>3. Stored' /\ Copied'
    BY <1>1, <2>1, <2>2, SameStored, SameCopied DEF HonestInv, Goto
  <2>4. Progress'
    BY <1>1, <2>1, <2>2
       DEF Progress, Upgrading, Goto, AllRun, AllThere, masters, scripts, Steps
  <2> QED
    BY <2>3, <2>4 DEF Working
<1> QED
  BY <1>2, <1>3

\* The report, on a ControlPlane that did not change since it was read.
LEMMA ReportHonest ==
    ASSUME HonestInv, Report
    PROVE  Stored' /\ Working'
<1>1. pc = "report" /\ UNCHANGED <<cache, masters>>
  BY DEF Report
<1>2. Copied /\ Progress
  BY <1>1 DEF HonestInv, Working
<1>3. CASE cp # instance
  BY <1>1, <1>3, FinishHonest DEF Report, HonestInv, Retry
<1>4. CASE cp = instance
  <2>1. cp' = [instance EXCEPT !.status = instance.version,
                               !.state = "Succeeded"]
    BY <1>4 DEF Report
  <2>2. cp'.version = cp.version /\ cp'.status = cp.version
    BY <1>4, <2>1 DEF HonestInv, TypeOK, Object
  <2>3. AllThere
    BY <1>1, <1>2 DEF Progress
  <2>4. AllRun(cp.version)
    <3>1. CASE instance.status = None
      BY <1>4, <2>3, <3>1 DEF HonestInv, Stored, Fresh, AllThere, AllRun
    <3>2. CASE instance.status # None
      BY <1>1, <1>2, <1>4, <3>2 DEF Progress
    <3> QED
      BY <3>1, <3>2
  <2>5. AllRun(cp.version)'
    BY <1>1, <2>2, <2>4 DEF AllRun, masters, scripts
  <2>6. cp'.status # None /\ cp'.status <= cp'.version
    BY <2>2, Ranges DEF HonestInv
  <2>7. Stored'
    BY <1>1, <2>2, <2>3, <2>5, <2>6
       DEF HonestInv, Stored, AtMost, AllThere, masters, scripts
  <2> QED
    BY <1>4, <2>7, FinishWorking DEF Report, Done
<1> QED
  BY <1>3, <1>4

\* What is at most the cache's version is at most the stored one.
LEMMA CacheCatchesUp ==
    ASSUME HonestInv, cache' = cp, UNCHANGED <<cp, masters>>
    PROVE  Stored'
<1>1. cp.version <= cp.version
  BY Ranges DEF HonestInv
<1>2. AtMost(cp.version)
  BY Ranges DEF HonestInv, Stored, AtMost
<1> QED
  BY <1>1, <1>2
     DEF HonestInv, Stored, AtMost, Fresh, AllThere, Claimed, AllRun, masters, scripts

LEMMA WatchHonest ==
    ASSUME HonestInv, Watch
    PROVE  Stored' /\ Working'
<1>1. UNCHANGED <<cp, masters, pc, instance, todo>> /\ cache' = cp
  BY DEF Watch
<1>2. Stored'
  BY <1>1, CacheCatchesUp
<1>3. CASE pc # "idle"
  <2>1. Copied /\ Progress
    BY <1>3 DEF HonestInv, Working
  <2>2. instance.version <= cp.version
    BY <1>3, <2>1, Ranges DEF HonestInv, Stored, Copied
  <2>3. Copied' /\ Progress'
    BY <1>1, <2>1, <2>2
       DEF Copied, Progress, AtMost, AllRun, AllThere, masters, scripts
  <2> QED
    BY <1>2, <2>3 DEF Working
<1> QED
  BY <1>1, <1>2, <1>3 DEF Working

LEMMA UpgradeHonest ==
    ASSUME ~CanRevert, ~CanHurry, HonestInv, NEW v \in Versions, Upgrade(v)
    PROVE  Stored' /\ Working'
<1>1. /\ v > cp.version /\ cp.status # None
      /\ cp' = [cp EXCEPT !.version = v]
      /\ UNCHANGED <<cache, masters, pc, instance, todo>>
  BY DEF Upgrade, worker
<1>2. cp'.version = v /\ cp'.status = cp.status
  BY <1>1 DEF HonestInv, TypeOK, Object
<1>3. v \in Nat
  BY Numbers
<1>4. cp'.status < cp'.version /\ cache.version <= cp'.version
  BY <1>1, <1>2, <1>3, Ranges DEF HonestInv, Stored
<1>5. cp'.status # cp'.version /\ cp'.status <= cp'.version
  BY <1>2, <1>3, <1>4, Ranges DEF HonestInv
<1>6. Stored'
  BY <1>1, <1>2, <1>4, <1>5
     DEF HonestInv, Stored, AtMost, AllThere, Claimed, AllRun, masters, scripts
<1>7. CASE pc # "idle"
  <2>1. Copied /\ Progress
    BY <1>7 DEF HonestInv, Working
  <2>2. pc \in Steps \ {"idle", "list", "updating"} => instance.status # None
    BY <1>1, <2>1 DEF Progress
  <2>3. Copied' /\ Progress'
    BY <1>1, <1>2, <2>1, <2>2
       DEF Copied, Progress, AtMost, AllRun, AllThere, masters, scripts
  <2> QED
    BY <1>6, <2>3 DEF Working
<1> QED
  BY <1>1, <1>6, <1>7 DEF Working

\* Steps of one master: what it runs stays within the versions bounding it, and
\* a master that runs what is being installed keeps to it.
LEMMA MasterStep ==
    ASSUME HonestInv, NEW m \in Masters,
           UNCHANGED <<cp, cache, pc, instance, todo>>,
           \A k \in Masters \ {m} :
             vm'[k] = vm[k] /\ node'[k] = node[k] /\ script'[k] = script[k],
           {vm'[m], node'[m], script'[m]}
             \subseteq {vm[m], node[m], script[m], None},
           node[m] # None => node'[m] \in {node[m], script[m]},
           node'[m] # node[m] =>
             \/ node[m] = None /\ node'[m] = vm[m]
             \/ node'[m] = script[m] /\ script[m] > node[m],
           script'[m] \in {script[m], None}
    PROVE  Stored' /\ Working'
<1>1. \A v \in Nat : AtMost(v) => AtMost(v)'
  <2>1. SUFFICES ASSUME NEW v \in Nat, AtMost(v) PROVE AtMost(v)'
    OBVIOUS
  <2>2. None <= v
    BY DEF None
  <2> QED
    BY <2>1, <2>2 DEF AtMost
<1>2. node[m] # None => node'[m] # None
  BY Ranges DEF HonestInv, None
<1>3. AllThere => AllThere'
  BY <1>2 DEF AllThere
<1>4. \A v \in Nat :
        AtMost(v) /\ node[m] = v /\ v # None => node'[m] = node[m]
  BY Ranges DEF HonestInv, AtMost
<1>5. cp.status = None => Fresh'
  BY DEF HonestInv, Stored, Fresh
<1>6. AtMost(cp.version)
  BY Ranges DEF HonestInv, Stored, AtMost
<1>7. Claimed => AllRun(cp.version)'
  <2>1. CASE Claimed
    <3>1. \A k \in Masters : node[k] = cp.version
      BY <2>1 DEF HonestInv, Stored, AllRun
    <3>2. node'[m] = node[m]
      BY <1>4, <1>6, <3>1, Ranges DEF HonestInv
    <3> QED
      BY <3>1, <3>2 DEF AllRun
  <2> QED
    BY <2>1
<1>8. AtMost(cache.version)'
  BY <1>1, Ranges DEF HonestInv, Stored
<1>9. Stored'
  BY <1>3, <1>5, <1>7, <1>8 DEF HonestInv, Stored, Claimed
<1>10. CASE pc # "idle"
  <2>1. Copied /\ Progress
    BY <1>10 DEF HonestInv, Working
  <2>2. AtMost(instance.version)'
    BY <1>1, <1>10, <2>1, Ranges DEF HonestInv, Copied
  <2>3. node[m] = instance.version => node'[m] = node[m]
    BY <1>4, <1>10, <2>1, Ranges DEF HonestInv, Copied
  <2>4. \A k \in Masters :
          node[k] = instance.version => node'[k] = instance.version
    BY <2>3
  <2>5. Copied' /\ Progress'
    BY <1>3, <2>1, <2>2, <2>4 DEF Copied, Progress, AllRun
  <2> QED
    BY <1>9, <2>5 DEF Working
<1> QED
  BY <1>9, <1>10 DEF Working

\* What a script's kubeadm does concerns neither kubelets nor running scripts.
LEMMA KubeadmSteps ==
    ASSUME NEW m \in Masters, KubeadmApplies(m) \/ KubeadmFails(m)
    PROVE  /\ UNCHANGED <<cp, cache, cluster, worker, vm, node, ready, script>>
           /\ script[m] # None /\ line[m] = "kubeadm"
BY DEF KubeadmApplies, KubeadmFails

LEMMA EndSteps ==
    ASSUME TypeOK, NEW m \in Masters, ScriptEnds(m) \/ KubeletFails(m)
    PROVE  /\ UNCHANGED <<cp, cache, cluster, worker, vm, node, server, ready,
                          broken>>
           /\ \A k \in Masters \ {m} :
                script'[k] = script[k] /\ line'[k] = line[k]
           /\ script'[m] = None /\ line'[m] = "kubeadm"
BY DEF ScriptEnds, KubeletFails, Over, TypeOK

LEMMA WorldHonest ==
    ASSUME HonestInv, NEW m \in Masters, World(m) \/ ScriptFails(m)
    PROVE  Stored' /\ Working'
<1> USE DEF worker
<1>1. CASE Join(m)
  <2>1. node' = [node EXCEPT ![m] = vm[m]] /\ node[m] = None
        /\ UNCHANGED <<cp, cache, pc, instance, todo, vm, script>>
    BY <1>1 DEF Join, scripts
  <2>2. /\ \A k \in Masters \ {m} : node'[k] = node[k]
        /\ node'[m] = vm[m]
    BY <2>1 DEF HonestInv, TypeOK
  <2> QED
    BY <2>1, <2>2, MasterStep
<1>2. CASE TurnReady(m)
  BY <1>2, MasterStep DEF TurnReady, scripts
<1>3. CASE KubeadmApplies(m) \/ KubeadmFails(m)
  BY <1>3, KubeadmSteps, MasterStep
<1>4. CASE ScriptUpgrades(m)
  <2>1. /\ vm' = [vm EXCEPT ![m] = script[m]]
        /\ node' = [node EXCEPT ![m] = script[m]]
        /\ script[m] > node[m] /\ node[m] # None
        /\ UNCHANGED <<cp, cache, pc, instance, todo, script>>
    BY <1>4 DEF ScriptUpgrades, scripts
  <2>2. /\ \A k \in Masters \ {m} : vm'[k] = vm[k] /\ node'[k] = node[k]
        /\ vm'[m] = script[m] /\ node'[m] = script[m]
    BY <2>1 DEF HonestInv, TypeOK
  <2> QED
    BY <2>1, <2>2, MasterStep
<1>5. CASE ScriptEnds(m) \/ KubeletFails(m)
  BY <1>5, EndSteps, MasterStep DEF HonestInv
<1> QED
  BY <1>1, <1>2, <1>3, <1>4, <1>5 DEF World, ScriptFails

LEMMA NextHonest ==
    ASSUME ~CanRevert, ~CanHurry, HonestInv, [Next]_vars
    PROVE  HonestInv'
<1>1. TypeOK'
  BY NextType DEF HonestInv
<1>2. CASE Reconcile
  BY <1>1, <1>2, StartHonest, ListHonest, UpdatingHonest, PutHonest,
     InspectHonest, CommandHonest, AwaitHonest, CheckHonest, WaitHonest,
     ReportHonest DEF Reconcile, HonestInv
<1>3. CASE ApiError
  BY <1>1, <1>3, FinishHonest DEF ApiError, Retry, HonestInv
<1>4. CASE Watch
  BY <1>1, <1>4, WatchHonest DEF HonestInv
<1>5. CASE Resync \/ ClusterSucceeds \/ UNCHANGED vars
  <2>1. UNCHANGED <<cp, cache, masters, pc, instance, todo>>
    BY <1>5 DEF Resync, ClusterSucceeds, vars, worker
  <2>2. Stored'
    BY <2>1, SameStored DEF HonestInv
  <2>3. Working'
    BY <2>1, SameCopied
       DEF HonestInv, Working, Progress, AllRun, AllThere, masters, scripts
  <2> QED
    BY <1>1, <2>2, <2>3 DEF HonestInv
<1>6. CASE Restart
  BY <1>1, <1>6, CacheCatchesUp, FinishWorking DEF Restart, HonestInv
<1>7. ASSUME NEW v \in Versions, Upgrade(v) PROVE HonestInv'
  BY <1>1, <1>7, UpgradeHonest DEF HonestInv
<1>8. ASSUME NEW m \in Masters, World(m) \/ ScriptFails(m) PROVE HonestInv'
  BY <1>1, <1>8, WorldHonest DEF HonestInv
<1> QED
  BY <1>2, <1>3, <1>4, <1>5, <1>6, <1>7, <1>8 DEF Next

-----------------------------------------------------------------------------
(* The API servers                                                         *)
(*                                                                         *)
(* A script comes to its kubelet after its kubeadm, so that no kubelet is  *)
(* ahead of its API server but where kubeadm failed; before the first      *)
(* success the server of the first master, which the others copy, is of the*)
(* version asked for.                                                      *)

Follows(m) ==
    /\ server[m] <= cp.version
    /\ m \notin broken => node[m] <= server[m]
    /\ script[m] # None /\ line[m] = "kubeadm" => node[m] <= script[m]
    /\ script[m] # None /\ line[m] = "kubelet" /\ m \notin broken
         => script[m] <= server[m]
    /\ script[m] = None => line[m] = "kubeadm"

ServersFollow ==
    /\ \A m \in Masters : Follows(m)
    /\ cp.status = None => server[Bootstrap] = cp.version

LEMMA ServerRanges ==
    ASSUME TypeOK
    PROVE  \A m \in Masters : server[m] \in Nat
BY Numbers DEF TypeOK

LEMMA InitServers == Init => ServersFollow
<1> SUFFICES ASSUME Init PROVE ServersFollow
  OBVIOUS
<1>1. PICK v \in Versions :
        /\ cp = [version |-> v, status |-> None, state |-> ""]
        /\ vm = [m \in Masters |-> IF m = Bootstrap THEN v ELSE None]
  BY DEF Init
<1>v. v \in Nat /\ None <= v /\ v <= v /\ None <= None
  BY Numbers DEF None
<1>2. cp.version = v /\ v \in Nat /\ None <= v /\ v <= v /\ None <= None
  BY <1>1, <1>v
<1>3. \A m \in Masters : server[m] = vm[m] /\ node[m] = vm[m]
                         /\ vm[m] \in {None, v}
                         /\ script[m] = None /\ line[m] = "kubeadm"
  BY <1>1 DEF Init
<1>4. \A m \in Masters : Follows(m)
  BY <1>2, <1>3 DEF Follows
<1>5. server[Bootstrap] = v
  BY <1>1, <1>3, BootstrapType
<1> QED
  BY <1>2, <1>4, <1>5 DEF ServersFollow

\* Steps that leave the masters' versions and scripts alone.
LEMMA SameServers ==
    ASSUME ServersFollow, UNCHANGED <<node, server, scripts>>,
           cp'.version = cp.version,
           cp'.status = None => cp.status = None
    PROVE  ServersFollow'
BY DEF ServersFollow, Follows, scripts

\* Steps of one master.
LEMMA OneServer ==
    ASSUME ServersFollow, NEW m \in Masters, UNCHANGED cp, Follows(m)',
           \A k \in Masters \ {m} :
             /\ node'[k] = node[k] /\ server'[k] = server[k]
             /\ script'[k] = script[k] /\ line'[k] = line[k]
             /\ k \in broken' <=> k \in broken,
           cp.status = None => server'[Bootstrap] = server[Bootstrap]
    PROVE  ServersFollow'
<1>1. \A k \in Masters \ {m} : Follows(k)'
  BY DEF ServersFollow, Follows
<1> QED
  BY <1>1 DEF ServersFollow

LEMMA ServersWorld ==
    ASSUME HonestInv, ServersFollow, NEW m \in Masters,
           World(m) \/ ScriptFails(m)
    PROVE  ServersFollow'
<1> USE DEF scripts
<1>1. TypeOK /\ Follows(m) /\ Stored
  BY DEF HonestInv, ServersFollow
<1>2. /\ cp.version \in Nat /\ cache.version \in Nat
      /\ vm[m] \in Nat /\ node[m] \in Nat /\ script[m] \in Nat
      /\ server[m] \in Nat
  BY <1>1, Ranges, ServerRanges
<1>3. script[m] <= cp.version
  BY <1>1, <1>2 DEF Stored, AtMost
<1>4. script[m] # None => cp.status # None
  BY <1>1 DEF Stored, Fresh
<1>5. CASE Join(m)
  <2>1. /\ node' = [node EXCEPT ![m] = vm[m]]
        /\ server' = [server EXCEPT ![m] = server[Bootstrap]]
        /\ node[m] = None /\ vm[m] # None /\ UNCHANGED <<cp, scripts>>
    BY <1>5 DEF Join
  <2>2. cp.status = None
    BY <1>1, <2>1 DEF Stored, AllThere
  <2>3. /\ vm[m] = cp.version /\ script[m] = None
        /\ server[Bootstrap] = cp.version
    BY <1>1, <2>1, <2>2 DEF Stored, Fresh, ServersFollow
  <2>4. node'[m] = cp.version /\ server'[m] = cp.version
        /\ server'[Bootstrap] = server[Bootstrap]
    BY <1>1, <2>1, <2>3, BootstrapType DEF TypeOK
  <2>5. Follows(m)'
    BY <1>1, <1>2, <2>1, <2>3, <2>4 DEF Follows
  <2>6. \A k \in Masters \ {m} : node'[k] = node[k] /\ server'[k] = server[k]
    BY <1>1, <2>1 DEF TypeOK
  <2> QED
    BY <2>1, <2>4, <2>5, <2>6, OneServer
<1>6. CASE TurnReady(m)
  BY <1>6, SameServers DEF TurnReady
<1>7. CASE KubeadmApplies(m)
  <2>1. /\ server'[m] = script[m] /\ line'[m] = "kubelet" /\ m \notin broken'
        /\ script[m] # None /\ line[m] = "kubeadm"
        /\ UNCHANGED <<cp, node, script>>
        /\ \A k \in Masters \ {m} :
             /\ server'[k] = server[k] /\ line'[k] = line[k]
             /\ k \in broken' <=> k \in broken
    BY <1>1, <1>7 DEF KubeadmApplies, TypeOK
  <2>2. Follows(m)'
    BY <1>1, <1>2, <1>3, <2>1 DEF Follows
  <2> QED
    BY <1>4, <2>1, <2>2, OneServer
<1>8. CASE KubeadmFails(m)
  <2>1. /\ line'[m] = "kubelet" /\ m \in broken' /\ script[m] # None
        /\ UNCHANGED <<cp, node, script, server>>
        /\ \A k \in Masters \ {m} :
             /\ line'[k] = line[k]
             /\ k \in broken' <=> k \in broken
    BY <1>1, <1>8 DEF KubeadmFails, TypeOK
  <2>2. Follows(m)'
    BY <1>1, <2>1 DEF Follows
  <2> QED
    BY <2>1, <2>2, OneServer
<1>9. CASE ScriptUpgrades(m)
  <2>1. /\ node'[m] = script[m] /\ line[m] = "kubelet" /\ script[m] # None
        /\ UNCHANGED <<cp, server, scripts>>
        /\ \A k \in Masters \ {m} : node'[k] = node[k]
    <3>1. script[m] > node[m] /\ script[m] # None
      BY <1>2, <1>9 DEF ScriptUpgrades, None
    <3> QED
      BY <1>1, <1>9, <3>1 DEF ScriptUpgrades, TypeOK
  <2>2. Follows(m)'
    BY <1>1, <1>2, <2>1 DEF Follows
  <2> QED
    BY <2>1, <2>2, OneServer
<1>10. CASE ScriptEnds(m) \/ KubeletFails(m)
  <2>1. /\ UNCHANGED <<cp, node, server, broken>>
        /\ script'[m] = None /\ line'[m] = "kubeadm"
        /\ \A k \in Masters \ {m} : script'[k] = script[k] /\ line'[k] = line[k]
    BY <1>1, <1>10, EndSteps
  <2>2. Follows(m)'
    BY <1>1, <2>1 DEF Follows
  <2> QED
    BY <2>1, <2>2, OneServer
<1> QED
  BY <1>5, <1>6, <1>7, <1>8, <1>9, <1>10 DEF World, ScriptFails

LEMMA ServersNext ==
    ASSUME ~CanRevert, ~CanHurry, HonestInv, ServersFollow, [Next]_vars
    PROVE  ServersFollow'
<1> USE DEF vars, worker, masters, bounds
<1>1. CASE Updating
  BY <1>1, SameServers DEF Updating, HonestInv, TypeOK, Object
<1>2. CASE Report
  <2>1. CASE cp # instance
    BY <1>2, <2>1, SameServers DEF Report
  <2>2. CASE cp = instance
    <3>1. /\ cp' = [instance EXCEPT !.status = instance.version,
                                    !.state = "Succeeded"]
          /\ instance \in Object /\ UNCHANGED masters
      BY <1>2, <2>2, CopyType DEF Report, HonestInv
    <3>2. cp'.version = cp.version /\ cp'.status = cp.version
      BY <2>2, <3>1 DEF Object
    <3>3. cp'.status # None
      BY <3>2, Ranges DEF HonestInv
    <3> QED
      BY <3>1, <3>2, <3>3, SameServers
  <2> QED
    BY <2>1, <2>2
<1>3. CASE Command
  <2>1. CASE UNCHANGED script
    BY <1>3, <2>1, SameServers DEF Command, scripts
  <2>2. CASE script[First] = None
             /\ script' = [script EXCEPT ![First] = instance.version]
    <3>1. /\ pc # "idle" /\ UNCHANGED <<cp, node, server, line, broken>>
      BY <1>3 DEF Command
    <3>2. AtMost(instance.version) /\ instance.version \in Nat
      BY <3>1, Ranges DEF HonestInv, Working, Copied
    <3>3. \A m \in Masters :
            script'[m] = script[m] \/
            (m = First /\ script'[m] = instance.version)
      BY <2>2 DEF HonestInv, TypeOK
    <3>4. ASSUME NEW m \in Masters PROVE Follows(m)'
      <4>1. Follows(m)
        BY DEF ServersFollow
      <4>2. CASE script'[m] = script[m]
        BY <3>1, <4>1, <4>2 DEF Follows
      <4>3. CASE m = First /\ script'[m] = instance.version
        <5>1. line[m] = "kubeadm" /\ node[m] <= instance.version
          BY <2>2, <3>2, <4>1, <4>3 DEF Follows, AtMost
        <5>2. instance.version # None
          BY <3>1, Ranges DEF HonestInv
        <5> QED
          BY <3>1, <4>1, <4>3, <5>1, <5>2 DEF Follows
      <4> QED
        BY <3>3, <4>2, <4>3
    <3> QED
      BY <3>1, <3>4 DEF ServersFollow
  <2> QED
    BY <1>3, <2>1, <2>2 DEF Command
<1>4. ASSUME NEW v \in Versions, Upgrade(v) PROVE ServersFollow'
  <2>1. /\ v > cp.version /\ cp'.version = v /\ cp'.status = cp.status
        /\ cp.status # None /\ UNCHANGED masters
    BY <1>4 DEF Upgrade, HonestInv, TypeOK, Object
  <2>2. /\ v \in Nat /\ cp.version \in Nat
        /\ \A m \in Masters : server[m] \in Nat
    BY Numbers, Ranges, ServerRanges DEF HonestInv
  <2>3. \A m \in Masters : server[m] <= cp'.version
    BY <2>1, <2>2 DEF ServersFollow, Follows
  <2> QED
    BY <2>1, <2>3 DEF ServersFollow, Follows, scripts
<1>5. ASSUME NEW m \in Masters, World(m) \/ ScriptFails(m)
      PROVE  ServersFollow'
  BY <1>5, ServersWorld
<1>6. CASE Start \/ List \/ Put \/ Inspect \/ Await \/ Check \/ Wait
  BY <1>6, SameServers DEF Start, List, Put, Inspect, Await, Check, Wait
<1>7. CASE ApiError \/ Watch \/ Resync \/ Restart \/ ClusterSucceeds
  BY <1>7, SameServers DEF ApiError, Watch, Resync, Restart, ClusterSucceeds
<1>8. CASE UNCHANGED vars
  BY <1>8, SameServers
<1> QED
  BY <1>1, <1>2, <1>3, <1>4, <1>5, <1>6, <1>7, <1>8 DEF Next, Reconcile

LEMMA ServersHonest == HonestInv /\ ServersFollow => HonestReport
<1> SUFFICES ASSUME HonestInv, ServersFollow, Claimed
             PROVE  /\ \A m \in Masters : node[m] = cp.version
                    /\ \A m \in Masters \ broken : server[m] = cp.version
  BY DEF HonestReport, ServersAt
<1>1. \A m \in Masters : node[m] = cp.version
  BY DEF HonestInv, Stored, AllRun
<1>2. /\ cp.version \in Nat
      /\ \A m \in Masters : server[m] \in Nat
  BY Ranges, ServerRanges DEF HonestInv
<1> QED
  BY <1>1, <1>2 DEF ServersFollow, Follows

\* When a version is only ever replaced by a later one, and the first not before
\* it is reported, the control plane never claims a version that a master's
\* kubelet does not run, nor one that an API server does not run whose kubeadm
\* did not fail, however many calls fail, scripts break off and managers restart.
THEOREM ReportIsHonest ==
    ~CanRevert /\ ~CanHurry => (Spec => []HonestReport)
<1> SUFFICES ASSUME ~CanRevert, ~CanHurry PROVE Spec => []HonestReport
  OBVIOUS
<1>1. Init => HonestInv /\ ServersFollow
  BY InitType, InitHonest, InitServers DEF HonestInv
<1>2. HonestInv /\ ServersFollow /\ [Next]_vars => HonestInv' /\ ServersFollow'
  BY NextHonest, ServersNext
<1> QED
  BY <1>1, <1>2, ServersHonest, PTL DEF Spec

-----------------------------------------------------------------------------
(* What an upgrade reached stays                                           *)

\* No script is above the cached version, and a reconciliation under way works
\* for a version its copy does not report: users who hurry change neither.
Forward ==
    /\ cache.version <= cp.version
    /\ \A m \in Masters : script[m] <= cache.version
    /\ pc # "idle" => /\ instance.version <= cache.version
                      /\ instance.version # instance.status

LEMMA InitForward == Init => Forward
<1> SUFFICES ASSUME Init PROVE Forward
  OBVIOUS
<1>1. TypeOK /\ cache = cp /\ pc = "idle"
  BY InitType DEF Init
<1>2. cp.version \in Nat
  BY <1>1, Ranges
<1>3. \A m \in Masters : script[m] = 0
  BY DEF Init, None
<1>4. \A n \in Nat : 0 <= n /\ n <= n
  OBVIOUS
<1> QED
  BY <1>1, <1>2, <1>3, <1>4 DEF Forward

\* The cache may catch up at any time.
LEMMA CacheForward ==
    ASSUME TypeOK, Forward, cache' = cp, UNCHANGED <<cp, script>>,
           pc' = "idle" \/ UNCHANGED <<pc, instance>>
    PROVE  Forward'
<1>1. /\ cp.version \in Nat /\ cache.version \in Nat
      /\ \A m \in Masters : script[m] \in Nat
      /\ pc # "idle" => instance.version \in Nat
  BY Ranges
<1>2. \A m \in Masters : script[m] <= cp.version
  BY <1>1 DEF Forward
<1>3. pc # "idle" => instance.version <= cp.version
  BY <1>1 DEF Forward
<1> QED
  BY <1>1, <1>2, <1>3 DEF Forward

LEMMA ForwardNext ==
    ASSUME ~CanRevert, TypeOK, Forward, [Next]_vars
    PROVE  Forward'
<1> USE DEF vars, worker, masters, scripts, bounds
<1>1. ASSUME UNCHANGED <<cp, cache, script>>,
             pc' = "idle" \/ (pc # "idle" /\ UNCHANGED instance)
      PROVE  Forward'
  BY <1>1 DEF Forward
<1>2. CASE Start
  <2>1. CASE pc' = "idle"
    BY <1>1, <1>2, <2>1 DEF Start
  <2>2. CASE pc' # "idle"
    <3>1. instance' = cache /\ cache.version # cache.status
          /\ UNCHANGED <<cp, cache, script>>
      BY <1>2, <2>2 DEF Start
    <3>2. cache.version <= cache.version
      BY Ranges
    <3> QED
      BY <3>1, <3>2 DEF Forward
  <2> QED
    BY <2>1, <2>2
<1>3. CASE Updating
  <2>1. CASE cp # instance
    BY <1>1, <1>3, <2>1 DEF Updating, Retry, Finish
  <2>2. CASE cp = instance
    <3>1. /\ pc # "idle" /\ UNCHANGED <<cache, script>>
          /\ cp' = [instance EXCEPT !.state = "Updating"] /\ instance' = cp'
          /\ instance \in Object
      BY <1>3, <2>2, CopyType DEF Updating
    <3>2. /\ cp'.version = cp.version
          /\ instance'.version = instance.version
          /\ instance'.status = instance.status
      BY <2>2, <3>1 DEF Object
    <3> QED
      BY <3>1, <3>2 DEF Forward
  <2> QED
    BY <2>1, <2>2
<1>4. CASE Command
  <2>1. CASE UNCHANGED script
    BY <1>1, <1>4, <2>1 DEF Command, Retry, Finish, Goto
  <2>2. CASE script' = [script EXCEPT ![First] = instance.version] /\ Goto("await")
    <3>1. pc # "idle" /\ UNCHANGED <<cp, cache, instance>>
      BY <1>4, <2>2 DEF Command, Goto
    <3>2. \A m \in Masters :
            script'[m] = script[m] \/ script'[m] = instance.version
      BY <2>2 DEF TypeOK
    <3> QED
      BY <3>1, <3>2 DEF Forward
  <2> QED
    BY <1>4, <2>1, <2>2 DEF Command
<1>5. CASE Report
  <2>1. CASE cp # instance
    BY <1>1, <1>5, <2>1 DEF Report, Retry, Finish
  <2>2. CASE cp = instance
    <3>1. /\ cp' = [instance EXCEPT !.status = instance.version,
                                    !.state = "Succeeded"]
          /\ instance \in Object /\ pc' = "idle" /\ UNCHANGED <<cache, script>>
      BY <1>5, <2>2, CopyType DEF Report, Done, Finish
    <3>2. cp'.version = cp.version
      BY <2>2, <3>1 DEF Object
    <3> QED
      BY <3>1, <3>2 DEF Forward
  <2> QED
    BY <2>1, <2>2
<1>6. CASE List \/ Put \/ Inspect \/ Await \/ Check \/ Wait \/ ApiError
  BY <1>1, <1>6 DEF List, Put, Inspect, Await, Check, Wait, ApiError, Retry,
                    Finish, Goto
<1>7. CASE Watch \/ Restart
  BY <1>7, CacheForward DEF Watch, Restart, Finish
<1>8. CASE Resync \/ ClusterSucceeds \/ UNCHANGED vars
  BY <1>8 DEF Resync, ClusterSucceeds, Forward
<1>9. ASSUME NEW v \in Versions, Upgrade(v) PROVE Forward'
  <2>1. v > cp.version /\ cp'.version = v
    BY <1>9 DEF Upgrade, TypeOK, Object
  <2>2. v \in Nat /\ cp.version \in Nat /\ cache.version \in Nat
    BY Numbers, Ranges
  <2>3. cache.version <= cp'.version
    BY <2>1, <2>2 DEF Forward
  <2> QED
    BY <1>9, <2>3 DEF Upgrade, Forward
<1>10. ASSUME NEW m \in Masters, World(m) \/ ScriptFails(m) PROVE Forward'
  <2>1. UNCHANGED <<cp, cache, pc, instance>>
        /\ \A k \in Masters : script'[k] = script[k] \/ script'[k] = None
    <3>1. CASE Join(m) \/ TurnReady(m) \/ ScriptUpgrades(m)
      BY <3>1 DEF Join, TurnReady, ScriptUpgrades
    <3>2. CASE KubeadmApplies(m) \/ KubeadmFails(m)
      BY <3>2, KubeadmSteps
    <3>3. CASE ScriptEnds(m) \/ KubeletFails(m)
      BY <3>3, EndSteps
    <3> QED
      BY <1>10, <3>1, <3>2, <3>3 DEF World, ScriptFails
  <2>2. None <= cache.version
    BY Ranges DEF None
  <2> QED
    BY <2>1, <2>2 DEF Forward
<1> QED
  BY <1>2, <1>3, <1>4, <1>5, <1>6, <1>7, <1>8, <1>9, <1>10 DEF Next, Reconcile

\* A copy that differs from its own report is not the object of an upgrade that
\* is over, and no script is above what the masters run.
LEMMA SettledNext ==
    ASSUME TypeOK, Forward, Settled, UNCHANGED edits, [Next]_vars
    PROVE  Settled'
<1> USE DEF vars, worker, masters, scripts, bounds
<1>1. /\ cp.state = "Succeeded" /\ cp.status = cp.version
      /\ \A m \in Masters : node[m] = cp.version /\ ready[m]
      /\ cp.version \in Nat /\ cp.version # None
  BY Ranges DEF Settled, Claimed
<1>2. ASSUME UNCHANGED <<cp, node, ready>>
      PROVE  Settled'
  BY <1>2 DEF Settled, Claimed
<1>3. CASE Updating \/ Report
  <2>1. cp # instance
    BY <1>1, <1>3 DEF Forward, Updating, Report
  <2> QED
    BY <1>2, <1>3, <2>1 DEF Updating, Report
<1>4. CASE \E v \in Versions : Upgrade(v)
  <2>1. edits' = edits + 1 /\ edits \in Nat
    BY <1>4, BoundsAssumption DEF Upgrade, TypeOK
  <2> QED
    BY <2>1
<1>5. ASSUME NEW m \in Masters, World(m) \/ ScriptFails(m)
      PROVE  Settled'
  <2>1. CASE Join(m)
    BY <1>1, <2>1 DEF Join
  <2>2. CASE TurnReady(m)
    BY <1>1, <2>2 DEF TurnReady
  <2>3. CASE ScriptUpgrades(m)
    <3>1. script[m] <= cache.version /\ cache.version <= cp.version
      BY DEF Forward
    <3>2. /\ script[m] \in Nat /\ cache.version \in Nat
      BY Ranges
    <3>3. script[m] > cp.version
      BY <1>1, <2>3 DEF ScriptUpgrades
    <3> QED
      BY <1>1, <3>1, <3>2, <3>3
  <2>4. CASE ScriptEnds(m) \/ KubeletFails(m)
    BY <1>2, <2>4, EndSteps
  <2>5. CASE KubeadmApplies(m) \/ KubeadmFails(m)
    BY <1>2, <2>5, KubeadmSteps
  <2> QED
    BY <1>5, <2>1, <2>2, <2>3, <2>4, <2>5 DEF World, ScriptFails
<1>6. CASE Start \/ List \/ Put \/ Inspect \/ Command \/ Await \/ Check \/ Wait
  BY <1>2, <1>6 DEF Start, List, Put, Inspect, Command, Await, Check, Wait
<1>7. CASE ApiError \/ Watch \/ Resync \/ Restart \/ ClusterSucceeds
  BY <1>2, <1>7 DEF ApiError, Watch, Resync, Restart, ClusterSucceeds
<1>8. CASE UNCHANGED vars
  BY <1>2, <1>8
<1> QED
  BY <1>3, <1>4, <1>5, <1>6, <1>7, <1>8 DEF Next, Reconcile

\* Users who only go forward keep what an upgrade reached until they ask for the
\* next, whatever fails or restarts: no old copy and no script that was left
\* behind undoes it. They need not wait for the first success.
THEOREM NoRelapse == ~CanRevert => (Spec => SettledStays)
<1> SUFFICES ASSUME ~CanRevert PROVE Spec => SettledStays
  OBVIOUS
<1>1. Init => Forward
  BY InitForward
<1>2. TypeOK /\ Forward /\ [Next]_vars => Forward'
  BY ForwardNext
<1>3. TypeOK /\ Forward /\ [Next]_vars
        => [Settled /\ UNCHANGED edits => Settled']_vars
  BY SettledNext
<1> QED
  BY <1>1, <1>2, <1>3, Typing, PTL DEF Spec, SettledStays

-----------------------------------------------------------------------------
(* The masters are between what is said and what is asked                  *)

\* None is below all versions, so that this speaks of the time after the first
\* report; the rest of VersionSkew is in what is stored.
Caught == \A m \in Masters : cp.status <= node[m]

LEMMA InitCaught == Init => Caught
<1> SUFFICES ASSUME Init PROVE Caught
  OBVIOUS
<1>1. cp.status = None
  <2>1. PICK v \in Versions : cp = [version |-> v, status |-> None, state |-> ""]
    BY DEF Init
  <2> QED
    BY <2>1
<1>2. \A m \in Masters : node[m] \in Nat
  BY InitType, Ranges
<1>3. \A n \in Nat : 0 <= n
  OBVIOUS
<1> QED
  BY <1>1, <1>2, <1>3 DEF Caught, None

LEMMA CaughtNext ==
    ASSUME HonestInv, HonestInv', Caught, [Next]_vars
    PROVE  Caught'
<1> USE DEF vars, worker, masters, scripts, bounds
<1>1. ASSUME cp'.status = cp.status, UNCHANGED node
      PROVE  Caught'
  BY <1>1 DEF Caught
<1>2. CASE Updating
  BY <1>1, <1>2 DEF Updating, HonestInv, TypeOK, Object
<1>3. CASE Report
  <2>1. CASE cp # instance
    BY <1>1, <1>3, <2>1 DEF Report
  <2>2. CASE cp = instance
    <3>1. /\ cp' = [instance EXCEPT !.status = instance.version,
                                    !.state = "Succeeded"]
          /\ instance \in Object
      BY <1>3, <2>2, CopyType DEF Report, HonestInv
    <3>2. cp'.state = "Succeeded" /\ cp'.status = cp'.version
      BY <3>1 DEF Object
    <3>3. \A m \in Masters : node'[m] = cp'.status
      BY <3>2 DEF HonestInv, Stored, Claimed, AllRun
    <3>4. cp'.status = instance.version /\ instance.version \in Nat
      BY <1>3, <3>1, Ranges DEF Report, HonestInv, Object
    <3> QED
      BY <3>3, <3>4 DEF Caught
  <2> QED
    BY <2>1, <2>2
<1>4. ASSUME NEW v \in Versions, Upgrade(v) PROVE Caught'
  BY <1>1, <1>4 DEF Upgrade, HonestInv, TypeOK, Object
<1>5. ASSUME NEW m \in Masters, World(m) \/ ScriptFails(m)
      PROVE  Caught'
  <2>1. CASE Join(m)
    <3>1. cp.status <= None /\ cp.status \in Nat /\ vm[m] \in Nat
      BY <2>1, Ranges DEF Join, Caught, HonestInv
    <3>2. cp.status <= vm[m]
      BY <3>1 DEF None
    <3> QED
      BY <2>1, <3>2 DEF Join, Caught, HonestInv, TypeOK
  <2>2. CASE ScriptUpgrades(m)
    <3>1. /\ cp.status <= node[m] /\ script[m] > node[m]
          /\ cp.status \in Nat /\ node[m] \in Nat /\ script[m] \in Nat
      BY <2>2, Ranges DEF ScriptUpgrades, Caught, HonestInv
    <3>2. cp.status <= script[m]
      BY <3>1
    <3> QED
      BY <2>2, <3>2 DEF ScriptUpgrades, Caught, HonestInv, TypeOK
  <2>3. CASE TurnReady(m) \/ ScriptEnds(m) \/ KubeletFails(m)
    BY <1>1, <2>3, EndSteps DEF TurnReady, HonestInv
  <2>4. CASE KubeadmApplies(m) \/ KubeadmFails(m)
    BY <1>1, <2>4, KubeadmSteps
  <2> QED
    BY <1>5, <2>1, <2>2, <2>3, <2>4 DEF World, ScriptFails
<1>6. CASE Start \/ List \/ Put \/ Inspect \/ Command \/ Await \/ Check \/ Wait
  BY <1>1, <1>6 DEF Start, List, Put, Inspect, Command, Await, Check, Wait
<1>7. CASE ApiError \/ Watch \/ Resync \/ Restart \/ ClusterSucceeds
  BY <1>1, <1>7 DEF ApiError, Watch, Resync, Restart, ClusterSucceeds
<1>8. CASE UNCHANGED vars
  BY <1>1, <1>8
<1> QED
  BY <1>2, <1>3, <1>4, <1>5, <1>6, <1>7, <1>8 DEF Next, Reconcile

LEMMA CaughtSkew == HonestInv /\ ServersFollow /\ Caught => VersionSkew
<1> SUFFICES ASSUME HonestInv, ServersFollow, Caught, NEW m \in Masters
             PROVE  /\ node[m] <= cp.version /\ server[m] <= cp.version
                    /\ m \notin broken => node[m] <= server[m]
                    /\ cp.status <= node[m]
                    /\ cp.status = None => node[m] \in {None, cp.version}
  BY DEF VersionSkew
<1>1. node[m] <= cp.version
  BY Ranges DEF HonestInv, Stored, AtMost
<1> QED
  BY <1>1 DEF HonestInv, Stored, Fresh, Caught, ServersFollow, Follows

\* However many upgrades were broken off, by failures, restarts and versions
\* asked for on the way: with users who only go forward and wait for the first
\* success, no kubelet of a master is behind what was reported or ahead of what is
\* asked, nor ahead of its master's API server unless kubeadm failed there.
THEOREM SkewIsBounded ==
    ~CanRevert /\ ~CanHurry => (Spec => []VersionSkew)
<1> SUFFICES ASSUME ~CanRevert, ~CanHurry PROVE Spec => []VersionSkew
  OBVIOUS
<1> DEFINE Inv == HonestInv /\ ServersFollow /\ Caught
<1>1. Init => Inv
  BY InitType, InitHonest, InitServers, InitCaught DEF HonestInv
<1>2. Inv /\ [Next]_vars => Inv'
  BY NextHonest, ServersNext, CaughtNext
<1>3. Inv => VersionSkew
  BY CaughtSkew
<1> QED
  BY <1>1, <1>2, <1>3, PTL DEF Spec

-----------------------------------------------------------------------------
(* The controller keeps the contract of a control plane                    *)

LEMMA InitContract == Init => Contract!Init
<1> SUFFICES ASSUME Init PROVE Contract!Init
  OBVIOUS
<1>1. PICK v \in Versions :
        /\ cp = [version |-> v, status |-> None, state |-> ""]
        /\ vm = [m \in Masters |-> IF m = Bootstrap THEN v ELSE None]
  BY DEF Init
<1>2. node = vm
  BY DEF Init
<1>3. node \in [Masters -> {None, cp.version}]
  BY <1>1, <1>2
<1> QED
  BY <1>1, <1>3 DEF Contract!Init

LEMMA NextContract ==
    ASSUME ~CanRevert, ~CanHurry, HonestInv, HonestInv', [Next]_vars
    PROVE  [Contract!Next]_(Contract!vars)
<1> USE DEF vars, worker, masters, scripts, bounds
<1>1. ASSUME cp'.version = cp.version, cp'.status = cp.status, UNCHANGED node
      PROVE  UNCHANGED Contract!vars
  BY <1>1 DEF Contract!vars
<1>2. CASE Updating
  BY <1>1, <1>2 DEF Updating, HonestInv, TypeOK, Object
<1>3. CASE Report
  <2>1. CASE cp # instance
    BY <1>1, <1>3, <2>1 DEF Report
  <2>2. CASE cp = instance
    <3>1. /\ cp' = [instance EXCEPT !.status = instance.version,
                                    !.state = "Succeeded"]
          /\ instance \in Object /\ UNCHANGED node
      BY <1>3, <2>2, CopyType DEF Report, HonestInv
    <3>2. /\ cp'.state = "Succeeded" /\ cp'.status = cp.version
          /\ cp'.version = cp.version
      BY <2>2, <3>1 DEF Object
    <3>3. \A m \in Masters : node[m] = cp.version
      <4>1. \A m \in Masters : node'[m] = cp'.version
        BY <3>2 DEF HonestInv, Stored, Claimed, AllRun
      <4> QED
        BY <3>1, <3>2, <4>1
    <3>4. cp.version # None
      BY Ranges DEF HonestInv
    <3>5. Contract!Report
      BY <3>1, <3>2, <3>3, <3>4 DEF Contract!Report
    <3> QED
      BY <3>5 DEF Contract!Next, Contract!Controller
  <2> QED
    BY <2>1, <2>2
<1>4. ASSUME NEW v \in Versions, Upgrade(v)
      PROVE  Contract!Next
  <2>1. /\ cp'.version = v /\ v > cp.version /\ cp'.status = cp.status
        /\ cp.status # None /\ UNCHANGED node
    BY <1>4 DEF Upgrade, HonestInv, TypeOK, Object
  <2>2. Contract!Upgrade
    BY <2>1, Ranges DEF Contract!Upgrade, HonestInv
  <2> QED
    BY <2>2 DEF Contract!Next, Contract!Owner
<1>5. ASSUME NEW m \in Masters, World(m) \/ ScriptFails(m)
      PROVE  [Contract!Next]_(Contract!vars)
  <2>1. CASE Join(m)
    <3>1. cp.status = None
      BY <2>1 DEF Join, HonestInv, Stored, AllThere
    <3>2. vm[m] = cp.version
      BY <2>1, <3>1 DEF Join, HonestInv, Stored, Fresh
    <3>3. Contract!Join
      BY <2>1, <3>1, <3>2, Ranges DEF Join, Contract!Join, HonestInv
    <3> QED
      BY <3>3 DEF Contract!Next, Contract!Controller
  <2>2. CASE ScriptUpgrades(m)
    <3>1. /\ node' = [node EXCEPT ![m] = script[m]]
          /\ node[m] # None /\ script[m] > node[m] /\ UNCHANGED cp
      BY <2>2 DEF ScriptUpgrades
    <3>2. node[m] < script[m] /\ script[m] <= cp.version /\ script[m] # None
      BY <3>1, Ranges DEF HonestInv, Stored, AtMost, None
    <3>3. script[m] \in Versions
      BY <3>2 DEF HonestInv, TypeOK
    <3>4. cp.status # None
      BY <3>2 DEF HonestInv, Stored, Fresh
    <3>5. Contract!Install
      BY <3>1, <3>2, <3>3, <3>4 DEF Contract!Install
    <3> QED
      BY <3>5 DEF Contract!Next, Contract!Controller
  <2>3. CASE TurnReady(m) \/ ScriptEnds(m) \/ KubeletFails(m)
    BY <1>1, <2>3, EndSteps DEF TurnReady, HonestInv
  <2>4. CASE KubeadmApplies(m) \/ KubeadmFails(m)
    BY <1>1, <2>4, KubeadmSteps
  <2> QED
    BY <1>5, <2>1, <2>2, <2>3, <2>4 DEF World, ScriptFails
<1>6. CASE Start \/ List \/ Put \/ Inspect \/ Command \/ Await \/ Check \/ Wait
  BY <1>1, <1>6 DEF Start, List, Put, Inspect, Command, Await, Check, Wait
<1>7. CASE ApiError \/ Watch \/ Resync \/ Restart \/ ClusterSucceeds
  BY <1>1, <1>7 DEF ApiError, Watch, Resync, Restart, ClusterSucceeds
<1>8. CASE UNCHANGED vars
  BY <1>1, <1>8
<1> QED
  BY <1>2, <1>3, <1>4, <1>5, <1>6, <1>7, <1>8 DEF Next, Reconcile

\* The controller with its copies, caches, scale set and scripts implements the
\* contract of a control plane, for users who only go forward and wait for the
\* first success: nothing it leaves behind shows as a step of another kind.
THEOREM ContractIsKept ==
    ~CanRevert /\ ~CanHurry => (Spec => KeepsContract)
<1> SUFFICES ASSUME ~CanRevert, ~CanHurry PROVE Spec => KeepsContract
  OBVIOUS
<1>1. Init => HonestInv /\ Contract!Init
  BY InitType, InitHonest, InitContract DEF HonestInv
<1>2. HonestInv /\ [Next]_vars => HonestInv'
  BY NextHonest
<1>3. HonestInv /\ HonestInv' /\ [Next]_vars => [Contract!Next]_(Contract!vars)
  BY NextContract
<1> QED
  BY <1>1, <1>2, <1>3, PTL DEF Spec, KeepsContract, Contract!Spec

-----------------------------------------------------------------------------
(* Masters are upgraded one after the other                                *)

Running == {m \in Masters : script[m] # None}

\* A reconciliation has at most one script of its own, while it waits for it;
\* every other one was left behind by a failure or a restart.
LeftBehind == IF pc = "await" THEN Running \ {First} ELSE Running

FewLeft == Cardinality(LeftBehind) <= faults

LEMMA RunningFinite ==
    /\ IsFiniteSet(Running) /\ Cardinality(Running) \in Nat
    /\ IsFiniteSet(LeftBehind) /\ Cardinality(LeftBehind) \in Nat
    /\ Cardinality(Running) <= Cardinality(LeftBehind) + 1
<1>1. IsFiniteSet(Masters)
  BY CountAssumption, FS_Interval DEF Masters
<1>2. IsFiniteSet(Running)
  BY <1>1, FS_Subset DEF Running
<1>3. IsFiniteSet(Running \ {First}) /\ Running \ {First} \subseteq Running
  BY <1>2, FS_Subset
<1>4. Cardinality(Running) \in Nat /\ Cardinality(Running \ {First}) \in Nat
  BY <1>2, <1>3, FS_CardinalityType
<1>5. Cardinality(Running \ {First})
        = IF First \in Running THEN Cardinality(Running) - 1
                               ELSE Cardinality(Running)
  BY <1>2, FS_RemoveElement
<1> QED
  BY <1>2, <1>3, <1>4, <1>5 DEF LeftBehind

\* A step after which no other script is left behind.
LEMMA FewerLeft ==
    ASSUME TypeOK, TypeOK', FewLeft, LeftBehind' \subseteq LeftBehind,
           faults <= faults'
    PROVE  FewLeft'
<1>1. /\ Cardinality(LeftBehind') <= Cardinality(LeftBehind)
      /\ Cardinality(LeftBehind') \in Nat /\ Cardinality(LeftBehind) \in Nat
  BY RunningFinite, FS_Subset, FS_CardinalityType
<1> QED
  BY <1>1 DEF FewLeft, TypeOK

\* A failure that ends a reconciliation leaves at most its own script behind.
LEMMA OneMoreLeft ==
    ASSUME TypeOK, FewLeft, NEW call, Fault(call), NEW again, Finish(again),
           UNCHANGED script
    PROVE  FewLeft'
<1>1. Running' = Running /\ LeftBehind' = Running
  BY DEF Running, LeftBehind, Finish
<1>2. faults' = faults + 1 /\ faults \in Nat
  BY BoundsAssumption DEF Fault, TypeOK
<1> QED
  BY <1>1, <1>2, RunningFinite DEF FewLeft

LEMMA FewLeftNext ==
    ASSUME TypeOK, TypeOK', FewLeft, [Next]_vars
    PROVE  FewLeft'
<1> USE DEF vars, worker, masters, scripts, bounds
<1>1. CASE Start \/ Updating \/ Wait \/ Report
  <2>1. pc # "await" /\ pc' # "await" /\ UNCHANGED <<script, faults>>
    BY <1>1
    DEF Start, Updating, Wait, Report, Goto, Retry, Done, Finish
  <2> QED
    BY <2>1, FewerLeft DEF LeftBehind, Running, TypeOK
<1>2. CASE List \/ Put \/ ApiError
  <2>1. pc # "await" /\ pc' # "await" /\ UNCHANGED script
    BY <1>2 DEF List, Put, ApiError, Goto, Retry, Finish
  <2>2. faults <= faults'
    BY <1>2, BoundsAssumption DEF List, Put, ApiError, Fault, TypeOK
  <2> QED
    BY <2>1, <2>2, FewerLeft DEF LeftBehind, Running
<1>3. CASE Inspect \/ Check
  <2>1. pc # "await" /\ pc' # "await" /\ UNCHANGED <<script, faults>>
    BY <1>3 DEF Inspect, Check, Goto, Retry, Finish
  <2> QED
    BY <2>1, FewerLeft DEF LeftBehind, Running, TypeOK
<1>4. CASE Command
  <2>1. CASE Fault("azure") /\ Retry /\ UNCHANGED script
    BY <2>1, OneMoreLeft DEF Retry
  <2>2. CASE UNCHANGED <<script, bounds>> /\ Retry
    <3>1. LeftBehind' \subseteq LeftBehind
      BY <1>4, <2>2 DEF Command, LeftBehind, Running, Retry, Finish
    <3> QED
      BY <2>2, <3>1, FewerLeft DEF TypeOK
  <2>3. CASE Goto("await")
    <3>1. /\ script' = [script EXCEPT ![First] = instance.version]
          /\ UNCHANGED <<todo, bounds>> /\ pc = "command" /\ pc' = "await"
      BY <1>4, <2>3 DEF Command, Goto, Retry, Finish
    <3>2. First' = First
      BY <3>1 DEF First
    <3>3. LeftBehind' \subseteq LeftBehind
      BY <3>1, <3>2 DEF LeftBehind, Running, TypeOK
    <3> QED
      BY <3>1, <3>3, FewerLeft DEF TypeOK
  <2> QED
    BY <1>4, <2>1, <2>2, <2>3 DEF Command
<1>5. CASE Await
  <2>1. CASE Fault("azure") /\ Retry
    BY <1>5, <2>1, OneMoreLeft DEF Await, Retry
  <2>2. CASE CommandOver(First) /\ Goto("check") /\ UNCHANGED bounds
    <3>1. LeftBehind' \subseteq LeftBehind
      BY <1>5, <2>2 DEF Await, LeftBehind, Running, Goto, CommandOver
    <3> QED
      BY <2>2, <3>1, FewerLeft DEF TypeOK
  <2> QED
    BY <1>5, <2>1, <2>2 DEF Await
<1>6. CASE Restart
  BY <1>6, OneMoreLeft DEF Restart
<1>7. CASE UNCHANGED <<pc, todo, script, faults>>
  BY <1>7, FewerLeft DEF LeftBehind, Running, First, TypeOK
<1>8. ASSUME NEW m \in Masters, World(m) \/ ScriptFails(m) PROVE FewLeft'
  <2>1. faults <= faults'
    BY <1>8, BoundsAssumption
    DEF World, Join, TurnReady, ScriptUpgrades, ScriptEnds, KubeadmApplies,
        ScriptFails, KubeadmFails, KubeletFails, Fault, TypeOK
  <2>2. UNCHANGED <<pc, todo>> /\ Running' \subseteq Running
    <3>1. CASE Join(m) \/ TurnReady(m) \/ ScriptUpgrades(m)
      BY <3>1 DEF Running, Join, TurnReady, ScriptUpgrades
    <3>2. CASE KubeadmApplies(m) \/ KubeadmFails(m)
      BY <3>2, KubeadmSteps DEF Running
    <3>3. CASE ScriptEnds(m) \/ KubeletFails(m)
      BY <3>3, EndSteps DEF Running
    <3> QED
      BY <1>8, <3>1, <3>2, <3>3 DEF World, ScriptFails
  <2> QED
    BY <2>1, <2>2, FewerLeft DEF LeftBehind, First
<1> QED
  BY <1>1, <1>2, <1>3, <1>4, <1>5, <1>6, <1>7, <1>8
  DEF Next, Reconcile, Watch, Resync, ClusterSucceeds, Upgrade

\* At most one upgrade script runs, and one more for each failure and restart
\* that left one behind, for any number of masters and upgrades and whatever
\* users ask for.
THEOREM UpgradesTakeTurns == Spec => []OneAtATime
<1>1. Init => FewLeft
  <2> SUFFICES ASSUME Init PROVE FewLeft
    OBVIOUS
  <2>1. LeftBehind = {}
    BY DEF Init, LeftBehind, Running
  <2>2. Cardinality({}) = 0
    BY FS_EmptySet
  <2>3. Cardinality(LeftBehind) = 0 /\ faults = 0
    BY <2>1, <2>2 DEF Init
  <2> QED
    BY <2>3 DEF FewLeft
<1>2. TypeOK /\ TypeOK' /\ FewLeft /\ [Next]_vars => FewLeft'
  BY FewLeftNext
<1>3. TypeOK /\ FewLeft => OneAtATime
  BY RunningFinite, BoundsAssumption DEF FewLeft, OneAtATime, Running, TypeOK
<1> QED
  BY <1>1, <1>2, <1>3, Typing, PTL DEF Spec
=============================================================================
