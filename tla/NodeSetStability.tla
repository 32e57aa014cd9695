-------------------------- MODULE NodeSetStability --------------------------
(***************************************************************************)
(* What the NodeSet controller reached it keeps, and what it reports of    *)
(* the VMs is complete, for every value of the constants: the safety that  *)
(* Converges rests on.                                                     *)
(***************************************************************************)
EXTENDS NodeSetRefinement

-----------------------------------------------------------------------------
(* Every VM is in the status of a NodeSet that Succeeded                   *)

\* The steps at which the scale set may change.
Changing == {"put", "evict", "removevm", "resize"}

Listed(S) == vms \cup leaving \subseteq S

\* The list of a reconciliation that has not come to change anything is whole,
\* and one that has come to it has first said so in the status.
ListedInv ==
    /\ StatusListsVMs
    /\ pc \in {"scaling", "wait", "report"} => Listed(instance.nodes)
    /\ pc \in Changing => obj = Absent \/ obj.state # "Succeeded"

\* The status stays as it is and no VM comes.
LEMMA ListedKept ==
    ASSUME ListedInv, vms' \cup leaving' \subseteq vms \cup leaving,
           UNCHANGED instance,
           obj' # Absent => obj # Absent /\ obj'.state = obj.state
                            /\ obj'.nodes = obj.nodes,
           pc' \in {"scaling", "wait", "report"} =>
             pc \in {"scaling", "wait", "report"},
           pc' \in Changing => pc \in Changing
    PROVE  ListedInv'
BY DEF ListedInv, StatusListsVMs, Listed

\* A reconciliation ends, or begins, with the VMs as they were.
LEMMA ListedFinish ==
    ASSUME ListedInv, vms' \cup leaving' \subseteq vms \cup leaving,
           obj' # Absent => obj # Absent /\ obj'.state = obj.state
                            /\ obj'.nodes = obj.nodes,
           pc' \notin {"scaling", "wait", "report"} \cup Changing
    PROVE  ListedInv'
BY DEF ListedInv, StatusListsVMs, Listed

\* It writes that it is about to change the scale set.
LEMMA ListedWrite ==
    ASSUME TypeOK, ListedInv, pc # "idle", NEW state, state # "Succeeded",
           NEW step \in Changing,
           Write([instance EXCEPT !.state = state], step),
           UNCHANGED <<vms, leaving>>
    PROVE  ListedInv'
<1>1. CASE obj = read
  <2>1. pc' = step /\ obj'.state # "Succeeded"
    BY <1>1, CopyType DEF Write, Object
  <2> QED
    BY <2>1 DEF ListedInv, StatusListsVMs, Changing
<1>2. CASE obj # read
  BY <1>2, ListedFinish DEF Write, Retry, Finish, Changing
<1> QED
  BY <1>1, <1>2

LEMMA ListedNext ==
    ASSUME Cardinality(VMs) <= PageSize, TypeOK, ListedInv, [Next]_vars
    PROVE  ListedInv'
<1> USE DEF vars, worker, azure, bounds
<1>1. CASE Start
  <2>1. CASE cache = Absent \/ ~cluster
    BY <1>1, <2>1, ListedKept DEF Start
  <2>2. CASE cache # Absent /\ cluster
    <3>1. pc' \in {"idle", "finalize", "evictall", "list"}
      BY <1>1, <2>2 DEF Start, NextStep
    <3> QED
      BY <1>1, <3>1, ListedFinish DEF Start, Changing
  <2> QED
    BY <2>1, <2>2
<1>2. CASE Finalize
  <2>1. obj' # Absent => obj # Absent /\ obj'.state = obj.state
                         /\ obj'.nodes = obj.nodes
    <3>1. CASE obj = read
      <4>1. obj \in Object
        BY <1>2, <3>1, CopyType DEF Finalize
      <4> QED
        BY <1>2, <3>1, <4>1, AbsentAssumption DEF Finalize, Object
    <3>2. CASE obj # read
      BY <1>2, <3>2 DEF Finalize
    <3> QED
      BY <3>1, <3>2
  <2> QED
    BY <1>2, <2>1, ListedFinish DEF Finalize, Retry, Finish, Changing
<1>3. CASE EvictAll
  <2>1. pc' \in {"evictall", "deletevmss"} /\ UNCHANGED <<obj, vms, leaving>>
    BY <1>3 DEF EvictAll, Goto
  <2> QED
    BY <2>1, ListedFinish DEF Changing
<1>4. CASE DeleteVMSS
  <2>1. pc' = "release" /\ UNCHANGED obj
        /\ vms' \cup leaving' \subseteq vms \cup leaving
    BY <1>4 DEF DeleteVMSS, Goto
  <2> QED
    BY <2>1, ListedFinish DEF Changing
<1>5. CASE Release
  <2>1. pc' = "idle" /\ UNCHANGED <<vms, leaving>> /\ (obj' = Absent \/ obj' = obj)
    BY <1>5 DEF Release, Retry, Done, Finish
  <2> QED
    BY <2>1, ListedFinish DEF Changing
<1>6. CASE List
  <2>1. UNCHANGED <<obj, vms, leaving>> /\ instance \in Object
    BY <1>6, CopyType DEF List
  <2>2. CASE Goto("updating")
    BY <2>1, <2>2, ListedFinish DEF Goto, Changing
  <2>3. CASE ~Goto("updating")
    <3>1. /\ instance' = [instance EXCEPT !.nodes = FirstPage(vms \cup leaving)]
          /\ pc' \in {"wait", "scaling"}
      BY <1>6, <2>3 DEF List
    <3>2. FirstPage(vms \cup leaving) = vms \cup leaving
      BY WholePage DEF TypeOK
    <3>3. instance'.nodes = vms \cup leaving
      BY <2>1, <3>1, <3>2 DEF Object
    <3> QED
      BY <2>1, <3>1, <3>3 DEF ListedInv, StatusListsVMs, Listed, Changing
  <2> QED
    BY <2>2, <2>3
<1>7. CASE Updating
  BY <1>7, ListedWrite DEF Updating, Changing
<1>8. CASE Scaling
  <2> DEFINE step == IF Surplus = {} THEN "resize" ELSE "evict"
  <2>1. step \in Changing
    BY DEF Changing
  <2>2. Write([instance EXCEPT !.state = "Scaling"], step)
    BY <1>8 DEF Scaling
  <2>3. pc # "idle" /\ UNCHANGED <<vms, leaving>>
    BY <1>8 DEF Scaling
  <2> HIDE DEF step
  <2> QED
    BY <2>1, <2>2, <2>3, ListedWrite
<1>9. CASE Put \/ Resize
  <2>1. pc' = "idle" /\ UNCHANGED obj /\ (obj = Absent \/ obj.state # "Succeeded")
    BY <1>9 DEF Put, Resize, Retry, Finish, ListedInv, Changing
  <2> QED
    BY <2>1 DEF ListedInv, StatusListsVMs, Changing
<1>10. CASE Evict
  <2>1. UNCHANGED <<obj, vms, leaving>> /\ pc = "evict" /\ pc' \in {"idle", "removevm"}
    BY <1>10 DEF Evict, Retry, Finish, Goto
  <2> QED
    BY <2>1 DEF ListedInv, StatusListsVMs, Listed, Changing
<1>11. CASE RemoveVM
  <2>1. UNCHANGED obj /\ pc = "removevm" /\ pc' \in {"idle", "evict", "resize"}
        /\ vms' \cup leaving' \subseteq vms \cup leaving
    BY <1>11 DEF RemoveVM, Retry, Finish
  <2> QED
    BY <2>1 DEF ListedInv, StatusListsVMs, Listed, Changing
<1>12. CASE Wait
  <2>1. CASE Retry
    BY <1>12, <2>1, ListedFinish DEF Wait, Retry, Finish, Changing
  <2>2. CASE Goto("report")
    BY <1>12, <2>2, ListedKept DEF Wait, Goto, Changing
  <2> QED
    BY <1>12, <2>1, <2>2 DEF Wait
<1>13. CASE Report
  <2>1. CASE obj = read
    <3>1. obj'.nodes = instance.nodes
      BY <1>13, <2>1, CopyType DEF Report, Object
    <3>2. pc = "report" /\ pc' = "idle" /\ UNCHANGED <<vms, leaving>>
      BY <1>13, <2>1 DEF Report, Done, Finish
    <3> QED
      BY <3>1, <3>2 DEF ListedInv, StatusListsVMs, Listed, Changing
  <2>2. CASE obj # read
    BY <1>13, <2>2, ListedFinish DEF Report, Retry, Finish, Changing
  <2> QED
    BY <2>1, <2>2
<1>14. CASE ApiError \/ Restart
  BY <1>14, ListedFinish DEF ApiError, Restart, Retry, Finish, Changing
<1>15. CASE Watch \/ Resync \/ ClusterSucceeds
  BY <1>15, ListedKept DEF Watch, Resync, ClusterSucceeds
<1>16. CASE SetReplicas \/ Delete
  <2>1. obj' # Absent => obj'.state = obj.state /\ obj'.nodes = obj.nodes
    BY <1>16 DEF SetReplicas, Delete, TypeOK, Object
  <2>2. obj # Absent /\ UNCHANGED <<vms, leaving, pc, instance>>
    BY <1>16 DEF SetReplicas, Delete, Edit
  <2> QED
    BY <2>1, <2>2, ListedKept
<1>17. CASE \E v \in VMs : World(v) \/ TurnNotReady(v)
  <2>1. UNCHANGED <<obj, pc, instance>>
        /\ vms' \cup leaving' \subseteq vms \cup leaving
    BY <1>17 DEF World, Join, TurnReady, TurnNotReady, VMGone, NodeGone
  <2> QED
    BY <2>1, ListedKept
<1>18. CASE UNCHANGED vars
  BY <1>18, ListedKept
<1> QED
  BY <1>1, <1>2, <1>3, <1>4, <1>5, <1>6, <1>7, <1>8, <1>9, <1>10, <1>11, <1>12,
     <1>13, <1>14, <1>15, <1>16, <1>17, <1>18
  DEF Next, Reconcile

\* While a NodeSet reports Succeeded, each VM of its scale set, one that is still
\* being deleted included, is in Status.NodeStatus, if the VMs fit one page of
\* the list: whatever fails, lingers or is asked for.
THEOREM StatusIsWhole ==
    ASSUME Cardinality(VMs) <= PageSize
    PROVE  Spec => []StatusListsVMs
<1>1. Init => ListedInv
  BY DEF Init, ListedInv, StatusListsVMs, Changing
<1>2. TypeOK /\ ListedInv /\ [Next]_vars => ListedInv'
  BY ListedNext
<1>3. ListedInv => StatusListsVMs
  BY DEF ListedInv
<1> QED
  BY <1>1, <1>2, <1>3, Typing, PTL DEF Spec

-----------------------------------------------------------------------------
(* What was reached stays                                                  *)

\* Deletion is final, for the caches and for the reconciliation that carries it
\* out; a scale set that was listed or reported is there until then; one is
\* created only where none was listed, for a NodeSet that holds the finalizer;
\* and a scale-down that is about to begin knows the VMs the status names.
StayInv ==
    /\ cache # Absent /\ cache.deleting => Going
    /\ pc \in {"evictall", "deletevmss", "release"} => Going
    /\ pc \in {"scaling", "wait", "report"} => vmss \/ Going
    /\ obj # Absent /\ obj.state = "Succeeded" => vmss \/ Going
    /\ pc = "updating" => ~vmss
    /\ pc = "put" => obj # Absent /\ obj.finalizer
    /\ pc = "scaling" /\ obj # Absent /\ obj.state = "Succeeded"
         => instance.nodes \subseteq obj.nodes

\* Users and caches keep it.
LEMMA StayKept ==
    ASSUME StayInv, UNCHANGED <<pc, instance, vmss>>,
           Going => Going',
           obj' # Absent => obj # Absent /\ obj'.state = obj.state
                            /\ obj'.nodes = obj.nodes,
           obj # Absent /\ obj.finalizer => obj' # Absent /\ obj'.finalizer,
           cache' = cache \/ (cache' = obj /\ obj' = obj)
    PROVE  StayInv'
BY DEF StayInv, Going

\* So do the steps of a reconciliation to where it holds no promise.
LEMMA StayFree ==
    ASSUME StayInv, UNCHANGED vmss, Going => Going',
           obj' # Absent => obj # Absent /\ obj'.state = obj.state
                            /\ obj'.nodes = obj.nodes,
           cache' = cache \/ (cache' = obj /\ obj' = obj),
           pc' \in {"idle", "finalize", "list", "evict", "removevm", "resize"}
    PROVE  StayInv'
BY DEF StayInv, Going

\* A status written over the copy that was read.
LEMMA StayWrite ==
    ASSUME TypeOK, StayInv, CopyInv, pc \in {"updating", "scaling"},
           NEW state \in States \ {"Succeeded"},
           NEW step, step \in Changing, step = "put" => pc = "updating",
           Write([instance EXCEPT !.state = state], step),
           UNCHANGED <<cache, vmss>>
    PROVE  StayInv'
<1>1. CASE obj = read
  <2>1. /\ instance \in Object /\ read \in Object
        /\ instance.deleting = read.deleting /\ read.finalizer
        /\ instance.finalizer
    <3>1. /\ instance \in Object /\ read \in Object /\ read.finalizer
          /\ instance = [read EXCEPT !.nodes = instance.nodes]
      BY CopyType DEF CopyInv
    <3> QED
      BY <3>1 DEF Object
  <2>2. pc' = step /\ obj' = [instance EXCEPT !.state = state]
    BY <1>1 DEF Write
  <2>3. /\ obj' \in Object /\ obj'.state # "Succeeded" /\ obj'.finalizer
        /\ obj'.deleting = obj.deleting
    BY <1>1, <2>1, <2>2 DEF Object
  <2>4. obj # Absent /\ obj' # Absent
    BY <1>1, <2>1, <2>3, AbsentAssumption
  <2>5. Going => Going'
    BY <2>3, <2>4 DEF Going
  <2> QED
    BY <2>2, <2>3, <2>4, <2>5 DEF StayInv, Changing
<1>2. CASE obj # read
  BY <1>2, StayFree DEF Write, Retry, Finish, Going
<1> QED
  BY <1>1, <1>2

LEMMA StayNext ==
    ASSUME "list" \notin Failing, Cardinality(VMs) <= PageSize,
           TypeOK, CopyInv, ListedInv, StayInv, [Next]_vars
    PROVE  StayInv'
<1> USE DEF vars, worker, azure, bounds
<1>1. CASE Start
  <2>1. CASE cache = Absent \/ ~cluster
    BY <1>1, <2>1, StayKept DEF Start, Going
  <2>2. CASE cache # Absent /\ cluster
    <3>1. /\ pc' = NextStep(cache)
          /\ UNCHANGED <<obj, cache, vmss>>
      BY <1>1, <2>2 DEF Start
    <3>2. /\ pc' \in {"idle", "finalize", "evictall", "list"}
          /\ pc' = "evictall" => cache.deleting
      BY <3>1 DEF NextStep
    <3> QED
      BY <2>2, <3>1, <3>2 DEF StayInv, Going
  <2> QED
    BY <2>1, <2>2
<1>2. CASE Finalize
  <2>1. CASE obj = read
    <3>1. obj \in Object /\ obj' = [obj EXCEPT !.finalizer = TRUE]
      BY <1>2, <2>1, CopyType DEF Finalize
    <3>2. obj # Absent /\ obj'.state = obj.state /\ obj'.nodes = obj.nodes
          /\ (Going => Going')
      BY <3>1, AbsentAssumption DEF Object, Going
    <3>3. pc' = "idle" /\ UNCHANGED <<cache, vmss>>
      BY <1>2 DEF Finalize, Retry, Finish
    <3> QED
      BY <3>2, <3>3, StayFree DEF Going
  <2>2. CASE obj # read
    BY <1>2, <2>2, StayFree DEF Finalize, Retry, Finish, Going
  <2> QED
    BY <2>1, <2>2
<1>3. CASE EvictAll
  <2>1. Going /\ pc' \in {"evictall", "deletevmss"} /\ UNCHANGED <<obj, cache, vmss>>
    BY <1>3 DEF EvictAll, Goto, StayInv
  <2> QED
    BY <2>1 DEF StayInv, Going
<1>4. CASE DeleteVMSS
  <2>1. Going /\ pc' = "release" /\ UNCHANGED <<obj, cache>>
    BY <1>4 DEF DeleteVMSS, Goto, StayInv
  <2> QED
    BY <2>1 DEF StayInv, Going
<1>5. CASE Release
  <2>1. Going' /\ pc' = "idle" /\ UNCHANGED <<cache, vmss>>
    BY <1>5 DEF Release, Retry, Done, Finish, StayInv, Going
  <2> QED
    BY <2>1 DEF StayInv
<1>6. CASE List
  <2>1. instance \in Object /\ UNCHANGED <<obj, cache, vmss>>
    BY <1>6, CopyType DEF List
  <2>2. CASE vmss
    <3>1. ~Fault("list")
      BY DEF Fault
    <3>2. /\ instance' = [instance EXCEPT !.nodes = FirstPage(vms \cup leaving)]
          /\ pc' \in {"wait", "scaling"}
      BY <1>6, <2>2, <3>1 DEF List
    <3>3. instance'.nodes = vms \cup leaving
      <4>1. FirstPage(vms \cup leaving) = vms \cup leaving
        BY WholePage DEF TypeOK
      <4> QED
        BY <2>1, <3>2, <4>1 DEF Object
    <3> QED
      BY <2>1, <2>2, <3>2, <3>3 DEF StayInv, Going, ListedInv, StatusListsVMs
  <2>3. CASE ~vmss
    <3>1. pc' = "updating"
      BY <1>6, <2>3 DEF List, Goto
    <3> QED
      BY <2>1, <2>3, <3>1 DEF StayInv, Going
  <2> QED
    BY <2>2, <2>3
<1>7. CASE Updating
  BY <1>7, StayWrite DEF Updating, Changing, States
<1>8. CASE Scaling
  <2> DEFINE step == IF Surplus = {} THEN "resize" ELSE "evict"
  <2>1. step \in Changing /\ step # "put"
    BY DEF Changing
  <2>2. Write([instance EXCEPT !.state = "Scaling"], step)
    BY <1>8 DEF Scaling
  <2>3. pc = "scaling" /\ UNCHANGED <<cache, vmss>>
    BY <1>8 DEF Scaling
  <2> HIDE DEF step
  <2> QED
    BY <2>1, <2>2, <2>3, StayWrite DEF States
<1>9. CASE Put
  <2>1. pc' = "idle" /\ UNCHANGED <<obj, cache>> /\ (vmss => vmss')
    BY <1>9 DEF Put, Retry, Finish
  <2> QED
    BY <2>1 DEF StayInv, Going
<1>10. CASE Resize
  BY <1>10, StayFree DEF Resize, Retry, Finish, Going
<1>11. CASE Evict
  <2>1. UNCHANGED <<obj, cache, vmss>> /\ pc' \in {"idle", "removevm"}
    BY <1>11 DEF Evict, Retry, Finish, Goto
  <2> QED
    BY <2>1, StayFree DEF Going
<1>12. CASE RemoveVM
  <2>1. UNCHANGED <<obj, cache, vmss>> /\ pc' \in {"idle", "evict", "resize"}
    BY <1>12 DEF RemoveVM, Retry, Finish
  <2> QED
    BY <2>1, StayFree DEF Going
<1>13. CASE Wait
  <2>1. UNCHANGED <<obj, cache, vmss>> /\ pc = "wait" /\ pc' \in {"idle", "report"}
    BY <1>13 DEF Wait, Retry, Finish, Goto
  <2> QED
    BY <2>1 DEF StayInv, Going
<1>14. CASE Report
  <2>1. CASE obj = read
    <3>1. /\ instance \in Object /\ read \in Object
          /\ instance = [read EXCEPT !.nodes = instance.nodes]
          /\ obj' = [instance EXCEPT !.state = "Succeeded", !.kubeconfig = TRUE]
          /\ pc = "report" /\ pc' = "idle" /\ UNCHANGED <<cache, vmss>>
      BY <1>14, <2>1, CopyType DEF Report, Done, Finish, CopyInv
    <3>2. obj # Absent /\ obj'.deleting = obj.deleting
      BY <2>1, <3>1, AbsentAssumption DEF Object
    <3>3. (Going => Going') /\ (vmss' \/ Going')
      BY <3>1, <3>2 DEF StayInv, Going
    <3> QED
      BY <3>1, <3>3 DEF StayInv
  <2>2. CASE obj # read
    BY <1>14, <2>2, StayFree DEF Report, Retry, Finish, Going
  <2> QED
    BY <2>1, <2>2
<1>15. CASE ApiError \/ Restart
  BY <1>15, StayFree DEF ApiError, Restart, Retry, Finish, Going
<1>16. CASE Watch \/ Resync \/ ClusterSucceeds
  BY <1>16, StayKept DEF Watch, Resync, ClusterSucceeds, Going
<1>17. CASE SetReplicas \/ Delete
  <2>1. obj \in Object /\ obj # Absent /\ UNCHANGED <<cache, pc, instance, vmss>>
    BY <1>17 DEF SetReplicas, Delete, Edit, TypeOK
  <2>2. obj' # Absent => obj'.state = obj.state /\ obj'.nodes = obj.nodes
    BY <1>17, <2>1 DEF SetReplicas, Delete, Object
  <2>3. obj.finalizer => obj' # Absent /\ obj'.finalizer
    <3>1. obj.finalizer => obj' \in Object /\ obj'.finalizer
      BY <1>17, <2>1 DEF SetReplicas, Delete, Object
    <3> QED
      BY <3>1, AbsentAssumption
  <2>4. Going => Going'
    BY <1>17, <2>1 DEF SetReplicas, Delete, Object, Going
  <2> QED
    BY <2>1, <2>2, <2>3, <2>4, StayKept DEF Going
<1>18. CASE \E v \in VMs : World(v) \/ TurnNotReady(v)
  <2>1. UNCHANGED <<obj, cache, pc, instance, vmss>>
    BY <1>18 DEF World, Join, TurnReady, TurnNotReady, VMGone, NodeGone
  <2> QED
    BY <2>1, StayKept DEF Going
<1>19. CASE UNCHANGED vars
  BY <1>19, StayKept DEF Going
<1> QED
  BY <1>1, <1>2, <1>3, <1>4, <1>5, <1>6, <1>7, <1>8, <1>9, <1>10, <1>11, <1>12,
     <1>13, <1>14, <1>15, <1>16, <1>17, <1>18, <1>19
  DEF Next, Reconcile
LEMMA SettledNext ==
    ASSUME "list" \notin Failing, Cardinality(VMs) <= PageSize,
           TypeOK, CopyInv, ListedInv, StayInv,
           Settled, UNCHANGED edits, [Next]_vars
    PROVE  Settled'
<1> USE DEF vars, worker, azure, bounds
\* What the steps that change neither NodeSet nor scale set leave as it is.
<1>0. ASSUME UNCHANGED <<obj, vmss, vms>>
      PROVE  Settled'
  BY <1>0 DEF Settled
\* A scale set that is gone has no part in what is still done.
<1>a. CASE obj = Absent
  <2>1. ~vmss /\ pc # "put"
    BY <1>a DEF Settled, StayInv
  <2>2. CASE obj' = Absent
    <3>1. ~vmss'
      BY <2>1 DEF Next, Reconcile, Start, Finalize, EvictAll, DeleteVMSS, Release,
         List, Updating, Put, Scaling, Evict, RemoveVM, Resize, Wait, Report,
         ApiError, Watch, Resync, Restart, ClusterSucceeds, SetReplicas, Delete,
         Edit, World, Join, TurnReady, TurnNotReady, VMGone, NodeGone
    <3> QED
      BY <2>2, <3>1 DEF Settled
  <2>3. obj' = Absent
    <3>1. CASE Finalize
      BY <1>a, <3>1, CopyType, AbsentAssumption DEF Finalize
    <3>2. CASE Updating \/ Scaling \/ Report
      <4>1. read \in Object /\ obj # read
        BY <1>a, <3>2, CopyType, AbsentAssumption DEF Updating, Scaling, Report
      <4> QED
        BY <1>a, <3>2, <4>1 DEF Updating, Scaling, Report, Write
    <3> QED
      BY <1>a, <3>1, <3>2, CopyType, AbsentAssumption
      DEF Next, Reconcile, Start, EvictAll, DeleteVMSS, Release, List, Put,
          Evict, RemoveVM, Resize, Wait, ApiError, Watch, Resync, Restart,
          ClusterSucceeds, SetReplicas, Delete, Edit, World, Join, TurnReady,
          TurnNotReady, VMGone, NodeGone
  <2> QED
    BY <2>2, <2>3
<1>b. CASE obj # Absent
  <2>1. /\ ~obj.deleting /\ obj.state = "Succeeded" /\ obj.nodes = vms
        /\ Cardinality(vms) = obj.replicas
        /\ obj \in Object
    BY <1>b DEF Settled, TypeOK
  <2>2. vmss /\ ~Going
    BY <1>b, <2>1 DEF StayInv, Going
  <2>3. pc \notin Changing \cup {"updating", "evictall", "deletevmss", "release"}
    BY <1>b, <2>1, <2>2 DEF StayInv, ListedInv
  <2>4. CASE Finalize
    <3>1. CASE obj = read
      <4>1. obj' = [obj EXCEPT !.finalizer = TRUE]
        BY <2>4, <3>1 DEF Finalize
      <4>2. obj' \in Object /\ obj'.deleting = obj.deleting
            /\ obj'.state = obj.state /\ obj'.nodes = obj.nodes
            /\ obj'.replicas = obj.replicas
        BY <2>1, <4>1 DEF Object
      <4>3. vms' = vms
        BY <2>4 DEF Finalize
      <4> QED
        BY <2>1, <4>2, <4>3, AbsentAssumption DEF Settled
    <3>2. CASE obj # read
      BY <1>0, <2>4, <3>2 DEF Finalize
    <3> QED
      BY <3>1, <3>2
  <2>5. CASE Scaling
    <3>1. UNCHANGED <<vms, vmss>> /\ pc = "scaling" /\ instance \in Object
          /\ read \in Object
      BY <2>5, CopyType DEF Scaling
    <3>2. obj # read
      <4> SUFFICES ASSUME obj = read PROVE FALSE
        OBVIOUS
      <4>1. /\ instance = [read EXCEPT !.nodes = instance.nodes]
            /\ Cardinality(instance.nodes) # instance.replicas
        BY <3>1 DEF CopyInv
      <4>2. instance.replicas = obj.replicas
        BY <3>1, <4>1 DEF Object
      <4>3. instance.nodes \subseteq obj.nodes
        BY <1>b, <2>1, <3>1 DEF StayInv
      <4>4. vms \subseteq instance.nodes
        BY <3>1 DEF ListedInv, Listed
      <4>5. instance.nodes = obj.nodes
        BY <2>1, <4>3, <4>4
      <4> QED
        BY <2>1, <4>1, <4>2, <4>5
    <3> QED
      BY <1>0, <2>5, <3>1, <3>2 DEF Scaling, Write
  <2>6. CASE Report
    <3>1. UNCHANGED <<vms, vmss>> /\ pc = "report" /\ instance \in Object
          /\ read \in Object
      BY <2>6, CopyType DEF Report
    <3>2. CASE obj = read
      <4>1. obj' = [instance EXCEPT !.state = "Succeeded", !.kubeconfig = TRUE]
        BY <2>6, <3>2 DEF Report
      <4>2. /\ instance = [read EXCEPT !.nodes = instance.nodes]
            /\ Cardinality(instance.nodes) = instance.replicas
            /\ vms \subseteq instance.nodes
        BY <3>1 DEF CopyInv, ListedInv, Listed, AtSize
      <4>3. instance.replicas = obj.replicas /\ instance.deleting = obj.deleting
        BY <3>1, <3>2, <4>2 DEF Object
      <4>4. instance.nodes \in SUBSET VMs
        BY <3>1 DEF Object
      <4>5. instance.nodes = vms
        <5>1. IsFiniteSet(instance.nodes)
          BY <4>4, VMsAssumption, FS_Subset
        <5> QED
          BY <2>1, <4>2, <4>3, <5>1, FS_Subset
      <4>6. /\ obj' \in Object /\ ~obj'.deleting /\ obj'.state = "Succeeded"
            /\ obj'.nodes = instance.nodes /\ obj'.replicas = instance.replicas
        BY <2>1, <3>1, <4>1, <4>3 DEF Object, States
      <4> QED
        BY <2>1, <3>1, <4>2, <4>5, <4>6, AbsentAssumption DEF Settled
    <3>3. CASE obj # read
      BY <1>0, <2>6, <3>1, <3>3 DEF Report
    <3> QED
      BY <3>2, <3>3
  <2>7. CASE EvictAll \/ DeleteVMSS \/ Release \/ Updating \/ Put \/ Evict
             \/ RemoveVM \/ Resize
    BY <2>3, <2>7
    DEF EvictAll, DeleteVMSS, Release, Updating, Put, Evict, RemoveVM, Resize,
        Changing
  <2>8. CASE SetReplicas \/ Delete
    <3>1. edits' = edits + 1 /\ edits \in Nat
      BY <2>8 DEF SetReplicas, Delete, Edit, TypeOK
    <3> QED
      BY <3>1
  <2>9. CASE Start \/ List \/ Wait
    BY <1>0, <2>9 DEF Start, List, Wait
  <2>10. CASE ApiError \/ Watch \/ Resync \/ Restart \/ ClusterSucceeds
    BY <1>0, <2>10 DEF ApiError, Watch, Resync, Restart, ClusterSucceeds
  <2>11. CASE \E v \in VMs : World(v) \/ TurnNotReady(v)
    BY <1>0, <2>11
    DEF World, Join, TurnReady, TurnNotReady, VMGone, NodeGone
  <2>12. CASE UNCHANGED vars
    BY <1>0, <2>12
  <2> QED
    BY <2>4, <2>5, <2>6, <2>7, <2>8, <2>9, <2>10, <2>11, <2>12
    DEF Next, Reconcile
<1> QED
  BY <1>a, <1>b

\* The scale set of a NodeSet that has reached what was asked for, and the status
\* that says so, are touched by no reconciliation until a user asks for another
\* number of VMs or deletes it: whichever stale copies the controller works with,
\* and whatever else fails, as long as a failed list is not taken for a scale set
\* that is missing and one page lists all the VMs.
THEOREM NoRelapse ==
    ASSUME "list" \notin Failing, Cardinality(VMs) <= PageSize
    PROVE  Spec => SettledStays
<1>1. Init => CopyInv /\ ListedInv /\ StayInv
  BY DEF Init, CopyInv, ListedInv, StatusListsVMs, StayInv, Changing, Going
<1>2. TypeOK /\ CopyInv /\ ListedInv /\ StayInv /\ [Next]_vars
        => CopyInv' /\ ListedInv' /\ StayInv'
  BY CopyNext, ListedNext, StayNext
<1>3. TypeOK /\ CopyInv /\ ListedInv /\ StayInv /\ [Next]_vars
        => [Settled /\ UNCHANGED edits => Settled']_vars
  BY SettledNext
<1> QED
  BY <1>1, <1>2, <1>3, Typing, PTL DEF Spec, SettledStays
=============================================================================
