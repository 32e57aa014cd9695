---------------------------- MODULE NodeSetProofs ----------------------------
(***************************************************************************)
(* What holds of the NodeSet controller for every value of the constants.  *)
(***************************************************************************)
EXTENDS NodeSet, FiniteSetTheorems, TLAPS

-----------------------------------------------------------------------------
(* Type correctness                                                        *)

LEMMA InitType == Init => TypeOK
<1> SUFFICES ASSUME Init PROVE TypeOK
  OBVIOUS
<1>1. obj \in Object /\ cache \in Object
  BY DEF Init, Object, States
<1>2. 0 \in 0 .. MaxFaults /\ 0 \in 0 .. MaxEdits
  BY BoundsAssumption
<1> QED
  BY <1>1, <1>2 DEF Init, TypeOK, Steps, NodeStates

LEMMA FaultType ==
    ASSUME TypeOK, NEW call, Fault(call)
    PROVE  faults' \in 0 .. MaxFaults /\ edits' \in 0 .. MaxEdits
BY BoundsAssumption DEF TypeOK, Fault

LEMMA BoundsType ==
    ASSUME TypeOK, UNCHANGED bounds
    PROVE  faults' \in 0 .. MaxFaults /\ edits' \in 0 .. MaxEdits
BY DEF TypeOK, bounds

\* What the steps of a reconciliation leave of its own variables.
WorkerOK ==
    /\ queued \in BOOLEAN
    /\ pc \in Steps
    /\ read \in Object \cup {Absent}
    /\ instance \in Object \cup {Absent}
    /\ pc = "idle" <=> instance = Absent
    /\ pc = "idle" <=> read = Absent
    /\ todo \in SUBSET VMs

LEMMA FinishType ==
    ASSUME NEW again \in BOOLEAN, Finish(again)
    PROVE  WorkerOK'
BY DEF Finish, WorkerOK, Steps

LEMMA GotoType ==
    ASSUME TypeOK, NEW step \in Steps \ {"idle"}, pc # "idle", Goto(step)
    PROVE  WorkerOK'
BY DEF Goto, WorkerOK, TypeOK

LEMMA WriteType ==
    ASSUME TypeOK, NEW o \in Object, NEW step \in Steps \ {"idle"},
           Write(o, step), todo' \in SUBSET VMs
    PROVE  WorkerOK' /\ obj' \in Object \cup {Absent}
<1>1. CASE obj = read
  BY <1>1, AbsentAssumption DEF Write, WorkerOK, TypeOK
<1>2. CASE obj # read
  BY <1>2, FinishType DEF Write, Retry, TypeOK
<1> QED
  BY <1>1, <1>2

LEMMA EvictedType ==
    ASSUME TypeOK, NEW v, Evicted(v)
    PROVE  node' \in [VMs -> NodeStates]
BY DEF TypeOK, Evicted, NodeStates

LEMMA ErrorLostType ==
    ASSUME TypeOK, NEW v, ErrorLost(v)
    PROVE  node' \in [VMs -> NodeStates]
BY DEF TypeOK, ErrorLost, NodeStates

LEMMA CapacityType ==
    ASSUME TypeOK, NEW n, SetCapacity(n)
    PROVE  vms' \in SUBSET VMs
<1>1. CASE Cardinality(vms) <= n
  BY <1>1 DEF TypeOK, SetCapacity
<1>2. CASE ~(Cardinality(vms) <= n)
  BY <1>2 DEF TypeOK, SetCapacity
<1> QED
  BY <1>1, <1>2

\* The copy of a reconciliation under way is an object.
LEMMA CopyType ==
    ASSUME TypeOK, pc # "idle"
    PROVE  instance \in Object /\ read \in Object
BY DEF TypeOK

LEMMA NextType ==
    ASSUME TypeOK, [Next]_vars
    PROVE  TypeOK'
<1> USE DEF vars, worker, azure, bounds
<1>1. CASE Start
  <2>1. CASE cache = Absent \/ ~cluster
    BY <1>1, <2>1 DEF Start, TypeOK
  <2>2. CASE cache # Absent /\ cluster
    <3>1. cache \in Object /\ NextStep(cache) \in Steps
      BY <2>2 DEF TypeOK, NextStep, Steps
    <3>2. cache.nodes \in SUBSET VMs
      BY <3>1 DEF Object
    <3>3. /\ queued' = FALSE
          /\ pc' = NextStep(cache)
          /\ read' = IF pc' = "idle" THEN Absent ELSE cache
          /\ instance' = read'
          /\ todo' = IF pc' = "evictall" THEN cache.nodes ELSE {}
      BY <1>1, <2>2 DEF Start
    <3>4. WorkerOK'
      BY <2>2, <3>1, <3>2, <3>3 DEF WorkerOK
    <3> QED
      BY <1>1, <3>4 DEF Start, TypeOK, WorkerOK
  <2> QED
    BY <2>1, <2>2
<1>2. CASE Finalize
  <2>1. read \in Object /\ instance \in Object
    BY <1>2, CopyType DEF Finalize
  <2>2. obj' \in Object \cup {Absent}
    BY <1>2, <2>1 DEF Finalize, Object, TypeOK
  <2>3. WorkerOK'
    BY <1>2, FinishType DEF Finalize, Retry
  <2> QED
    BY <1>2, <2>2, <2>3 DEF Finalize, TypeOK, WorkerOK
<1>3. CASE EvictAll
  <2>1. CASE todo = {}
    <3>1. WorkerOK'
      BY <1>3, <2>1, GotoType DEF EvictAll, Steps
    <3> QED
      BY <1>3, <2>1, <3>1 DEF EvictAll, TypeOK, WorkerOK
  <2>2. CASE todo # {}
    <3>1. PICK v \in todo :
            /\ todo' = todo \ {v}
            /\ UNCHANGED <<pc, queued, read, instance>>
            /\ \/ Registered(v) /\ Evicted(v) /\ UNCHANGED bounds
               \/ ~Registered(v) /\ UNCHANGED <<node, bounds>>
               \/ Registered(v) /\ Fault("drain") /\ UNCHANGED node
               \/ ErrorLost(v)
      BY <1>3, <2>2 DEF EvictAll
    <3>2. node' \in [VMs -> NodeStates]
      BY <3>1, EvictedType, ErrorLostType DEF TypeOK
    <3>3. faults' \in 0 .. MaxFaults /\ edits' \in 0 .. MaxEdits
      BY <3>1, FaultType, BoundsType DEF ErrorLost
    <3>4. WorkerOK'
      BY <3>1 DEF WorkerOK, TypeOK
    <3> QED
      BY <1>3, <3>2, <3>3, <3>4 DEF EvictAll, TypeOK, WorkerOK
  <2> QED
    BY <2>1, <2>2
<1>4. CASE DeleteVMSS
  <2>1. WorkerOK'
    BY <1>4, GotoType DEF DeleteVMSS, Steps
  <2>2. faults' \in 0 .. MaxFaults /\ edits' \in 0 .. MaxEdits
    BY <1>4, FaultType, BoundsType DEF DeleteVMSS
  <2> QED
    BY <1>4, <2>1, <2>2 DEF DeleteVMSS, TypeOK, WorkerOK
<1>5. CASE Release
  <2>1. WorkerOK'
    BY <1>5, FinishType DEF Release, Retry, Done, TypeOK
  <2> QED
    BY <1>5, <2>1 DEF Release, TypeOK, WorkerOK
<1>6. CASE List
  <2>1. instance \in Object /\ read \in Object
    BY <1>6, CopyType DEF List
  <2>2. faults' \in 0 .. MaxFaults /\ edits' \in 0 .. MaxEdits
    BY <1>6, FaultType, BoundsType DEF List
  <2>3. WorkerOK'
    <3>1. CASE Goto("updating")
      BY <1>6, <3>1, GotoType DEF List, Steps
    <3>2. CASE ~Goto("updating")
      <4> DEFINE listed == FirstPage(vms \cup leaving)
      <4>1. listed \in SUBSET VMs
        BY DEF FirstPage, TypeOK
      <4>2. [instance EXCEPT !.nodes = listed] \in Object
        BY <2>1, <4>1 DEF Object
      <4> QED
        BY <1>6, <3>2, <2>1, <4>2, AbsentAssumption
        DEF List, WorkerOK, TypeOK, Steps
    <3> QED
      BY <3>1, <3>2
  <2> QED
    BY <1>6, <2>2, <2>3 DEF List, TypeOK, WorkerOK
<1>7. CASE Updating
  <2>1. [instance EXCEPT !.state = "Updating"] \in Object
    BY <1>7, CopyType DEF Updating, Object, States
  <2>2. WorkerOK' /\ obj' \in Object \cup {Absent}
    BY <1>7, <2>1, WriteType DEF Updating, Steps
  <2> QED
    BY <1>7, <2>2 DEF Updating, TypeOK, WorkerOK
<1>8. CASE Put
  <2>1. WorkerOK'
    BY <1>8, FinishType DEF Put, Retry
  <2>2. vms' \in SUBSET VMs
    BY <1>8, CapacityType DEF Put, TypeOK
  <2>3. faults' \in 0 .. MaxFaults /\ edits' \in 0 .. MaxEdits
    BY <1>8, FaultType, BoundsType DEF Put
  <2> QED
    BY <1>8, <2>1, <2>2, <2>3 DEF Put, TypeOK, WorkerOK
<1>9. CASE Scaling
  <2>1. [instance EXCEPT !.state = "Scaling"] \in Object
    BY <1>9, CopyType DEF Scaling, Object, States
  <2>2. todo' \in SUBSET VMs
    BY <1>9, CopyType DEF Scaling, Surplus, Object
  <2>3. WorkerOK' /\ obj' \in Object \cup {Absent}
    BY <1>9, <2>1, <2>2, WriteType DEF Scaling, Steps
  <2> QED
    BY <1>9, <2>3 DEF Scaling, TypeOK, WorkerOK
<1>10. CASE Evict
  <2>1. WorkerOK'
    BY <1>10, GotoType, FinishType DEF Evict, Retry, Steps
  <2>2. node' \in [VMs -> NodeStates]
    BY <1>10, EvictedType, ErrorLostType DEF Evict, TypeOK
  <2>3. faults' \in 0 .. MaxFaults /\ edits' \in 0 .. MaxEdits
    BY <1>10, FaultType, BoundsType DEF Evict, ErrorLost
  <2> QED
    BY <1>10, <2>1, <2>2, <2>3 DEF Evict, TypeOK, WorkerOK
<1>11. CASE RemoveVM
  <2> DEFINE v == First(todo)
  <2>1. \/ /\ vms' = vms \ {v}
           /\ leaving' = leaving \cup (vms \cap {v})
           /\ todo' = todo \ {v}
           /\ pc' = IF todo = {v} THEN "resize" ELSE "evict"
           /\ UNCHANGED <<queued, read, instance, bounds>>
        \/ Fault("vm") /\ Retry /\ UNCHANGED <<vms, leaving>>
    BY <1>11 DEF RemoveVM
  <2>2. pc = "removevm" /\ UNCHANGED <<obj, cache, cluster, vmss, node>>
    BY <1>11 DEF RemoveVM
  <2> HIDE DEF v
  <2>3. WorkerOK'
    <3>1. CASE Fault("vm") /\ Retry /\ UNCHANGED <<vms, leaving>>
      BY <3>1, FinishType DEF Retry
    <3>2. CASE ~(Fault("vm") /\ Retry /\ UNCHANGED <<vms, leaving>>)
      BY <2>1, <2>2, <3>2 DEF WorkerOK, TypeOK, Steps
    <3> QED
      BY <3>1, <3>2
  <2>4. faults' \in 0 .. MaxFaults /\ edits' \in 0 .. MaxEdits
    BY <2>1, FaultType, BoundsType
  <2>5. vms' \in SUBSET VMs /\ leaving' \in SUBSET VMs
    BY <2>1 DEF TypeOK
  <2> QED
    BY <2>2, <2>3, <2>4, <2>5 DEF TypeOK, WorkerOK
<1>12. CASE Resize
  <2>1. WorkerOK'
    BY <1>12, FinishType DEF Resize, Retry
  <2>2. vms' \in SUBSET VMs
    BY <1>12, CapacityType DEF Resize, TypeOK
  <2>3. faults' \in 0 .. MaxFaults /\ edits' \in 0 .. MaxEdits
    BY <1>12, FaultType, BoundsType DEF Resize
  <2> QED
    BY <1>12, <2>1, <2>2, <2>3 DEF Resize, TypeOK, WorkerOK
<1>13. CASE Wait
  <2>1. WorkerOK'
    BY <1>13, GotoType, FinishType DEF Wait, Retry, Steps
  <2> QED
    BY <1>13, <2>1 DEF Wait, TypeOK, WorkerOK
<1>14. CASE Report
  <2>1. [instance EXCEPT !.state = "Succeeded", !.kubeconfig = TRUE] \in Object
    BY <1>14, CopyType DEF Report, Object, States
  <2>2. WorkerOK'
    BY <1>14, FinishType DEF Report, Retry, Done, TypeOK
  <2> QED
    BY <1>14, <2>1, <2>2 DEF Report, TypeOK, WorkerOK
<1>15. CASE ApiError
  <2>1. WorkerOK'
    BY <1>15, FinishType DEF ApiError, Retry
  <2>2. faults' \in 0 .. MaxFaults /\ edits' \in 0 .. MaxEdits
    BY <1>15, FaultType DEF ApiError
  <2> QED
    BY <1>15, <2>1, <2>2 DEF ApiError, TypeOK, WorkerOK
<1>16. CASE Watch
  BY <1>16 DEF Watch, TypeOK
<1>17. CASE Resync
  BY <1>17 DEF Resync, TypeOK
<1>18. CASE Restart
  <2>1. WorkerOK'
    BY <1>18, FinishType DEF Restart
  <2>2. faults' \in 0 .. MaxFaults /\ edits' \in 0 .. MaxEdits
    BY <1>18, FaultType DEF Restart
  <2> QED
    BY <1>18, <2>1, <2>2 DEF Restart, TypeOK, WorkerOK
<1>19. CASE ClusterSucceeds
  BY <1>19 DEF ClusterSucceeds, TypeOK
<1>20. CASE SetReplicas
  <2>1. obj' \in Object
    BY <1>20 DEF SetReplicas, Object, TypeOK
  <2>2. edits' \in 0 .. MaxEdits
    BY <1>20, BoundsAssumption DEF SetReplicas, Edit, TypeOK
  <2> QED
    BY <1>20, <2>1, <2>2 DEF SetReplicas, Edit, TypeOK
<1>21. CASE Delete
  <2>1. obj' \in Object \cup {Absent}
    BY <1>21 DEF Delete, Object, TypeOK
  <2>2. edits' \in 0 .. MaxEdits
    BY <1>21, BoundsAssumption DEF Delete, Edit, TypeOK
  <2> QED
    BY <1>21, <2>1, <2>2 DEF Delete, Edit, TypeOK
<1>22. CASE \E v \in VMs : World(v) \/ TurnNotReady(v)
  <2> PICK v \in VMs : World(v) \/ TurnNotReady(v)
    BY <1>22
  <2>1. CASE Join(v)
    BY <2>1 DEF Join, TypeOK, NodeStates
  <2>2. CASE TurnReady(v)
    BY <2>2 DEF TurnReady, TypeOK, NodeStates
  <2>3. CASE TurnNotReady(v)
    BY <2>3 DEF TurnNotReady, TypeOK, NodeStates
  <2>4. CASE VMGone(v)
    BY <2>4 DEF VMGone, TypeOK
  <2>5. CASE NodeGone(v)
    BY <2>5 DEF NodeGone, TypeOK, NodeStates
  <2> QED
    BY <2>1, <2>2, <2>3, <2>4, <2>5 DEF World
<1>23. CASE UNCHANGED vars
  BY <1>23 DEF TypeOK
<1> QED
  BY <1>1, <1>2, <1>3, <1>4, <1>5, <1>6, <1>7, <1>8, <1>9, <1>10, <1>11, <1>12,
     <1>13, <1>14, <1>15, <1>16, <1>17, <1>18, <1>19, <1>20, <1>21, <1>22, <1>23
  DEF Next, Reconcile

\* Every state is of the declared types, and a reconciliation holds a copy of
\* the NodeSet exactly while it runs.
THEOREM Typing == Spec => []TypeOK
<1>1. TypeOK /\ [Next]_vars => TypeOK'
  BY NextType
<1> QED
  BY <1>1, InitType, PTL DEF Spec

-----------------------------------------------------------------------------
(* No scale set outlives its NodeSet                                       *)

\* The steps that follow the finalizer's check.
Guarded == {"list", "updating", "put", "scaling", "evict", "removevm", "resize",
            "wait", "report"}

\* The finalizer is on every copy worked with after the check; the status
\* update that precedes CreateVMSS proves it is on the object too, where it
\* stays until this reconciliation's successor takes it away; and that happens
\* only when the scale set is gone.
FenceInv ==
    /\ NoOrphanVMSS
    /\ pc \in Guarded => read.finalizer /\ instance.finalizer
    /\ pc = "put" => obj # Absent /\ obj.finalizer
    /\ pc = "release" => ~vmss

\* What the user, the caches and the nodes do keeps it.
LEMMA FenceKept ==
    ASSUME TypeOK, FenceInv, UNCHANGED <<pc, read, instance, vmss>>,
           obj # Absent /\ obj.finalizer => obj' # Absent /\ obj'.finalizer
    PROVE  FenceInv'
BY DEF FenceInv, NoOrphanVMSS

\* So does the end of a reconciliation that took nothing away.
LEMMA FenceFinish ==
    ASSUME TypeOK, FenceInv, NEW again, Finish(again), UNCHANGED <<obj, vmss>>
    PROVE  FenceInv'
BY DEF FenceInv, NoOrphanVMSS, Finish, Guarded

LEMMA FenceGoto ==
    ASSUME TypeOK, FenceInv, NEW step, Goto(step), UNCHANGED <<obj, vmss>>,
           step \in Guarded => pc \in Guarded,
           step \notin {"put", "release"}
    PROVE  FenceInv'
BY DEF FenceInv, NoOrphanVMSS, Goto

LEMMA FenceWrite ==
    ASSUME TypeOK, FenceInv, pc \in Guarded, UNCHANGED vmss,
           NEW o \in Object, o.finalizer = instance.finalizer,
           NEW step \in Guarded, Write(o, step)
    PROVE  FenceInv'
<1>1. CASE obj = read
  <2>1. o # Absent /\ o.finalizer
    BY AbsentAssumption DEF FenceInv
  <2> QED
    BY <1>1, <2>1 DEF Write, FenceInv, NoOrphanVMSS, Guarded
<1>2. CASE obj # read
  BY <1>2, FenceFinish DEF Write, Retry
<1> QED
  BY <1>1, <1>2

LEMMA FenceNext ==
    ASSUME "delete" \notin Failing, TypeOK, FenceInv, [Next]_vars
    PROVE  FenceInv'
<1> USE DEF vars, worker, azure, bounds
<1>1. CASE Start
  <2>1. CASE cache = Absent \/ ~cluster
    BY <1>1, <2>1, FenceKept DEF Start
  <2>2. CASE cache # Absent /\ cluster
    <3>1. /\ pc' = NextStep(cache)
          /\ read' = IF pc' = "idle" THEN Absent ELSE cache
          /\ instance' = read'
          /\ UNCHANGED <<obj, vmss>>
      BY <1>1, <2>2 DEF Start
    <3>2. pc' \in Guarded => pc' # "idle" /\ cache.finalizer
      BY <3>1 DEF NextStep, Guarded
    <3>3. pc' \notin {"put", "release"}
      BY <3>1 DEF NextStep
    <3> QED
      BY <3>1, <3>2, <3>3 DEF FenceInv, NoOrphanVMSS
  <2> QED
    BY <2>1, <2>2
<1>2. CASE Finalize
  <2>1. obj # Absent /\ obj.finalizer => obj' # Absent /\ obj'.finalizer
    BY <1>2, AbsentAssumption DEF Finalize, TypeOK, Object
  <2> QED
    BY <1>2, <2>1 DEF Finalize, Retry, Finish, FenceInv, NoOrphanVMSS, Guarded
<1>3. CASE EvictAll
  <2>1. CASE todo = {}
    BY <1>3, <2>1, FenceGoto DEF EvictAll, Guarded
  <2>2. CASE todo # {}
    BY <1>3, <2>2, FenceKept DEF EvictAll
  <2> QED
    BY <2>1, <2>2
<1>4. CASE DeleteVMSS
  <2>1. ~vmss' /\ pc' = "release" /\ UNCHANGED obj
    BY <1>4 DEF DeleteVMSS, Fault, Goto
  <2> QED
    BY <2>1 DEF FenceInv, NoOrphanVMSS, Guarded
<1>5. CASE Release
  BY <1>5 DEF Release, Retry, Done, Finish, FenceInv, NoOrphanVMSS, Guarded
<1>6. CASE List
  <2>1. CASE Goto("updating")
    BY <1>6, <2>1, FenceGoto DEF List, Guarded
  <2>2. CASE ~Goto("updating")
    <3>1. instance \in Object
      BY <1>6, CopyType DEF List
    <3>2. instance'.finalizer = instance.finalizer /\ read' = read
          /\ pc' \in {"wait", "scaling"}
      BY <1>6, <2>2, <3>1 DEF List, Object
    <3> QED
      BY <1>6, <3>2 DEF List, FenceInv, NoOrphanVMSS, Guarded
  <2> QED
    BY <2>1, <2>2
<1>7. CASE Updating
  <2> DEFINE o == [instance EXCEPT !.state = "Updating"]
  <2>1. o \in Object /\ o.finalizer = instance.finalizer
    BY <1>7, CopyType DEF Updating, Object, States
  <2> QED
    BY <1>7, <2>1, FenceWrite DEF Updating, Guarded
<1>8. CASE Put
  <2>1. obj # Absent /\ obj.finalizer /\ UNCHANGED obj
    BY <1>8 DEF Put, FenceInv
  <2> QED
    BY <1>8, <2>1 DEF Put, Retry, Finish, FenceInv, NoOrphanVMSS, Guarded
<1>9. CASE Scaling
  <2> DEFINE o == [instance EXCEPT !.state = "Scaling"]
  <2>1. o \in Object /\ o.finalizer = instance.finalizer
    BY <1>9, CopyType DEF Scaling, Object, States
  <2> QED
    BY <1>9, <2>1, FenceWrite DEF Scaling, Guarded
<1>10. CASE Evict
  <2>1. CASE Retry
    BY <1>10, <2>1, FenceFinish DEF Evict, Retry
  <2>2. CASE Goto("removevm")
    BY <1>10, <2>2, FenceGoto DEF Evict, Guarded
  <2> QED
    BY <1>10, <2>1, <2>2 DEF Evict
<1>11. CASE RemoveVM
  <2>1. CASE Retry
    BY <1>11, <2>1, FenceFinish DEF RemoveVM, Retry
  <2>2. CASE ~Retry
    <3>1. pc = "removevm" /\ pc' \in {"resize", "evict"}
          /\ UNCHANGED <<obj, vmss, read, instance>>
      BY <1>11, <2>2 DEF RemoveVM
    <3> QED
      BY <3>1 DEF FenceInv, NoOrphanVMSS, Guarded
  <2> QED
    BY <2>1, <2>2
<1>12. CASE Resize
  BY <1>12, FenceFinish DEF Resize, Retry
<1>13. CASE Wait
  <2>1. CASE Retry
    BY <1>13, <2>1, FenceFinish DEF Wait, Retry
  <2>2. CASE Goto("report")
    BY <1>13, <2>2, FenceGoto DEF Wait, Guarded
  <2> QED
    BY <1>13, <2>1, <2>2 DEF Wait
<1>14. CASE Report
  <2>1. CASE obj = read
    <3> DEFINE o == [instance EXCEPT !.state = "Succeeded",
                                     !.kubeconfig = TRUE]
    <3>1. o \in Object /\ o.finalizer = instance.finalizer
      BY <1>14, CopyType DEF Report, Object, States
    <3>2. obj' # Absent /\ obj'.finalizer
      BY <1>14, <2>1, <3>1, AbsentAssumption DEF Report, FenceInv, Guarded
    <3> QED
      BY <1>14, <2>1, <3>2
      DEF Report, Done, Finish, FenceInv, NoOrphanVMSS, Guarded
  <2>2. CASE obj # read
    BY <1>14, <2>2, FenceFinish DEF Report, Retry
  <2> QED
    BY <2>1, <2>2
<1>15. CASE ApiError
  BY <1>15, FenceFinish DEF ApiError, Retry
<1>16. CASE Watch \/ Resync \/ ClusterSucceeds
  BY <1>16, FenceKept DEF Watch, Resync, ClusterSucceeds
<1>17. CASE Restart
  BY <1>17, FenceFinish DEF Restart
<1>18. CASE SetReplicas
  <2>1. obj # Absent /\ obj.finalizer => obj' # Absent /\ obj'.finalizer
    BY <1>18, AbsentAssumption DEF SetReplicas, TypeOK, Object
  <2> QED
    BY <1>18, <2>1, FenceKept DEF SetReplicas, Edit
<1>19. CASE Delete
  <2>1. obj # Absent /\ obj.finalizer => obj' # Absent /\ obj'.finalizer
    BY <1>19, AbsentAssumption DEF Delete, TypeOK, Object
  <2> QED
    BY <1>19, <2>1, FenceKept DEF Delete, Edit
<1>20. CASE \E v \in VMs : World(v) \/ TurnNotReady(v)
  BY <1>20, FenceKept
  DEF World, Join, TurnReady, TurnNotReady, VMGone, NodeGone
<1>21. CASE UNCHANGED vars
  BY <1>21, FenceKept
<1> QED
  BY <1>1, <1>2, <1>3, <1>4, <1>5, <1>6, <1>7, <1>8, <1>9, <1>10, <1>11, <1>12,
     <1>13, <1>14, <1>15, <1>16, <1>17, <1>18, <1>19, <1>20, <1>21
  DEF Next, Reconcile

\* As long as the deletion of a scale set does not fail, no scale set outlives
\* the finalizer of its NodeSet, whatever else fails, restarts or lags behind.
THEOREM NoOrphans ==
    ASSUME "delete" \notin Failing
    PROVE  Spec => []NoOrphanVMSS
<1>1. Init => FenceInv
  BY DEF Init, FenceInv, NoOrphanVMSS, Guarded
<1>2. TypeOK /\ FenceInv /\ [Next]_vars => FenceInv'
  BY FenceNext
<1>3. FenceInv => NoOrphanVMSS
  BY DEF FenceInv
<1> QED
  BY <1>1, <1>2, <1>3, Typing, PTL DEF Spec

-----------------------------------------------------------------------------
(* A VM in use is drained before it is given up                            *)

Going == obj = Absent \/ obj.deleting

\* The VMs a scale-down leaves alone.
Spared == instance.nodes \ Surplus

\* Only a NodeSet being deleted loses its scale set; only an absent scale set is
\* created anew; and a scale-down works on the VMs that were there, takes them
\* one by one, each after its drain, and asks Azure for a new capacity when none
\* but the spared ones are left.
DrainInv ==
    /\ cache # Absent /\ cache.deleting => Going
    /\ pc # "idle" => instance.deleting = read.deleting
    /\ pc \in {"evictall", "deletevmss", "release"} => Going
    /\ vmss \/ vms = {}
    /\ pc \in {"updating", "put"} => ~vmss
    /\ pc \in {"scaling", "evict", "removevm", "resize"} => vmss
    /\ pc = "scaling" => vms \subseteq instance.nodes
    /\ pc \in {"evict", "removevm", "resize"} =>
         /\ vms \subseteq Spared \cup todo
         /\ Going \/ obj.kubeconfig = instance.kubeconfig
    /\ pc = "resize" => todo = {}
    /\ pc = "removevm" /\ instance.kubeconfig /\ First(todo) \in vms
         => node[First(todo)] = "evicted"

\* Fewer than n numbers come before each of at most n numbers.
LEMMA FewBefore ==
    ASSUME NEW S, S \subseteq Nat, IsFiniteSet(S), NEW n \in Nat
    PROVE  Cardinality({v \in S : Cardinality(Before(v, S)) < n}) <= n
<1> DEFINE T == {v \in S : Cardinality(Before(v, S)) < n}
           f == [v \in T |-> Cardinality(Before(v, S))]
<1>1. \A v \in S : IsFiniteSet(Before(v, S)) /\ Cardinality(Before(v, S)) \in Nat
  BY FS_Subset, FS_CardinalityType DEF Before
<1>2. IsFiniteSet(T) /\ Cardinality(T) \in Nat
  BY FS_Subset, FS_CardinalityType
<1>3. ASSUME NEW v \in S, NEW w \in S, v < w
      PROVE  Cardinality(Before(v, S)) # Cardinality(Before(w, S))
  <2>1. ASSUME NEW u \in Before(v, S) PROVE u \in Before(w, S)
    <3>1. u \in S /\ u < v /\ u \in Nat /\ v \in Nat /\ w \in Nat
      BY DEF Before
    <3> QED
      BY <1>3, <3>1 DEF Before
  <2>2. v \in Before(w, S) /\ v \notin Before(v, S)
    <3>1. v \in Nat /\ ~(v < v)
      OBVIOUS
    <3> QED
      BY <1>3, <3>1 DEF Before
  <2> QED
    BY <1>1, <2>1, <2>2, FS_Subset
<1>4. SUFFICES ASSUME Cardinality(T) > n PROVE FALSE
  BY <1>2
<1>5. IsFiniteSet(0 .. n - 1) /\ Cardinality(0 .. n - 1) = n
  BY FS_Interval
<1>6. f \in [T -> 0 .. n - 1]
  <2>1. ASSUME NEW v \in T PROVE Cardinality(Before(v, S)) \in 0 .. n - 1
    BY <1>1
  <2> QED
    BY <2>1
<1>7. PICK v, w \in T : v # w /\ f[v] = f[w]
  <2> HIDE DEF T, f
  <2>1. Cardinality(0 .. n - 1) < Cardinality(T)
    BY <1>4, <1>5
  <2> QED
    BY <1>2, <1>5, <1>6, <2>1, FS_PigeonHole
<1>8. v \in S /\ w \in S /\ (v < w \/ w < v)
  BY <1>7
<1>9. Cardinality(Before(v, S)) = Cardinality(Before(w, S))
  BY <1>7
<1> QED
  BY <1>3, <1>8, <1>9

\* A page that can hold all the VMs lists them all.
LEMMA WholePage ==
    ASSUME NEW S \in SUBSET VMs, Cardinality(VMs) <= PageSize
    PROVE  FirstPage(S) = S
<1>1. ASSUME NEW v \in S PROVE Cardinality(Before(v, S)) < PageSize
  <2>1. IsFiniteSet(VMs) /\ Cardinality(VMs) \in Nat /\ v \in VMs /\ v \in Nat
    BY VMsAssumption, FS_CardinalityType
  <2>2. Before(v, S) \in SUBSET VMs /\ v \notin Before(v, S)
    <3>1. ~(v < v)
      BY <2>1
    <3> QED
      BY <3>1 DEF Before
  <2>3. Cardinality(Before(v, S)) <= Cardinality(VMs)
        /\ Cardinality(Before(v, S)) # Cardinality(VMs)
    BY <2>1, <2>2, FS_Subset
  <2>4. Cardinality(Before(v, S)) \in Nat
    BY <2>1, <2>2, FS_Subset, FS_CardinalityType
  <2> QED
    BY <2>1, <2>3, <2>4, BoundsAssumption
<1> QED
  BY <1>1 DEF FirstPage

\* At most Spec.Replicas VMs are spared.
LEMMA SparedFits ==
    ASSUME instance \in Object
    PROVE  /\ IsFiniteSet(Spared)
           /\ Cardinality(Spared) <= instance.replicas
<1>1. /\ instance.nodes \subseteq Nat /\ IsFiniteSet(instance.nodes)
      /\ instance.replicas \in Nat
  <2>1. instance.nodes \in SUBSET VMs /\ instance.replicas \in Replicas
    BY DEF Object
  <2>2. IsFiniteSet(instance.nodes)
    BY <2>1, VMsAssumption, FS_Subset
  <2>3. instance.replicas \in Nat
    BY <2>1, BoundsAssumption DEF Replicas
  <2> QED
    BY <2>1, <2>2, <2>3, VMsAssumption
<1>2. \A v \in instance.nodes : Cardinality(Before(v, instance.nodes)) \in Nat
  BY <1>1, FS_Subset, FS_CardinalityType DEF Before
<1>3. Spared = {v \in instance.nodes :
                  Cardinality(Before(v, instance.nodes)) < instance.replicas}
  BY <1>1, <1>2 DEF Spared, Surplus
<1>4. IsFiniteSet(Spared)
  BY <1>1, <1>3, FS_Subset
<1> QED
  BY <1>1, <1>3, <1>4, FewBefore

\* A capacity that is not below the number of VMs costs none.
LEMMA CapacityKeeps ==
    ASSUME NEW n \in Nat, SetCapacity(n), IsFiniteSet(vms), Cardinality(vms) <= n
    PROVE  vms \subseteq vms'
BY DEF SetCapacity

\* The steps in which the NodeSet's own state is relied on.
Bound == {"evictall", "deletevmss", "release", "updating", "put", "scaling",
          "evict", "removevm", "resize"}

\* A step that leaves the VMs, the scale set and the reconciliation alone.
LEMMA DrainKept ==
    ASSUME TypeOK, DrainInv,
           UNCHANGED <<pc, read, instance, todo, vmss, vms>>,
           Going => Going', Going' \/ obj'.kubeconfig = obj.kubeconfig,
           cache' = cache \/ cache' = obj, obj' = obj \/ cache' = cache,
           \A v \in vms : node[v] = "evicted" => node'[v] = "evicted"
    PROVE  DrainInv'
<1>1. cache' # Absent /\ cache'.deleting => Going'
  BY DEF DrainInv, Going
<1>2. Spared' = Spared
  BY DEF Spared, Surplus
<1> QED
  BY <1>1, <1>2 DEF DrainInv, Going

\* A step of a reconciliation to one that relies on nothing.
LEMMA DrainFree ==
    ASSUME TypeOK, DrainInv, pc' \in Steps \ Bound, UNCHANGED <<cache, vmss>>,
           vmss \/ vms' = {}, Going => Going',
           pc' # "idle" => instance'.deleting = read'.deleting
    PROVE  DrainInv'
BY DEF DrainInv, Bound

LEMMA DrainNext ==
    ASSUME {"list", "share"} \cap Failing = {}, Cardinality(VMs) <= PageSize,
           TypeOK, DrainInv, [Next]_vars
    PROVE  DrainInv'
<1> USE DEF vars, worker, azure, bounds
<1>1. CASE Start
  <2>1. CASE cache = Absent \/ ~cluster
    BY <1>1, <2>1, DrainKept DEF Start, Going
  <2>2. CASE cache # Absent /\ cluster
    <3>1. /\ pc' = NextStep(cache) /\ UNCHANGED <<obj, cache, vmss, vms>>
          /\ instance' = read'
      BY <1>1, <2>2 DEF Start
    <3>2. CASE pc' = "evictall"
      <4>1. cache.deleting
        BY <3>1, <3>2 DEF NextStep
      <4> QED
        BY <2>2, <3>1, <3>2, <4>1 DEF DrainInv, Going
    <3>3. CASE pc' # "evictall"
      <4>1. pc' \in Steps \ Bound
        BY <3>1, <3>3 DEF NextStep, Steps, Bound
      <4> QED
        BY <3>1, <4>1, DrainFree DEF DrainInv, Going
    <3> QED
      BY <3>2, <3>3
  <2> QED
    BY <2>1, <2>2
<1>2. CASE Finalize
  <2>1. Going => Going'
    BY <1>2 DEF Finalize, Going, TypeOK, Object
  <2> QED
    BY <1>2, <2>1, DrainFree DEF Finalize, Retry, Finish, Steps, Bound, DrainInv
<1>3. CASE EvictAll
  <2>1. Going /\ UNCHANGED <<obj, cache, vmss, vms, read, instance>>
    BY <1>3 DEF EvictAll, DrainInv, Goto
  <2>2. pc' \in {"evictall", "deletevmss"}
    BY <1>3 DEF EvictAll, Goto
  <2> QED
    BY <1>3, <2>1, <2>2 DEF EvictAll, DrainInv, Going
<1>4. CASE DeleteVMSS
  <2>1. Going /\ UNCHANGED <<obj, cache, read, instance>> /\ pc' = "release"
    BY <1>4 DEF DeleteVMSS, DrainInv, Goto
  <2>2. vmss' \/ vms' = {}
    BY <1>4 DEF DeleteVMSS, DrainInv
  <2> QED
    BY <1>4, <2>1, <2>2 DEF DeleteVMSS, DrainInv, Going
<1>5. CASE Release
  <2>1. pc' = "idle" /\ Going' /\ UNCHANGED <<cache, vmss, vms>>
    BY <1>5 DEF Release, Retry, Done, Finish, DrainInv, Going
  <2> QED
    BY <2>1 DEF DrainInv
<1>6. CASE List
  <2>1. instance \in Object
    BY <1>6, CopyType DEF List
  <2>2. UNCHANGED <<obj, cache, vmss, vms, read>>
    BY <1>6 DEF List, Goto
  <2>3. CASE vmss
    <3>1. ~Fault("list")
      BY DEF Fault
    <3>2. /\ instance' = [instance EXCEPT !.nodes = FirstPage(vms \cup leaving)]
          /\ pc' \in {"wait", "scaling"}
          /\ instance'.deleting = instance.deleting
      BY <1>6, <2>1, <2>3, <3>1 DEF List, Object
    <3>3. FirstPage(vms \cup leaving) = vms \cup leaving
      BY WholePage DEF TypeOK
    <3>4. vms' \subseteq instance'.nodes
      BY <2>1, <2>2, <3>2, <3>3 DEF Object
    <3> QED
      BY <1>6, <2>2, <2>3, <3>2, <3>4 DEF List, DrainInv, Going
  <2>4. CASE ~vmss
    <3>1. pc' = "updating" /\ instance' = instance
      BY <1>6, <2>4 DEF List, Goto
    <3> QED
      BY <1>6, <2>2, <2>4, <3>1 DEF List, DrainInv, Going
  <2> QED
    BY <2>3, <2>4
<1>7. CASE Updating
  <2>1. instance \in Object /\ read \in Object
    BY <1>7, CopyType DEF Updating
  <2>2. UNCHANGED <<cache, vmss, vms>> /\ ~vmss
    BY <1>7 DEF Updating, DrainInv
  <2>3. CASE obj = read
    <3>1. pc' = "put" /\ instance' = obj' /\ read' = obj'
          /\ obj' = [instance EXCEPT !.state = "Updating"]
      BY <1>7, <2>3 DEF Updating, Write
    <3>2. obj'.deleting = instance.deleting
      BY <2>1, <3>1 DEF Object
    <3> QED
      BY <1>7, <2>1, <2>2, <2>3, <3>1, <3>2, AbsentAssumption
      DEF Updating, DrainInv, Going
  <2>4. CASE obj # read
    BY <1>7, <2>2, <2>4, DrainFree
    DEF Updating, Write, Retry, Finish, Steps, Bound, DrainInv, Going
  <2> QED
    BY <2>3, <2>4
<1>8. CASE Put
  <2>1. pc' = "idle" /\ UNCHANGED <<obj, cache>>
    BY <1>8 DEF Put, Retry, Finish
  <2>2. vmss' \/ vms' = {}
    BY <1>8 DEF Put, DrainInv
  <2> QED
    BY <2>1, <2>2 DEF DrainInv, Going
<1>9. CASE Scaling
  <2>1. instance \in Object /\ read \in Object
    BY <1>9, CopyType DEF Scaling
  <2>2. UNCHANGED <<cache, vmss, vms>> /\ vms \subseteq instance.nodes
    BY <1>9 DEF Scaling, DrainInv
  <2>3. CASE obj = read
    <3>1. /\ obj' = [instance EXCEPT !.state = "Scaling"]
          /\ instance' = obj' /\ read' = obj'
          /\ todo' = Surplus
          /\ pc' = IF Surplus = {} THEN "resize" ELSE "evict"
      BY <1>9, <2>3 DEF Scaling, Write
    <3>2. /\ obj'.deleting = instance.deleting
          /\ obj'.nodes = instance.nodes /\ obj'.replicas = instance.replicas
      BY <2>1, <3>1 DEF Object
    <3>3. Surplus' = Surplus
      BY <3>1, <3>2 DEF Surplus
    <3>4. vms' \subseteq Spared' \cup todo'
      BY <2>2, <3>1, <3>2, <3>3 DEF Spared
    <3> QED
      BY <1>9, <2>1, <2>2, <2>3, <3>1, <3>2, <3>4, AbsentAssumption
      DEF Scaling, DrainInv, Going
  <2>4. CASE obj # read
    BY <1>9, <2>2, <2>4, DrainFree
    DEF Scaling, Write, Retry, Finish, Steps, Bound, DrainInv, Going
  <2> QED
    BY <2>3, <2>4
<1>10. CASE Evict
  <2>1. UNCHANGED <<obj, cache, vmss, vms>>
    BY <1>10 DEF Evict
  <2>2. CASE Retry
    BY <2>1, <2>2 DEF Retry, Finish, DrainInv, Going
  <2>3. CASE ~Retry
    <3>1. Evicted(First(todo)) /\ Goto("removevm")
      BY <1>10, <2>3 DEF Evict, ErrorLost, Fault
    <3>2. UNCHANGED <<read, instance, todo>> /\ pc' = "removevm"
      BY <3>1 DEF Goto
    <3>3. instance.kubeconfig /\ First(todo) \in vms
            => node'[First(todo)] = "evicted"
      BY <3>1 DEF Evicted, Skipped, TypeOK
    <3>4. Spared' = Spared
      BY <3>2 DEF Spared, Surplus
    <3> QED
      BY <1>10, <2>1, <3>2, <3>3, <3>4 DEF Evict, DrainInv, Going
  <2> QED
    BY <2>2, <2>3
<1>11. CASE RemoveVM
  <2> DEFINE v == First(todo)
  <2>1. pc = "removevm" /\ UNCHANGED <<obj, cache, cluster, vmss, node>>
    BY <1>11 DEF RemoveVM
  <2>2. CASE Retry
    <3>1. vms' = vms \/ vms' = vms \ {v}
      BY <1>11 DEF RemoveVM
    <3> QED
      BY <2>1, <2>2, <3>1 DEF Retry, Finish, DrainInv, Going
  <2>3. CASE ~Retry
    <3>1. /\ vms' = vms \ {v}
          /\ todo' = todo \ {v}
          /\ pc' = IF todo = {v} THEN "resize" ELSE "evict"
          /\ UNCHANGED <<read, instance>>
      BY <1>11, <2>3 DEF RemoveVM
    <3> HIDE DEF v
    <3>2. Spared' = Spared
      BY <3>1 DEF Spared, Surplus
    <3>3. vms \subseteq Spared \cup todo
      BY <2>1 DEF DrainInv
    <3>4. vms' \subseteq Spared' \cup todo'
      BY <3>1, <3>2, <3>3
    <3> QED
      BY <2>1, <3>1, <3>4 DEF DrainInv, Going
  <2> QED
    BY <2>2, <2>3
<1>12. CASE Resize
  <2>1. pc' = "idle" /\ UNCHANGED <<obj, cache, vmss>>
    BY <1>12 DEF Resize, Retry, Finish
  <2>2. vmss
    BY <1>12 DEF Resize, DrainInv
  <2> QED
    BY <2>1, <2>2 DEF DrainInv, Going
<1>13. CASE Wait
  <2>1. UNCHANGED <<obj, cache, vmss, vms>>
    BY <1>13 DEF Wait
  <2>2. CASE Retry
    BY <2>1, <2>2 DEF Retry, Finish, DrainInv, Going
  <2>3. CASE Goto("report")
    BY <1>13, <2>1, <2>3 DEF Wait, Goto, DrainInv, Going
  <2> QED
    BY <1>13, <2>2, <2>3 DEF Wait
<1>14. CASE Report
  <2>1. instance \in Object /\ read \in Object
    BY <1>14, CopyType DEF Report
  <2>2. pc' = "idle" /\ UNCHANGED <<cache, vmss, vms>>
    BY <1>14 DEF Report, Retry, Done, Finish
  <2>3. Going => Going'
    <3>1. CASE obj = read
      BY <1>14, <2>1, <3>1, AbsentAssumption DEF Report, DrainInv, Going, Object
    <3>2. CASE obj # read
      BY <1>14, <3>2 DEF Report, Going
    <3> QED
      BY <3>1, <3>2
  <2> QED
    BY <2>2, <2>3 DEF DrainInv
<1>15. CASE ApiError
  BY <1>15 DEF ApiError, Retry, Finish, DrainInv, Going
<1>16. CASE Watch
  BY <1>16, DrainKept DEF Watch, Going
<1>17. CASE Resync \/ ClusterSucceeds
  BY <1>17, DrainKept DEF Resync, ClusterSucceeds, Going
<1>18. CASE Restart
  BY <1>18 DEF Restart, Finish, DrainInv, Going
<1>19. CASE SetReplicas
  <2>1. obj \in Object
    BY <1>19 DEF SetReplicas, TypeOK
  <2>2. obj'.deleting = obj.deleting /\ obj'.kubeconfig = obj.kubeconfig
        /\ obj' \in Object
    BY <1>19, <2>1 DEF SetReplicas, Object
  <2> QED
    BY <1>19, <2>1, <2>2, DrainKept, AbsentAssumption
    DEF SetReplicas, Edit, Going
<1>20. CASE Delete
  <2>1. obj \in Object
    BY <1>20 DEF Delete, TypeOK
  <2>2. Going'
    BY <1>20, <2>1 DEF Delete, Going, Object
  <2> QED
    BY <1>20, <2>1, <2>2, DrainKept DEF Delete, Edit
<1>21. CASE \E v \in VMs : World(v) \/ TurnNotReady(v)
  <2> PICK v \in VMs : World(v) \/ TurnNotReady(v)
    BY <1>21
  <2>1. UNCHANGED <<obj, cache, pc, read, instance, todo, vmss, vms>>
    BY DEF World, Join, TurnReady, TurnNotReady, VMGone, NodeGone
  <2>2. \A w \in vms : node[w] = "evicted" => node'[w] = "evicted"
    BY DEF World, Join, TurnReady, TurnNotReady, VMGone, NodeGone, TypeOK
  <2> QED
    BY <2>1, <2>2, DrainKept DEF Going
<1>22. CASE UNCHANGED vars
  BY <1>22, DrainKept DEF Going
<1> QED
  BY <1>1, <1>2, <1>3, <1>4, <1>5, <1>6, <1>7, <1>8, <1>9, <1>10, <1>11, <1>12,
     <1>13, <1>14, <1>15, <1>16, <1>17, <1>18, <1>19, <1>20, <1>21, <1>22
  DEF Next, Reconcile

LEMMA DrainStep ==
    ASSUME TypeOK, DrainInv, [Next]_vars, NEW v \in vms \ vms',
           obj # Absent, obj.kubeconfig, ~obj.deleting
    PROVE  node[v] = "evicted"
<1> USE DEF vars, worker, azure, bounds
<1>1. CASE DeleteVMSS
  BY <1>1 DEF DeleteVMSS, DrainInv, Going
<1>2. CASE Put
  BY <1>2 DEF Put, DrainInv
<1>3. CASE RemoveVM
  BY <1>3 DEF RemoveVM, DrainInv, Going
<1>4. CASE Resize
  <2>1. instance \in Object /\ SetCapacity(instance.replicas)
    BY <1>4, CopyType DEF Resize
  <2>2. vms \in SUBSET Spared
    BY <1>4 DEF Resize, DrainInv
  <2>3. IsFiniteSet(Spared) /\ Cardinality(Spared) <= instance.replicas
    BY <2>1, SparedFits
  <2>4. /\ IsFiniteSet(vms) /\ Cardinality(vms) <= Cardinality(Spared)
        /\ Cardinality(vms) \in Nat /\ Cardinality(Spared) \in Nat
    BY <2>2, <2>3, FS_Subset, FS_CardinalityType
  <2>5. instance.replicas \in Nat
    BY <2>1, BoundsAssumption DEF Object, Replicas
  <2> QED
    BY <2>1, <2>3, <2>4, <2>5, CapacityKeeps
<1>5. CASE UNCHANGED vms
  BY <1>5
<1> QED
  BY <1>1, <1>2, <1>3, <1>4, <1>5
  DEF Next, Reconcile, Start, Finalize, EvictAll, Release, List, Updating,
      Scaling, Evict, Wait, Report, ApiError, Watch, Resync, Restart,
      ClusterSucceeds, SetReplicas, Delete, Edit, World, Join, TurnReady,
      TurnNotReady, VMGone, NodeGone

\* As long as listing the VMs does not fail, a page holds them all and no drain
\* of another NodeSet takes the error of one of its own, no VM of a NodeSet in
\* use is given up undrained, for any number of VMs, edits, faults and restarts.
THEOREM DrainedFirst ==
    ASSUME {"list", "share"} \cap Failing = {}, Cardinality(VMs) <= PageSize
    PROVE  Spec => DrainBeforeRemove
<1>1. Init => DrainInv
  BY DEF Init, DrainInv, Going
<1>2. TypeOK /\ DrainInv /\ [Next]_vars => DrainInv'
  BY DrainNext
<1>3. TypeOK /\ DrainInv /\ [Next]_vars
        => [\A v \in vms \ vms' :
              obj # Absent /\ obj.kubeconfig /\ ~obj.deleting
                => node[v] = "evicted"]_vars
  BY DrainStep
<1> QED
  BY <1>1, <1>2, <1>3, Typing, PTL DEF Spec, DrainBeforeRemove
=============================================================================
