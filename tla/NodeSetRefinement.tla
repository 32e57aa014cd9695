-------------------------- MODULE NodeSetRefinement --------------------------
(***************************************************************************)
(* The NodeSet controller, with its scale set and VMs, implements          *)
(* NodeSetContract, for every value of the constants and whatever fails.   *)
(***************************************************************************)
EXTENDS NodeSetProofs

-----------------------------------------------------------------------------
(* What a reconciliation knows of the copy it read                         *)

\* Its check stands for the copy that was read, the copy it works on differs
\* in the VMs listed only, and what to do was decided from their number.
CopyInv ==
    /\ pc = "finalize" => ~read.deleting /\ ~read.finalizer
    /\ pc \in {"evictall", "deletevmss", "release"} =>
         read.deleting /\ read.finalizer
    /\ pc \in {"list", "updating", "scaling", "wait", "report"} =>
         /\ ~read.deleting /\ read.finalizer
         /\ instance = [read EXCEPT !.nodes = instance.nodes]
    /\ pc = "list" => instance = read
    /\ pc = "updating" => instance = read
    /\ pc = "scaling" => Cardinality(instance.nodes) # instance.replicas
    /\ pc \in {"wait", "report"} => AtSize(instance.nodes)

LEMMA CopyKept ==
    ASSUME CopyInv, UNCHANGED <<pc, read, instance>>
    PROVE  CopyInv'
BY DEF CopyInv, AtSize

LEMMA CopyFinish ==
    ASSUME NEW again, Finish(again)
    PROVE  CopyInv'
BY DEF Finish, CopyInv

LEMMA CopyGoto ==
    ASSUME CopyInv, NEW step, Goto(step),
           step \in {"put", "evict", "removevm", "resize"}
    PROVE  CopyInv'
BY DEF Goto, CopyInv

LEMMA CopyWrite ==
    ASSUME NEW o, NEW step, Write(o, step),
           step \in {"put", "evict", "resize"}
    PROVE  CopyInv'
BY CopyFinish DEF Write, Retry, CopyInv

LEMMA CopyNext ==
    ASSUME TypeOK, CopyInv, [Next]_vars
    PROVE  CopyInv'
<1> USE DEF vars, worker, azure, bounds
<1>1. CASE Start
  <2>1. CASE cache = Absent \/ ~cluster
    BY <1>1, <2>1, CopyKept DEF Start
  <2>2. CASE cache # Absent /\ cluster
    <3>1. cache \in Object
      BY <2>2 DEF TypeOK
    <3>2. /\ pc' = NextStep(cache)
          /\ pc' # "idle" => read' = cache /\ instance' = cache
      BY <1>1, <2>2 DEF Start
    <3>3. /\ pc' \in {"idle", "finalize", "evictall", "list"}
          /\ pc' = "finalize" => ~cache.deleting /\ ~cache.finalizer
          /\ pc' = "evictall" => cache.deleting /\ cache.finalizer
          /\ pc' = "list" => ~cache.deleting /\ cache.finalizer
      BY <3>2 DEF NextStep
    <3>4. cache = [cache EXCEPT !.nodes = cache.nodes]
      BY <3>1 DEF Object
    <3> QED BY <3>2, <3>3, <3>4 DEF CopyInv
  <2> QED BY <2>1, <2>2
<1>2. CASE Finalize \/ Release \/ Put \/ Resize \/ ApiError
  BY <1>2, CopyFinish DEF Finalize, Release, Put, Resize, ApiError, Retry, Done
<1>3. CASE EvictAll
  <2>1. UNCHANGED <<read, instance>> /\ pc' \in {"evictall", "deletevmss"}
        /\ pc = "evictall"
    BY <1>3 DEF EvictAll, Goto
  <2> QED BY <2>1 DEF CopyInv
<1>4. CASE DeleteVMSS
  BY <1>4 DEF DeleteVMSS, Goto, CopyInv
<1>5. CASE List
  <2>1. instance \in Object /\ instance = read
    BY <1>5, CopyType DEF List, CopyInv
  <2>2. CASE Goto("updating")
    BY <1>5, <2>2 DEF List, Goto, CopyInv
  <2>3. CASE ~Goto("updating")
    <3> DEFINE listed == FirstPage(vms \cup leaving)
    <3>1. /\ instance' = [instance EXCEPT !.nodes = listed]
          /\ pc' = IF AtSize(listed) THEN "wait" ELSE "scaling"
          /\ read' = read /\ pc = "list"
      BY <1>5, <2>3 DEF List
    <3>2. /\ instance'.nodes = listed /\ instance'.replicas = instance.replicas
          /\ instance' = [read EXCEPT !.nodes = instance'.nodes]
      BY <2>1, <3>1 DEF Object
    <3>3. /\ AtSize(listed) => Cardinality(instance'.nodes) = instance'.replicas
          /\ ~AtSize(listed) => Cardinality(instance'.nodes) # instance'.replicas
      BY <3>2 DEF AtSize
    <3> QED BY <3>1, <3>2, <3>3 DEF CopyInv, AtSize
  <2> QED BY <2>2, <2>3
<1>6. CASE Updating
  BY <1>6, CopyWrite DEF Updating
<1>7. CASE Scaling
  BY <1>7, CopyWrite DEF Scaling
<1>8. CASE Evict
  BY <1>8, CopyGoto, CopyFinish DEF Evict, Retry
<1>9. CASE RemoveVM
  <2>1. CASE Retry
    BY <2>1, CopyFinish DEF Retry
  <2>2. CASE ~Retry
    <3>1. pc' \in {"resize", "evict"}
      BY <1>9, <2>2 DEF RemoveVM
    <3> QED BY <3>1 DEF CopyInv
  <2> QED BY <2>1, <2>2
<1>10. CASE Wait
  <2>1. CASE Goto("report")
    BY <1>10, <2>1 DEF Wait, Goto, CopyInv, AtSize
  <2>2. CASE Retry
    BY <2>2, CopyFinish DEF Retry
  <2> QED BY <1>10, <2>1, <2>2 DEF Wait
<1>11. CASE Report \/ Restart
  <2>1. \E again \in BOOLEAN : Finish(again)
    BY <1>11 DEF Report, Restart, Retry, Done, TypeOK
  <2> QED BY <2>1, CopyFinish
<1>12. CASE Watch \/ Resync \/ ClusterSucceeds \/ SetReplicas \/ Delete
            \/ UNCHANGED vars
  BY <1>12, CopyKept
  DEF Watch, Resync, ClusterSucceeds, SetReplicas, Delete, Edit
<1>13. CASE \E v \in VMs : World(v) \/ TurnNotReady(v)
  BY <1>13, CopyKept
  DEF World, Join, TurnReady, TurnNotReady, VMGone, NodeGone
<1> QED
  BY <1>1, <1>2, <1>3, <1>4, <1>5, <1>6, <1>7, <1>8, <1>9, <1>10, <1>11,
     <1>12, <1>13
  DEF Next, Reconcile

-----------------------------------------------------------------------------
(* Every step is a step of the contract, or leaves the NodeSet alone       *)

LEMMA CountType ==
    ASSUME NEW S \in SUBSET VMs
    PROVE  Cardinality(S) \in 0 .. Cardinality(VMs)
<1>1. IsFiniteSet(S) /\ Cardinality(S) <= Cardinality(VMs)
  BY VMsAssumption, FS_Subset
<1>2. Cardinality(S) \in Nat /\ Cardinality(VMs) \in Nat
  BY <1>1, VMsAssumption, FS_CardinalityType
<1> QED BY <1>1, <1>2

LEMMA ViewType ==
    ASSUME NEW o \in Object
    PROVE  /\ View(o) \in Contract!Object /\ View(o) # Absent
           /\ View(o).replicas = o.replicas
           /\ View(o).deleting = o.deleting
           /\ View(o).finalizer = o.finalizer
           /\ View(o).nodes = Cardinality(o.nodes)
           /\ View(o).state = o.state
           /\ View(o).reported = o.kubeconfig
<1>1. o # Absent
  BY AbsentAssumption
<1>2. Cardinality(o.nodes) \in 0 .. Cardinality(VMs)
  BY CountType DEF Object
<1>3. View(o) \in Contract!Object
  BY <1>1, <1>2 DEF View, Object, States, Contract!Object, Contract!States
<1> QED
  BY <1>1, <1>3, ViewAssumption DEF View

\* The view of a changed copy is the changed view.
LEMMA ViewIs ==
    ASSUME NEW o \in Object
    PROVE  View(o) = [replicas |-> o.replicas, deleting |-> o.deleting,
                      finalizer |-> o.finalizer, nodes |-> Cardinality(o.nodes),
                      state |-> o.state, reported |-> o.kubeconfig]
BY AbsentAssumption DEF View

LEMMA ViewFinalized ==
    ASSUME NEW o \in Object, NEW b \in BOOLEAN
    PROVE  View([o EXCEPT !.finalizer = b]) = [View(o) EXCEPT !.finalizer = b]
<1>1. [o EXCEPT !.finalizer = b] \in Object
  BY DEF Object
<1> QED BY <1>1, ViewIs DEF Object

LEMMA ViewDeleted ==
    ASSUME NEW o \in Object, NEW b \in BOOLEAN
    PROVE  View([o EXCEPT !.deleting = b]) = [View(o) EXCEPT !.deleting = b]
<1>1. [o EXCEPT !.deleting = b] \in Object
  BY DEF Object
<1> QED BY <1>1, ViewIs DEF Object

\* Views that agree in every field are the same.
LEMMA SameView ==
    ASSUME NEW x \in Contract!Object, NEW y \in Contract!Object,
           x.replicas = y.replicas, x.deleting = y.deleting,
           x.finalizer = y.finalizer, x.nodes = y.nodes, x.state = y.state,
           x.reported = y.reported
    PROVE  x = y
BY DEF Contract!Object

LEMMA ViewScaled ==
    ASSUME NEW o \in Object, NEW c \in Object, c.replicas = o.replicas,
           c.deleting = o.deleting, c.finalizer = o.finalizer,
           c.kubeconfig = o.kubeconfig
    PROVE  View(c) = [View(o) EXCEPT !.state = c.state,
                                     !.nodes = Cardinality(c.nodes)]
<1> DEFINE x == View(o)
           z == [x EXCEPT !.state = c.state, !.nodes = Cardinality(c.nodes)]
<1>1. x \in Contract!Object /\ View(c) \in Contract!Object
  BY ViewType
<1>2. c.state \in Contract!States
      /\ Cardinality(c.nodes) \in 0 .. Cardinality(VMs)
  BY CountType DEF Object, States, Contract!States
<1> HIDE DEF x
<1>3. /\ z \in Contract!Object /\ z.replicas = x.replicas
      /\ z.deleting = x.deleting /\ z.finalizer = x.finalizer
      /\ z.nodes = Cardinality(c.nodes) /\ z.state = c.state
      /\ z.reported = x.reported
  BY <1>1, <1>2 DEF Contract!Object
<1> HIDE DEF z
<1>4. /\ View(c).replicas = z.replicas /\ View(c).deleting = z.deleting
      /\ View(c).finalizer = z.finalizer /\ View(c).nodes = z.nodes
      /\ View(c).state = z.state /\ View(c).reported = z.reported
  BY <1>3, ViewType DEF x
<1>5. View(c) = z
  BY <1>1, <1>3, <1>4, SameView
<1> QED BY <1>5 DEF x, z

LEMMA ViewReported ==
    ASSUME NEW o \in Object, NEW c \in Object, c.replicas = o.replicas,
           c.deleting = o.deleting, c.finalizer = o.finalizer
    PROVE  View(c) = [View(o) EXCEPT !.state = c.state,
                                     !.nodes = Cardinality(c.nodes),
                                     !.reported = c.kubeconfig]
<1> DEFINE x == View(o)
           z == [x EXCEPT !.state = c.state, !.nodes = Cardinality(c.nodes),
                          !.reported = c.kubeconfig]
<1>1. x \in Contract!Object /\ View(c) \in Contract!Object
  BY ViewType
<1>2. c.state \in Contract!States /\ c.kubeconfig \in BOOLEAN
      /\ Cardinality(c.nodes) \in 0 .. Cardinality(VMs)
  BY CountType DEF Object, States, Contract!States
<1> HIDE DEF x
<1>3. /\ z \in Contract!Object /\ z.replicas = x.replicas
      /\ z.deleting = x.deleting /\ z.finalizer = x.finalizer
      /\ z.nodes = Cardinality(c.nodes) /\ z.state = c.state
      /\ z.reported = c.kubeconfig
  BY <1>1, <1>2 DEF Contract!Object
<1> HIDE DEF z
<1>4. /\ View(c).replicas = z.replicas /\ View(c).deleting = z.deleting
      /\ View(c).finalizer = z.finalizer /\ View(c).nodes = z.nodes
      /\ View(c).state = z.state /\ View(c).reported = z.reported
  BY <1>3, ViewType DEF x
<1>5. View(c) = z
  BY <1>1, <1>3, <1>4, SameView
<1> QED BY <1>5 DEF x, z

\* The steps that write the object are the contract's; all others leave it.
LEMMA ContractNext ==
    ASSUME TypeOK, CopyInv, [Next]_vars
    PROVE  [Contract!Next]_(View(obj))
<1> USE DEF Contract!Next, Contract!Owner, Contract!Controller
<1>0. View(obj)' = View(obj')
  BY DEF View
<1>1. CASE UNCHANGED obj
  BY <1>1 DEF View
<1>2. ASSUME obj' # obj, obj = read, pc # "idle"
      PROVE  /\ obj \in Object /\ instance \in Object
             /\ View(obj) # Absent
             /\ View(obj).deleting = obj.deleting
             /\ View(obj).finalizer = obj.finalizer
  BY <1>2, CopyType, ViewType
<1>3. CASE Finalize
  <2> SUFFICES ASSUME obj' # obj PROVE [Contract!Next]_(View(obj))
    BY <1>1
  <2>1. /\ obj = read /\ pc = "finalize"
        /\ obj' = [obj EXCEPT !.finalizer = TRUE]
    BY <1>3 DEF Finalize
  <2>2. obj \in Object /\ ~obj.deleting /\ ~obj.finalizer
    BY <1>2, <2>1 DEF CopyInv
  <2>3. obj' \in Object
    BY <2>1, <2>2 DEF Object
  <2>4. View(obj') = [View(obj) EXCEPT !.finalizer = TRUE]
    BY <2>1, <2>2, ViewFinalized
  <2> QED
    BY <1>0, <1>2, <2>1, <2>2, <2>4 DEF Contract!Finalize, Contract!Serving
<1>4. CASE Release
  <2> SUFFICES ASSUME obj' # obj PROVE [Contract!Next]_(View(obj))
    BY <1>1
  <2>1. obj = read /\ pc = "release" /\ View(obj') = Absent
    BY <1>4 DEF Release, View
  <2>2. obj.deleting /\ obj.finalizer
    BY <2>1 DEF CopyInv
  <2> QED
    BY <1>0, <1>2, <2>1, <2>2 DEF Contract!Release
<1>5. CASE Updating
  <2> SUFFICES ASSUME obj' # obj PROVE [Contract!Next]_(View(obj))
    BY <1>1
  <2>1. /\ obj = read /\ pc = "updating"
        /\ obj' = [instance EXCEPT !.state = "Updating"]
    BY <1>5 DEF Updating, Write
  <2>2. instance = obj /\ ~obj.deleting /\ obj.finalizer
    BY <2>1 DEF CopyInv
  <2>3. obj' \in Object
    BY <1>2, <2>1 DEF Object, States
  <2>4. View(obj') = [View(obj) EXCEPT !.state = "Updating"]
    BY <1>2, <2>1, <2>2, <2>3, ViewIs DEF Object
  <2> QED
    BY <1>0, <1>2, <2>1, <2>2, <2>4 DEF Contract!Provision, Contract!Serving
<1>6. CASE Scaling
  <2> SUFFICES ASSUME obj' # obj PROVE [Contract!Next]_(View(obj))
    BY <1>1
  <2>1. /\ obj = read /\ pc = "scaling"
        /\ obj' = [instance EXCEPT !.state = "Scaling"]
    BY <1>6 DEF Scaling, Write
  <2> DEFINE k == Cardinality(instance.nodes)
  <2>2. /\ ~obj.deleting /\ obj.finalizer
        /\ instance = [obj EXCEPT !.nodes = instance.nodes]
        /\ k # instance.replicas
    BY <2>1 DEF CopyInv
  <2>3. /\ instance \in Object /\ obj' \in Object
        /\ instance.replicas = obj.replicas
    BY <1>2, <2>1, <2>2 DEF Object, States
  <2>4. k \in 0 .. Cardinality(VMs)
    BY <2>3, CountType DEF Object
  <2>5. View(obj).replicas = obj.replicas
    BY <1>2, <2>1, ViewType
  <2>6. View(obj') = [View(obj) EXCEPT !.state = "Scaling", !.nodes = k]
    <3>1. /\ obj'.replicas = obj.replicas /\ obj'.deleting = obj.deleting
          /\ obj'.finalizer = obj.finalizer
          /\ obj'.kubeconfig = obj.kubeconfig
          /\ obj'.state = "Scaling" /\ obj'.nodes = instance.nodes
      BY <1>2, <2>1, <2>2, <2>3 DEF Object
    <3>2. obj \in Object
      BY <1>2, <2>1
    <3>3. View(obj') = [View(obj) EXCEPT !.state = obj'.state,
                                         !.nodes = Cardinality(obj'.nodes)]
      BY <2>3, <3>1, <3>2, ViewScaled
    <3> QED BY <3>1, <3>3, Zenon
  <2> HIDE DEF k
  <2> QED
    BY <1>0, <1>2, <2>1, <2>2, <2>3, <2>4, <2>5, <2>6
    DEF Contract!Rescale, Contract!Serving
<1>7. CASE Report
  <2> SUFFICES ASSUME obj' # obj PROVE [Contract!Next]_(View(obj))
    BY <1>1
  <2>1. /\ obj = read /\ pc = "report"
        /\ obj' = [instance EXCEPT !.state = "Succeeded", !.kubeconfig = TRUE]
    BY <1>7 DEF Report
  <2>2. /\ ~obj.deleting /\ obj.finalizer
        /\ instance = [obj EXCEPT !.nodes = instance.nodes]
        /\ Cardinality(instance.nodes) = instance.replicas
    BY <2>1 DEF CopyInv, AtSize
  <2>3. /\ instance \in Object /\ obj' \in Object
        /\ instance.replicas = obj.replicas
    BY <1>2, <2>1, <2>2 DEF Object, States
  <2>4. /\ obj'.replicas = obj.replicas /\ obj'.deleting = obj.deleting
        /\ obj'.finalizer = obj.finalizer /\ obj'.kubeconfig = TRUE
        /\ obj'.state = "Succeeded" /\ obj'.nodes = instance.nodes
        /\ View(obj).replicas = obj.replicas
    BY <1>2, <2>1, <2>2, <2>3, ViewType DEF Object
  <2>5. View(obj') = [View(obj) EXCEPT !.state = "Succeeded",
                                       !.nodes = Cardinality(instance.nodes),
                                       !.reported = TRUE]
    <3>1. obj \in Object
      BY <1>2, <2>1
    <3>2. View(obj') = [View(obj) EXCEPT !.state = obj'.state,
                                         !.nodes = Cardinality(obj'.nodes),
                                         !.reported = obj'.kubeconfig]
      BY <2>3, <2>4, <3>1, ViewReported
    <3> QED BY <2>4, <3>2, Zenon
  <2>6. View(obj') = [View(obj) EXCEPT !.state = "Succeeded",
                                       !.nodes = View(obj).replicas,
                                       !.reported = TRUE]
    BY <2>2, <2>3, <2>4, <2>5
  <2> QED
    BY <1>0, <1>2, <2>1, <2>2, <2>6 DEF Contract!Report, Contract!Serving
<1>8. CASE SetReplicas
  <2>1. PICK r \in Replicas : obj' = [obj EXCEPT !.replicas = r]
    BY <1>8 DEF SetReplicas
  <2>2. obj \in Object /\ obj' \in Object
    BY <1>8, <2>1 DEF SetReplicas, TypeOK, Object
  <2>3. View(obj') = [View(obj) EXCEPT !.replicas = r]
    BY <2>1, <2>2, ViewIs DEF Object
  <2> QED
    BY <1>0, <2>2, <2>3, ViewType DEF Contract!SetReplicas
<1>9. CASE Delete
  <2>1. obj \in Object
    BY <1>9 DEF Delete, TypeOK
  <2>2. View(obj') = IF obj.finalizer THEN [View(obj) EXCEPT !.deleting = TRUE]
                     ELSE Absent
    <3>1. CASE obj.finalizer
      <4>1. obj' = [obj EXCEPT !.deleting = TRUE] /\ obj' \in Object
        BY <1>9, <2>1, <3>1 DEF Delete, Object
      <4> QED BY <2>1, <3>1, <4>1, ViewDeleted
    <3>2. CASE ~obj.finalizer
      BY <1>9, <3>2 DEF Delete, View
    <3> QED BY <3>1, <3>2
  <2> QED
    BY <1>0, <2>1, <2>2, ViewType DEF Contract!Delete
<1>10. CASE \/ Start \/ EvictAll \/ DeleteVMSS \/ List \/ Put \/ Evict
            \/ RemoveVM \/ Resize \/ Wait \/ ApiError \/ Watch \/ Resync
            \/ Restart \/ ClusterSucceeds \/ UNCHANGED vars
            \/ \E v \in VMs : World(v) \/ TurnNotReady(v)
  <2>1. UNCHANGED obj
    BY <1>10
    DEF Start, EvictAll, DeleteVMSS, List, Put, Evict, RemoveVM, Resize, Wait,
        ApiError, Watch, Resync, Restart, ClusterSucceeds, vars, World, Join,
        TurnReady, TurnNotReady, VMGone, NodeGone
  <2> QED BY <1>1, <2>1
<1> QED
  BY <1>3, <1>4, <1>5, <1>6, <1>7, <1>8, <1>9, <1>10 DEF Next, Reconcile

LEMMA ContractInit == Init => Contract!Init
<1> SUFFICES ASSUME Init PROVE View(obj) \in {Contract!New(r) : r \in Replicas}
  BY DEF Contract!Init
<1>1. obj \in Object /\ obj.nodes = {}
  BY InitType DEF Init, TypeOK, Object, States
<1>2. View(obj) = Contract!New(obj.replicas)
  BY <1>1, ViewIs, FS_EmptySet DEF Init, Contract!New
<1> QED BY <1>1, <1>2 DEF Object

\* The NodeSet controller keeps the contract that NodePool is specified
\* against: through interrupted and overlapping work on scale set and VMs,
\* conflicts, failures and restarts, whatever may fail and for any page size.
THEOREM ContractKept == Spec => KeepsContract
<1>1. Init => CopyInv
  BY DEF Init, CopyInv
<1>2. TypeOK /\ CopyInv /\ [Next]_vars => CopyInv'
  BY CopyNext
<1>3. TypeOK /\ CopyInv /\ [Next]_vars => [Contract!Next]_(View(obj))
  BY ContractNext
<1> QED
  BY <1>1, <1>2, <1>3, ContractInit, Typing, PTL
  DEF Spec, KeepsContract, Contract!Spec
=============================================================================
