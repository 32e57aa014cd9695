------------------------- MODULE NodePoolRefinement -------------------------
(***************************************************************************)
(* In NodePool every NodeSet changes as NodeSetContract has it, for every  *)
(* value of the constants: the reconciliations, Kubernetes' garbage        *)
(* collector and the steps left of the NodeSet controller are steps of the *)
(* contract, so that nothing NodePool's theorems rest on goes beyond it.   *)
(***************************************************************************)
EXTENDS NodePoolProofs

\* Only an object with a finalizer outlives its deletion.
MarkedInv ==
    \A n \in Names : nodeSet[n] # Absent /\ nodeSet[n].deleting
                       => nodeSet[n].finalizer

LEMMA MarkedNext ==
    ASSUME TypeOK, Copies, MarkedInv, [Next]_vars
    PROVE  MarkedInv'
<1> SUFFICES ASSUME NEW n \in Names, nodeSet'[n] # Absent, nodeSet'[n].deleting
             PROVE  nodeSet'[n].finalizer
  BY DEF MarkedInv
<1>1. nodeSet[n] # Absent => nodeSet[n] \in NodeSetObject
  BY DEF TypeOK
<1>2. nodeSet[n] # Absent /\ nodeSet[n].deleting => nodeSet[n].finalizer
  BY DEF MarkedInv
<1>3. Changes(n)
  BY EveryChange
<1>4. CASE nodeSet'[n] = nodeSet[n]
  BY <1>2, <1>4
<1>5. ASSUME NEW i \in PoolObject, nodeSet'[n] = NewNodeSet(i) PROVE FALSE
  BY <1>5 DEF NewNodeSet
<1>6. ASSUME nodeSet[n] # Absent, NEW k \in SKUs, NEW r \in Replicas,
             nodeSet'[n] = [nodeSet[n] EXCEPT !.sku = k, !.replicas = r]
      PROVE  nodeSet'[n].finalizer
  BY <1>1, <1>2, <1>6 DEF NodeSetObject
<1>7. CASE nodeSet[n] # Absent /\ nodeSet'[n] = Deleted(nodeSet[n])
  BY <1>1, <1>7 DEF Deleted, NodeSetObject
<1>8. CASE AddFinalizer(n)
  BY <1>1, <1>8 DEF AddFinalizer, Serving, NodeSetObject, TypeOK
<1>9. CASE Provision(n)
  <2>1. nodeSet'[n] = [nodeSet[n] EXCEPT !.status.state = "Updating"]
        /\ nodeSet[n].finalizer /\ nodeSet[n] \in NodeSetObject
    BY <1>1, <1>9 DEF Provision, Serving, TypeOK
  <2> QED BY <2>1 DEF NodeSetObject
<1>12. CASE ReportSuccess(n)
  <2>1. nodeSet'[n] = [nodeSet[n] EXCEPT !.status = SuccessStatus(n)]
        /\ nodeSet[n].finalizer /\ nodeSet[n] \in NodeSetObject
    BY <1>1, <1>12 DEF ReportSuccess, Serving, TypeOK
  <2> QED BY <2>1 DEF NodeSetObject
<1>10. CASE Rescale(n)
  BY <1>1, <1>10 DEF Rescale, Serving, NodeSetObject, TypeOK
<1>11. CASE Release(n)
  BY <1>11 DEF Release, TypeOK
<1> QED
  BY <1>3, <1>4, <1>5, <1>6, <1>7, <1>8, <1>9, <1>10, <1>11,
     <1>12
  DEF Changes

-----------------------------------------------------------------------------
(* The view of a change                                                    *)

\* View, of an object.
Seen(s) ==
    [replicas |-> s.replicas, deleting |-> s.deleting,
     finalizer |-> s.finalizer, nodes |-> s.status.nodes,
     state |-> s.status.state, reported |-> s.status.version # NoVersion]

LEMMA ViewType ==
    ASSUME NEW n \in Names, NEW s \in NodeSetObject
    PROVE  Seen(s) \in NodeSetOf(n)!Object /\ Seen(s) # Absent
<1>1. Seen(s) \in NodeSetOf(n)!Object
  BY DEF Seen, NodeSetObject, Status, States, NodeSetOf!Object, NodeSetOf!States
<1> QED BY <1>1, ViewAssumption

LEMMA SeenFields ==
    ASSUME NEW o \in NodeSetObject
    PROVE  /\ Seen(o).replicas = o.replicas /\ Seen(o).deleting = o.deleting
           /\ Seen(o).finalizer = o.finalizer
           /\ Seen(o).nodes = o.status.nodes /\ Seen(o).state = o.status.state
           /\ Seen(o).reported \in BOOLEAN
           /\ Seen(o).reported <=> o.status.version # NoVersion
BY DEF Seen

\* Views that agree in every field are the same.
LEMMA SameView ==
    ASSUME NEW n \in Names, NEW x \in NodeSetOf(n)!Object,
           NEW y \in NodeSetOf(n)!Object,
           x.replicas = y.replicas, x.deleting = y.deleting,
           x.finalizer = y.finalizer, x.nodes = y.nodes, x.state = y.state,
           x.reported = y.reported
    PROVE  x = y
BY DEF NodeSetOf!Object

\* The views of the changes of a status.
LEMMA SeenProvision ==
    ASSUME NEW n \in Names, NEW o \in NodeSetObject, NEW c \in NodeSetObject,
           c.replicas = o.replicas, c.deleting = o.deleting,
           c.finalizer = o.finalizer, c.status.nodes = o.status.nodes,
           c.status.version = o.status.version
    PROVE  Seen(c) = [Seen(o) EXCEPT !.state = c.status.state]
<1> DEFINE x == Seen(o)
           z == [x EXCEPT !.state = c.status.state]
<1>1. x \in NodeSetOf(n)!Object /\ Seen(c) \in NodeSetOf(n)!Object
  BY ViewType
<1>2. c.status.state \in NodeSetOf(n)!States
  BY DEF NodeSetObject, Status, States, NodeSetOf!States
<1> HIDE DEF x
<1>3. /\ z \in NodeSetOf(n)!Object /\ z.replicas = x.replicas
      /\ z.deleting = x.deleting /\ z.finalizer = x.finalizer
      /\ z.nodes = x.nodes /\ z.state = c.status.state
      /\ z.reported = x.reported
  BY <1>1, <1>2 DEF NodeSetOf!Object
<1> HIDE DEF z
<1>4. /\ Seen(c).replicas = z.replicas /\ Seen(c).deleting = z.deleting
      /\ Seen(c).finalizer = z.finalizer /\ Seen(c).nodes = z.nodes
      /\ Seen(c).state = z.state
      /\ Seen(c).reported <=> z.reported
  BY <1>3, SeenFields DEF x
<1>5. Seen(c) = z
  <2>1. Seen(c) \in NodeSetOf(n)!Object /\ z \in NodeSetOf(n)!Object
    BY <1>1, <1>3
  <2>2. Seen(c).reported = z.reported
    BY <2>1, <1>4 DEF NodeSetOf!Object
  <2> HIDE DEF Seen
  <2> QED BY <2>1, <2>2, <1>4, SameView
<1> QED BY <1>5 DEF x, z

LEMMA SeenRescale ==
    ASSUME NEW n \in Names, NEW o \in NodeSetObject, NEW c \in NodeSetObject,
           c.replicas = o.replicas, c.deleting = o.deleting,
           c.finalizer = o.finalizer, c.status.version = o.status.version
    PROVE  Seen(c) = [Seen(o) EXCEPT !.state = c.status.state,
                                     !.nodes = c.status.nodes]
<1> DEFINE x == Seen(o)
           z == [x EXCEPT !.state = c.status.state, !.nodes = c.status.nodes]
<1>1. x \in NodeSetOf(n)!Object /\ Seen(c) \in NodeSetOf(n)!Object
  BY ViewType
<1>2. /\ c.status.state \in NodeSetOf(n)!States
      /\ c.status.nodes \in 0 .. MaxReplicas
  BY DEF NodeSetObject, Status, States, NodeSetOf!States
<1> HIDE DEF x
<1>3. /\ z \in NodeSetOf(n)!Object /\ z.replicas = x.replicas
      /\ z.deleting = x.deleting /\ z.finalizer = x.finalizer
      /\ z.nodes = c.status.nodes /\ z.state = c.status.state
      /\ z.reported = x.reported
  BY <1>1, <1>2 DEF NodeSetOf!Object
<1> HIDE DEF z
<1>4. /\ Seen(c).replicas = z.replicas /\ Seen(c).deleting = z.deleting
      /\ Seen(c).finalizer = z.finalizer /\ Seen(c).nodes = z.nodes
      /\ Seen(c).state = z.state
      /\ Seen(c).reported <=> z.reported
  BY <1>3, SeenFields DEF x
<1>5. Seen(c) = z
  <2>1. Seen(c) \in NodeSetOf(n)!Object /\ z \in NodeSetOf(n)!Object
    BY <1>1, <1>3
  <2>2. Seen(c).reported = z.reported
    BY <2>1, <1>4 DEF NodeSetOf!Object
  <2> HIDE DEF Seen
  <2> QED BY <2>1, <2>2, <1>4, SameView
<1> QED BY <1>5 DEF x, z

LEMMA SeenReport ==
    ASSUME NEW n \in Names, NEW o \in NodeSetObject, NEW c \in NodeSetObject,
           c.replicas = o.replicas, c.deleting = o.deleting,
           c.finalizer = o.finalizer, c.status.version # NoVersion
    PROVE  Seen(c) = [Seen(o) EXCEPT !.state = c.status.state,
                                     !.nodes = c.status.nodes,
                                     !.reported = TRUE]
<1> DEFINE x == Seen(o)
           z == [x EXCEPT !.state = c.status.state, !.nodes = c.status.nodes,
                          !.reported = TRUE]
<1>1. x \in NodeSetOf(n)!Object /\ Seen(c) \in NodeSetOf(n)!Object
  BY ViewType
<1>2. /\ c.status.state \in NodeSetOf(n)!States
      /\ c.status.nodes \in 0 .. MaxReplicas
  BY DEF NodeSetObject, Status, States, NodeSetOf!States
<1> HIDE DEF x
<1>3. /\ z \in NodeSetOf(n)!Object /\ z.replicas = x.replicas
      /\ z.deleting = x.deleting /\ z.finalizer = x.finalizer
      /\ z.nodes = c.status.nodes /\ z.state = c.status.state
      /\ z.reported
  BY <1>1, <1>2 DEF NodeSetOf!Object
<1> HIDE DEF z
<1>4. /\ Seen(c).replicas = z.replicas /\ Seen(c).deleting = z.deleting
      /\ Seen(c).finalizer = z.finalizer /\ Seen(c).nodes = z.nodes
      /\ Seen(c).state = z.state
      /\ Seen(c).reported <=> z.reported
  BY <1>3, SeenFields DEF x
<1>5. Seen(c) = z
  <2>1. Seen(c) \in NodeSetOf(n)!Object /\ z \in NodeSetOf(n)!Object
    BY <1>1, <1>3
  <2>2. Seen(c).reported = z.reported
    BY <2>1, <1>4 DEF NodeSetOf!Object
  <2> HIDE DEF Seen
  <2> QED BY <2>1, <2>2, <1>4, SameView
<1> QED BY <1>5 DEF x, z

LEMMA ContractNext ==
    ASSUME TypeOK, Copies, MarkedInv, [Next]_vars, NEW n \in Names
    PROVE  [NodeSetOf(n)!Next]_(View(n))
<1> USE DEF NodeSetOf!Next, NodeSetOf!Owner, NodeSetOf!Controller
<1> DEFINE s == nodeSet[n]
           t == nodeSet'[n]
<1>0. /\ View(n) = IF s = Absent THEN Absent ELSE Seen(s)
      /\ View(n)' = IF t = Absent THEN Absent ELSE Seen(t)
  BY DEF View, Seen
<1>1. s # Absent => s \in NodeSetObject /\ Seen(s) # Absent
  BY ViewType DEF TypeOK
<1>2. t # Absent => t \in NodeSetObject
  BY NextType DEF TypeOK
<1>3. Changes(n)
  BY EveryChange
<1>4. CASE t = s
  BY <1>0, <1>4
<1>5. ASSUME s = Absent, NEW i \in PoolObject, t = NewNodeSet(i)
      PROVE  [NodeSetOf(n)!Next]_(View(n))
  <2>1. t # Absent
    <3>1. t \in NodeSetObject
      BY <1>5, StatusType DEF NewNodeSet, NodeSetObject, PoolObject
    <3> QED BY <3>1, AbsentAssumption
  <2>2. Seen(t) = NodeSetOf(n)!New(i.replicas)
    <3> DEFINE z == NodeSetOf(n)!New(i.replicas)
    <3>1. i.replicas \in Replicas /\ i.sku \in SKUs
      BY DEF PoolObject
    <3>2. /\ z \in NodeSetOf(n)!Object /\ z.replicas = i.replicas
          /\ ~z.deleting /\ ~z.finalizer /\ z.nodes = 0 /\ z.state = ""
          /\ ~z.reported
      BY <3>1, BoundsAssumption
      DEF NodeSetOf!New, NodeSetOf!Object, NodeSetOf!States
    <3>3. t \in NodeSetObject
      BY <1>5, <3>1, StatusType DEF NewNodeSet, NodeSetObject
    <3>4. /\ t.replicas = i.replicas /\ ~t.deleting /\ ~t.finalizer
          /\ t.status = NoStatus
      BY <1>5 DEF NewNodeSet
    <3>5. /\ Seen(t) \in NodeSetOf(n)!Object /\ Seen(t).replicas = i.replicas
          /\ ~Seen(t).deleting /\ ~Seen(t).finalizer /\ Seen(t).nodes = 0
          /\ Seen(t).state = "" /\ ~Seen(t).reported
      <4>1. Seen(t) \in NodeSetOf(n)!Object
        BY <3>3, ViewType
      <4>2. /\ t.status.nodes = 0 /\ t.status.state = ""
            /\ t.status.version = NoVersion
        <5>1. t.status = NoStatus
          BY <3>4
        <5>2. /\ NoStatus.nodes = 0 /\ NoStatus.state = ""
              /\ NoStatus.version = NoVersion
          BY DEF NoStatus
        <5> QED BY <5>1, <5>2
      <4> QED BY <3>3, <3>4, <4>1, <4>2, SeenFields
    <3>6. /\ Seen(t).deleting = z.deleting /\ Seen(t).finalizer = z.finalizer
          /\ Seen(t).reported = z.reported
      BY <3>2, <3>5 DEF NodeSetOf!Object
    <3> HIDE DEF z
    <3>7. Seen(t) = z
      BY <3>2, <3>5, <3>6, SameView
    <3> QED BY <3>7 DEF z
  <2>3. i.replicas \in Replicas
    BY DEF PoolObject
  <2> QED
    BY <1>0, <1>5, <2>1, <2>2, <2>3 DEF NodeSetOf!Create
<1>6. ASSUME s # Absent, NEW k \in SKUs, NEW r \in Replicas,
             t = [s EXCEPT !.sku = k, !.replicas = r]
      PROVE  [NodeSetOf(n)!Next]_(View(n))
  <2>1. t \in NodeSetObject /\ t # Absent
    BY <1>1, <1>6, AbsentAssumption DEF NodeSetObject
  <2>2. /\ t.replicas = r /\ t.deleting = s.deleting
        /\ t.finalizer = s.finalizer /\ t.status = s.status
    BY <1>1, <1>6 DEF NodeSetObject
  <2>3. Seen(t) = [Seen(s) EXCEPT !.replicas = r]
    BY <2>2 DEF Seen
  <2> QED
    BY <1>0, <1>1, <1>6, <2>1, <2>3 DEF NodeSetOf!SetReplicas
<1>7. CASE s # Absent /\ t = Deleted(s)
  <2>1. CASE s.finalizer
    <3>1. t = [s EXCEPT !.deleting = TRUE]
      BY <1>7, <2>1 DEF Deleted
    <3>2. t \in NodeSetObject /\ t # Absent
      BY <1>1, <1>7, <3>1, AbsentAssumption DEF NodeSetObject
    <3>3. /\ t.replicas = s.replicas /\ t.deleting = TRUE
          /\ t.finalizer = s.finalizer /\ t.status = s.status
      BY <1>1, <1>7, <3>1 DEF NodeSetObject
    <3>4. Seen(t) = [Seen(s) EXCEPT !.deleting = t.deleting]
      BY <3>3 DEF Seen
    <3>5. Seen(t) = [Seen(s) EXCEPT !.deleting = TRUE]
      BY <3>3, <3>4, Zenon
    <3>6. Seen(s).finalizer
      BY <2>1 DEF Seen
    <3> QED
      BY <1>0, <1>1, <1>7, <3>2, <3>5, <3>6 DEF NodeSetOf!Delete
  <2>2. CASE ~s.finalizer
    <3>1. t = Absent
      BY <1>7, <2>2 DEF Deleted
    <3>2. ~Seen(s).finalizer
      BY <2>2 DEF Seen
    <3> QED
      BY <1>0, <1>1, <1>7, <3>1, <3>2 DEF NodeSetOf!Delete
  <2> QED BY <2>1, <2>2
<1>8. CASE AddFinalizer(n)
  <2>1. /\ s # Absent /\ ~s.deleting /\ ~s.finalizer
        /\ t = [s EXCEPT !.finalizer = TRUE]
    BY <1>8 DEF AddFinalizer, Serving, TypeOK
  <2>2. t \in NodeSetObject /\ t # Absent
    BY <1>1, <2>1, AbsentAssumption DEF NodeSetObject
  <2>3. /\ t.replicas = s.replicas /\ t.deleting = s.deleting
        /\ t.finalizer = TRUE /\ t.status = s.status
    BY <1>1, <2>1 DEF NodeSetObject
  <2>4. Seen(t) = [Seen(s) EXCEPT !.finalizer = t.finalizer]
    BY <2>3 DEF Seen
  <2>5. Seen(t) = [Seen(s) EXCEPT !.finalizer = TRUE]
    BY <2>3, <2>4, Zenon
  <2>6. ~Seen(s).deleting /\ ~Seen(s).finalizer
    BY <2>1 DEF Seen
  <2> QED
    BY <1>0, <1>1, <2>1, <2>2, <2>5, <2>6
    DEF NodeSetOf!Finalize, NodeSetOf!Serving
<1>9. CASE Provision(n)
  <2> DEFINE st == [s.status EXCEPT !.state = "Updating"]
  <2>1. /\ s # Absent /\ ~s.deleting /\ s.finalizer /\ s \in NodeSetObject
        /\ t = [s EXCEPT !.status.state = "Updating"]
    BY <1>1, <1>9 DEF Provision, Serving, TypeOK
  <2>2. /\ st \in Status /\ st.nodes = s.status.nodes
        /\ st.state = "Updating" /\ st.version = s.status.version
    BY <2>1 DEF NodeSetObject, Status, States
  <2>3. t = [s EXCEPT !.status = st]
    BY <2>1 DEF NodeSetObject
  <2> HIDE DEF st
  <2>4. /\ t \in NodeSetObject /\ t # Absent
        /\ t.replicas = s.replicas /\ t.deleting = s.deleting
        /\ t.finalizer = s.finalizer /\ t.status = st
    <3>1. t \in NodeSetObject
      BY <2>1, <2>2, <2>3 DEF NodeSetObject
    <3>2. /\ t.replicas = s.replicas /\ t.deleting = s.deleting
          /\ t.finalizer = s.finalizer /\ t.status = st
      <4>1. s \in NodeSetObject
        BY <2>1
      <4> QED BY <2>3, <4>1 DEF NodeSetObject
    <3> QED BY <3>1, <3>2, AbsentAssumption
  <2>5. Seen(t) = [Seen(s) EXCEPT !.state = "Updating"]
    <3>1. Seen(t) = [Seen(s) EXCEPT !.state = t.status.state]
      BY <2>1, <2>2, <2>4, SeenProvision
    <3> QED BY <2>2, <2>4, <3>1, Zenon
  <2>6. ~Seen(s).deleting /\ Seen(s).finalizer
    BY <2>1 DEF Seen
  <2> QED
    BY <1>0, <1>1, <2>1, <2>4, <2>5, <2>6
    DEF NodeSetOf!Provision, NodeSetOf!Serving
<1>10. CASE Rescale(n)
  <2> PICK k \in (0 .. MaxReplicas) \ {s.replicas} :
        nodeSet' = [nodeSet EXCEPT ![n].status.state = "Scaling",
                                   ![n].status.nodes = k]
    BY <1>10 DEF Rescale
  <2> DEFINE st == [s.status EXCEPT !.state = "Scaling", !.nodes = k]
  <2>1. /\ s # Absent /\ ~s.deleting /\ s.finalizer /\ s \in NodeSetObject
        /\ t = [s EXCEPT !.status.state = "Scaling", !.status.nodes = k]
    BY <1>1, <1>10 DEF Rescale, Serving, TypeOK
  <2>2. /\ st \in Status /\ st.nodes = k
        /\ st.state = "Scaling" /\ st.version = s.status.version
    BY <2>1 DEF NodeSetObject, Status, States
  <2>3. t = [s EXCEPT !.status = st]
    BY <2>1 DEF NodeSetObject, Status
  <2> HIDE DEF st
  <2>4. /\ t \in NodeSetObject /\ t # Absent
        /\ t.replicas = s.replicas /\ t.deleting = s.deleting
        /\ t.finalizer = s.finalizer /\ t.status = st
    <3>1. t \in NodeSetObject
      BY <2>1, <2>2, <2>3 DEF NodeSetObject
    <3>2. /\ t.replicas = s.replicas /\ t.deleting = s.deleting
          /\ t.finalizer = s.finalizer /\ t.status = st
      <4>1. s \in NodeSetObject
        BY <2>1
      <4> QED BY <2>3, <4>1 DEF NodeSetObject
    <3> QED BY <3>1, <3>2, AbsentAssumption
  <2>5. Seen(t) = [Seen(s) EXCEPT !.state = "Scaling", !.nodes = k]
    <3>1. Seen(t) = [Seen(s) EXCEPT !.state = t.status.state,
                                    !.nodes = t.status.nodes]
      <4>1. t.status.version = s.status.version /\ s \in NodeSetObject
        BY <2>1, <2>2, <2>4
      <4> QED BY <2>4, <4>1, SeenRescale
    <3> QED BY <2>2, <2>4, <3>1, Zenon
  <2>6. ~Seen(s).deleting /\ Seen(s).finalizer /\ Seen(s).replicas = s.replicas
    BY <2>1 DEF Seen
  <2> QED
    BY <1>0, <1>1, <2>1, <2>4, <2>5, <2>6
    DEF NodeSetOf!Rescale, NodeSetOf!Serving
<1>11. CASE ReportSuccess(n)
  <2>1. /\ s # Absent /\ ~s.deleting /\ s.finalizer /\ s \in NodeSetObject
        /\ t = [s EXCEPT !.status = SuccessStatus(n)]
    BY <1>1, <1>11 DEF ReportSuccess, Serving, TypeOK
  <2>2. n[2] \in Versions /\ s.replicas \in 0 .. MaxReplicas
    BY <2>1, BoundsAssumption DEF NodeSetObject, Replicas, Names
  <2>3. /\ SuccessStatus(n) \in Status /\ SuccessStatus(n).nodes = s.replicas
        /\ SuccessStatus(n).state = "Succeeded"
        /\ SuccessStatus(n).version # NoVersion
    BY <2>2, VersionsAssumption DEF SuccessStatus, Status, States, NoVersion
  <2>4. /\ t \in NodeSetObject /\ t # Absent
        /\ t.replicas = s.replicas /\ t.deleting = s.deleting
        /\ t.finalizer = s.finalizer /\ t.status = SuccessStatus(n)
    <3>1. t \in NodeSetObject
      BY <2>1, <2>3 DEF NodeSetObject
    <3>2. /\ t.replicas = s.replicas /\ t.deleting = s.deleting
          /\ t.finalizer = s.finalizer /\ t.status = SuccessStatus(n)
      BY <2>1 DEF NodeSetObject
    <3> QED BY <3>1, <3>2, AbsentAssumption
  <2>5. Seen(t) = [Seen(s) EXCEPT !.state = "Succeeded",
                                  !.nodes = Seen(s).replicas,
                                  !.reported = TRUE]
    <3>1. Seen(t) = [Seen(s) EXCEPT !.state = t.status.state,
                                    !.nodes = t.status.nodes,
                                    !.reported = TRUE]
      <4>1. t.status.version # NoVersion /\ s \in NodeSetObject
        BY <2>1, <2>3, <2>4
      <4> QED BY <2>4, <4>1, SeenReport
    <3>2. t.status.state = "Succeeded" /\ t.status.nodes = Seen(s).replicas
      BY <2>1, <2>3, <2>4, SeenFields
    <3> QED BY <3>1, <3>2, Zenon
  <2>6. ~Seen(s).deleting /\ Seen(s).finalizer
    BY <2>1 DEF Seen
  <2> QED
    BY <1>0, <1>1, <2>1, <2>4, <2>5, <2>6
    DEF NodeSetOf!Report, NodeSetOf!Serving
<1>12. CASE Release(n)
  <2>1. s # Absent /\ s.deleting /\ s.finalizer /\ t = Absent
    BY <1>12 DEF Release, MarkedInv, TypeOK
  <2>2. Seen(s).deleting /\ Seen(s).finalizer
    BY <2>1 DEF Seen
  <2> QED
    BY <1>0, <1>1, <2>1, <2>2 DEF NodeSetOf!Release
<1> QED
  BY <1>3, <1>4, <1>5, <1>6, <1>7, <1>8, <1>9, <1>10, <1>11,
     <1>12
  DEF Changes

\* The owner's side and the rest of the contract are kept: a NodeSet is never
\* put back to what a stale copy said of it, whatever fails and whoever edits.
THEOREM ContractFollowed == Spec => OwnsByContract
<1>1. Init => MarkedInv
  BY DEF Init, MarkedInv
<1>2. TypeOK /\ Copies /\ MarkedInv /\ [Next]_vars => MarkedInv'
  BY MarkedNext
<1>3. TypeOK /\ Copies /\ MarkedInv /\ [Next]_vars
        => \A n \in Names : [NodeSetOf(n)!Next]_(View(n))
  BY ContractNext
<1> QED
  BY <1>1, <1>2, <1>3, Typing, PTL DEF Spec, OwnsByContract
=============================================================================
