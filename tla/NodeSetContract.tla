--------------------------- MODULE NodeSetContract ---------------------------
(***************************************************************************)
(* What a NodeSet is to those who read it: the ways in which its object    *)
(* changes, whatever happens in between.  Its owner creates it, changes    *)
(* Spec.Replicas and deletes it; its controller adds and removes the       *)
(* finalizer and writes the status.                                        *)
(*                                                                         *)
(* NodeSet implements this specification with a scale set, VMs and Nodes.  *)
(* NodePool decides a rollout from NodeSets of which it knows no more.     *)
(***************************************************************************)
EXTENDS Naturals

CONSTANTS
    Replicas,      \* the numbers of VMs that may be asked for
    Counts,        \* the numbers of VMs a listing may find
    Absent

VARIABLE obj       \* the NodeSet in the API server

States == {"", "Updating", "Scaling", "Succeeded"}

\* nodes is len(Status.NodeStatus); reported says that Status.Kubeconfig and
\* Status.KubernetesVersion, which are written together, are set.
Object == [replicas : Replicas, deleting : BOOLEAN, finalizer : BOOLEAN,
           nodes : Counts, state : States, reported : BOOLEAN]

New(r) == [replicas |-> r, deleting |-> FALSE, finalizer |-> FALSE,
           nodes |-> 0, state |-> "", reported |-> FALSE]

Init == obj \in {New(r) : r \in Replicas} \cup {Absent}

-----------------------------------------------------------------------------
(* The owner: the NodePool controller, Kubernetes' garbage collector       *)

Create == obj = Absent /\ \E r \in Replicas : obj' = New(r)

SetReplicas ==
    /\ obj # Absent
    /\ \E r \in Replicas : obj' = [obj EXCEPT !.replicas = r]

Delete ==
    /\ obj # Absent
    /\ obj' = IF obj.finalizer THEN [obj EXCEPT !.deleting = TRUE] ELSE Absent

Owner == Create \/ SetReplicas \/ Delete

-----------------------------------------------------------------------------
(* The NodeSet controller                                                  *)

Serving == obj # Absent /\ ~obj.deleting

Finalize ==
    /\ Serving /\ ~obj.finalizer
    /\ obj' = [obj EXCEPT !.finalizer = TRUE]

\* The VMs could not be listed: the count reported before stays.
Provision ==
    /\ Serving /\ obj.finalizer
    /\ obj' = [obj EXCEPT !.state = "Updating"]

\* A count is reported before the nodes are Ready only if it is not the one
\* asked for.
Rescale ==
    /\ Serving /\ obj.finalizer
    /\ \E k \in Counts \ {obj.replicas} :
         obj' = [obj EXCEPT !.state = "Scaling", !.nodes = k]

\* The count asked for is reported with the success, never before.
Report ==
    /\ Serving /\ obj.finalizer
    /\ obj' = [obj EXCEPT !.state = "Succeeded", !.nodes = obj.replicas,
                          !.reported = TRUE]

Release ==
    /\ obj # Absent /\ obj.deleting /\ obj.finalizer
    /\ obj' = Absent

Controller == Finalize \/ Provision \/ Rescale \/ Report \/ Release

-----------------------------------------------------------------------------
Next == Owner \/ Controller

Spec == Init /\ [][Next]_obj
=============================================================================
