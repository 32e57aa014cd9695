------------------------ MODULE ControlPlaneContract ------------------------
(***************************************************************************)
(* What the control plane of a cluster is to those who use it: the version *)
(* asked for, the version reported, and the versions of kubelet its masters*)
(* run, as their Nodes say.  The cluster's owner makes the first master,   *)
(* asks for versions, may lose masters and destroys it all; the            *)
(* ControlPlane controller brings the other masters and the upgrades, and  *)
(* reports.                                                                *)
(*                                                                         *)
(* ControlPlane implements this specification with a scale set and upgrade *)
(* scripts, beginning with the first master there and a version asked for. *)
(* Cluster, which knows no versions, goes by it from the first "azk create"*)
(* to the deletion of the resource group.                                  *)
(***************************************************************************)
EXTENDS Naturals

CONSTANTS
    Masters,
    Versions,      \* positive numbers
    None           \* no version, less than all of them

VARIABLES
    asked,         \* Spec.KubernetesVersion, None without a ControlPlane
    said,          \* Status.KubernetesVersion
    runs           \* the version of each master's Node, None without one

vars == <<asked, said, runs>>

Init ==
    /\ asked \in Versions \cup {None}
    /\ said = None
    /\ runs \in [Masters -> {None, asked}]

-----------------------------------------------------------------------------
(* The owner: azk and kubectl                                              *)

\* The Node of the master "azk create" made.
Found ==
    /\ asked = None /\ runs = [m \in Masters |-> None]
    /\ \E m \in Masters, v \in Versions : runs' = [runs EXCEPT ![m] = v]
    /\ UNCHANGED <<asked, said>>

\* The ControlPlane is created at the version of the first master's Node.
Create ==
    /\ asked = None
    /\ asked' \in {runs[m] : m \in Masters} \ {None}
    /\ UNCHANGED <<said, runs>>

\* A version is asked for once the one before was reported.
Upgrade ==
    /\ asked # None /\ said # None
    /\ asked' \in {v \in Versions : v > asked}
    /\ UNCHANGED <<said, runs>>

\* Another "azk create" takes masters away.
Lose ==
    /\ asked # None
    /\ \E m \in Masters : runs' = [runs EXCEPT ![m] = None]
    /\ UNCHANGED <<asked, said>>

\* With the masters go the API server and its objects.
Destroy ==
    /\ asked' = None /\ said' = None
    /\ runs' = [m \in Masters |-> None]

Owner == Found \/ Create \/ Upgrade \/ Lose \/ Destroy

-----------------------------------------------------------------------------
(* The ControlPlane controller, and the masters it makes and upgrades      *)

\* Masters are added before the first report only, at the version asked for.
Join ==
    /\ asked # None /\ said = None
    /\ \E m \in Masters :
         runs[m] = None /\ runs' = [runs EXCEPT ![m] = asked]
    /\ UNCHANGED <<asked, said>>

\* A master's kubelet is brought forward, no farther than was asked.
Install ==
    /\ said # None
    /\ \E m \in Masters, v \in Versions :
         /\ runs[m] # None /\ runs[m] < v /\ v <= asked
         /\ runs' = [runs EXCEPT ![m] = v]
    /\ UNCHANGED <<asked, said>>

\* A version is reported when all the masters have a Node of it.
Report ==
    /\ asked # None
    /\ \A m \in Masters : runs[m] = asked
    /\ said' = asked
    /\ UNCHANGED <<asked, runs>>

Controller == Join \/ Install \/ Report

-----------------------------------------------------------------------------
Next == Owner \/ Controller

Spec == Init /\ [][Next]_vars
=============================================================================
