----------------------------- MODULE MCNodePool -----------------------------
(* Instances of NodePool for TLC.                                          *)
EXTENDS NodePool

\* The pools are created at version 1 with one replica of one size: versions,
\* sizes and numbers are asked for in every order from there.
MCInit ==
    /\ Init
    /\ \A p \in Pools :
         /\ pool[p].version = 1 /\ pool[p].replicas = 1
         /\ pool[p].sku = CHOOSE s \in SKUs : TRUE

MCSpec == MCInit /\ [][Next]_vars

MCFairSpec == MCInit /\ [][Next]_vars /\ Fairness
=============================================================================
