------------------------------ MODULE MCProber ------------------------------
(* The prober on small instances: the last node is alone in rack 2, the    *)
(* others share rack 1.                                                    *)
EXTENDS Prober, TLC

MCHomeAtStart == [n \in Nodes |-> IF \A m \in Nodes : m <= n THEN 2 ELSE 1]

PodSymmetry == Permutations(PodIds)
=============================================================================
