--------------------------- MODULE MCDeleteRetry ---------------------------
(* One rack of one node: the shortest life of a pod whose delete fails.    *)
EXTENDS DeleteRetry, TLC

MCHomeAtStart == [n \in Nodes |-> 1]
=============================================================================
