---------------------------- MODULE MCProbePair ----------------------------
(* ProbePair for TLC.                                                      *)
EXTENDS ProbePair

CONSTANTS n1, n2, n3

(* Nodes are told apart by nothing but their names: the first probe is of  *)
(* any one or of any two, and a node that had no part in it is as good as  *)
(* another.                                                                *)
UpToNames ==
  /\ probe = 0 /\ probe' = 1 => pair' \in {<<n1, n1>>, <<n1, n2>>}
  /\ probe = 1 /\ probe' = 2 /\ pair = <<n1, n1>>
       => pair' \in ({n1, n2} \X {n1, n2}) \cup {<<n2, n3>>}

(* A probe may suffer every failure there is, but if another follows, one  *)
(* failure is left out.  (So the fair actions of Spec, each of which has a *)
(* way to succeed, can be taken when they can in ProbePair.)               *)
Budget == probe' > 1 => faults' < MaxFaults
Spent == pc = "idle" /\ faults = MaxFaults /\ UNCHANGED vars

MCNext == (Next /\ UpToNames /\ Budget) \/ Spent

MCSpec ==
  /\ Init /\ [][MCNext]_vars
  /\ WF_vars(Pods) /\ WF_vars(Expire) /\ WF_vars(Task) /\ WF_vars(NoIp)
=============================================================================
