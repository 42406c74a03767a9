----------------------------- MODULE DeleteRetry -----------------------------
(***************************************************************************)
(* The prober with one history variable more: the pods whose delete failed *)
(* when their task ended.  It asks what becomes of them at the start of    *)
(* the next cycle.                                                         *)
(***************************************************************************)
EXTENDS Prober

VARIABLE undeleted  \* pods whose delete a task of an earlier step tried and failed

dvars == <<vars, undeleted>>

DeleteFailed == IF cycle' = "down" THEN {} ELSE leaked' \cap Held

DInit == Init /\ undeleted = {}
DNext == Next /\ undeleted' = (undeleted \cup DeleteFailed) \cap leaked'
DSpec == DInit /\ [][DNext]_dvars

(* "probe pod delete failed (will retry next cycle)": a cycle that starts  *)
(* with no failing call leaves none of those pods.                         *)
RetriedNextCycle ==
  [][cycle = "idle" /\ cycle' = "list" /\ faults' = faults => undeleted' = {}]_dvars
=============================================================================
