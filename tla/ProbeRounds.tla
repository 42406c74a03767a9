----------------------------- MODULE ProbeRounds -----------------------------
(***************************************************************************)
(* What the prober's reconcile loop promises the cluster: probing goes by  *)
(* rounds.  In a round, probes claim nodes; no node is claimed twice, at   *)
(* most Limit claims are out at a time, and the round closes when every    *)
(* claim has been given back.  A prober that dies drops its claims.        *)
(***************************************************************************)
EXTENDS Naturals, FiniteSets

CONSTANTS Nodes, Limit

VARIABLES
  open,   \* a round is under way
  claims  \* the sets of nodes claimed, one per running probe

rvars == <<open, claims>>

Init == open = FALSE /\ claims = {}

Open == ~open /\ open' = TRUE /\ UNCHANGED claims

Claim(S) ==
  /\ open /\ Cardinality(claims) < Limit
  /\ S # {} /\ S \cap UNION claims = {}
  /\ claims' = claims \cup {S} /\ UNCHANGED open

Release(S) == S \in claims /\ claims' = claims \ {S} /\ UNCHANGED open

Close == open /\ claims = {} /\ open' = FALSE /\ UNCHANGED claims

Die == open' = FALSE /\ claims' = {}

Next ==
  \/ Open \/ Close \/ Die
  \/ \E S \in SUBSET Nodes : Claim(S) \/ Release(S)

Spec == Init /\ [][Next]_rvars
=============================================================================
