------------------------------ MODULE Rotation ------------------------------
(***************************************************************************)
(* The order in which the pairs of one rack get their turn: pick_pair,     *)
(* cycle after cycle, with the stamps it leaves (src/prober/pair.rs).      *)
(*                                                                         *)
(* Every probe here ends and stamps both nodes, and every cycle comes      *)
(* later than the cadence, so that what is left is the choice itself.      *)
(* pick_pair only compares stamps: they are kept as ranks, Never for none  *)
(* and 0, 1, ... from the oldest on.                                       *)
(***************************************************************************)
EXTENDS PairPick, FiniteSets

CONSTANTS
  Nodes,            \* the nodes of the rack
  Steady,           \* those among them that never leave it
  MaxRegistrations  \* bound: nodes deleted and registered anew

ASSUME RotationAssumption ==
  /\ Nodes \subseteq Nat /\ IsFiniteSet(Nodes)
  /\ Steady \subseteq Nodes
  /\ MaxRegistrations \in Nat

VARIABLES
  members,     \* the nodes that are listed, ready and labelled
  at,          \* rank of each node's last-rack-at
  registered,  \* nodes registered anew so far
  last,        \* history: the pair probed last
  missed,      \* history: probes of the rack since n's last turn, n a member
  newcomers    \* history: nodes registered anew since n first missed one

rvars == <<members, at, registered, last, missed, newcomers>>

(* Later than every rank.                                                  *)
Newest == Cardinality(Nodes)

(* The same order of stamps, by dense ranks.                               *)
Ranked(f) ==
  [n \in Nodes |->
     IF f[n] = Never
     THEN Never
     ELSE Cardinality({f[m] : m \in {o \in Nodes : Never < f[o] /\ f[o] < f[n]}})]

Init ==
  /\ members = Nodes
  /\ at = [n \in Nodes |-> Never]
  /\ registered = 0
  /\ last = {}
  /\ missed = [n \in Nodes |-> 0]
  /\ newcomers = [n \in Nodes |-> 0]

(* Turns missed are counted up to more than anybody should miss.           *)
MissedAgain(n) ==
  IF missed[n] < Cardinality(Nodes) + MaxRegistrations THEN missed[n] + 1 ELSE missed[n]

Probe ==
  \E sc \in PickPair(members, at, Newest) :
    LET both == {sc[1], sc[2]}
    IN  /\ at' = Ranked([n \in Nodes |-> IF n \in both THEN Newest ELSE at[n]])
        /\ last' = both
        /\ missed' = [n \in Nodes |-> CASE n \in both -> 0
                                        [] n \in members \ both -> MissedAgain(n)
                                        [] OTHER -> missed[n]]
        /\ newcomers' = [n \in Nodes |-> IF n \in both THEN 0 ELSE newcomers[n]]
        /\ UNCHANGED <<members, registered>>

(* A node turns unready or loses a label, keeping its annotations.  A rack *)
(* of one has no pairs to pick (it runs loopbacks).                        *)
Leave(n) ==
  /\ n \in members \ Steady /\ Cardinality(members) > 2
  /\ members' = members \ {n}
  /\ UNCHANGED <<at, registered, last, missed, newcomers>>

Return(n) ==
  /\ n \in Nodes \ members
  /\ members' = members \cup {n}
  /\ UNCHANGED <<at, registered, last, missed, newcomers>>

(* The Node is deleted and registered anew, without annotations: it was    *)
(* never probed, as far as pick_pair can tell.                             *)
Register(n) ==
  /\ n \in Nodes \ members /\ registered < MaxRegistrations
  /\ registered' = registered + 1
  /\ at' = Ranked([at EXCEPT ![n] = Never])
  /\ missed' = [missed EXCEPT ![n] = 0]
  /\ newcomers' = [m \in Nodes |-> IF m = n \/ missed[m] = 0 THEN newcomers[m] ELSE newcomers[m] + 1]
  /\ UNCHANGED <<members, last>>

Next == Probe \/ \E n \in Nodes : Leave(n) \/ Return(n) \/ Register(n)

(* The reconcile timer keeps firing.                                       *)
Spec == Init /\ [][Next]_rvars /\ WF_rvars(Probe)

-----------------------------------------------------------------------------
(* A member waits for fewer probes of its rack than half of the rack has   *)
(* nodes, however nodes come and go: every probe it misses was given to    *)
(* two nodes staler than it.  A node that is registered anew while it      *)
(* waits may overtake it once more, and adds at most half a probe.         *)
BoundedWait == \A n \in Nodes : 2 * missed[n] <= Cardinality(Nodes) - 1 + newcomers[n]

(* A node that stays is probed again and again, if registrations end.      *)
NodeCoverage ==
  \A n \in Nodes : <>[](n \in members) => []<>(n \in last)

(* "Per-node coverage still guarantees full pair-coverage in O(N^2)        *)
(* cycles": among nodes that never leave, every pair is probed again and   *)
(* again.                                                                  *)
PairCoverage ==
  \A a, b \in Steady : a # b => []<>(last = {a, b})
=============================================================================
