------------------------------ MODULE PairPick ------------------------------
(***************************************************************************)
(* Which nodes of a rack the prober measures next: src/prober/pair.rs.     *)
(*                                                                         *)
(* A node is a natural number, so that node names have the total order     *)
(* the tie-break needs.  at[n] is the second at which the annotation       *)
(* last-rack-at (or last-loopback-at) of n was written; Never stands for   *)
(* an absent annotation and, as None does in the code, sorts before every  *)
(* stamp.  RFC 3339 strings of one fixed width compare as the seconds they *)
(* denote (module RfcTime).                                                *)
(*                                                                         *)
(* Both pickers return an Option: here a set with at most one element, the *)
(* pair <<server, client>>.  A loopback probe is the pair <<n, n>>.        *)
(***************************************************************************)
EXTENDS Integers

Never == -1

(* The sort key of pick_pair: stamp first, then name.                      *)
Older(at, a, b) ==
  \/ at[a] < at[b]
  \/ at[a] = at[b] /\ a < b

(* The head of M sorted by that key (no element when M is empty).          *)
Oldest(M, at) == {n \in M : \A m \in M \ {n} : Older(at, n, m)}

(* Not stamped at or after the cutoff.                                     *)
Due(at, n, cutoff) == at[n] = Never \/ at[n] < cutoff

(* The two least recently probed members, unless both were probed within   *)
(* the cadence.                                                            *)
\* Mutants: no cadence guard; the two first members by name.
PickPairAnyAge(M, at, cutoff) ==
  {sc \in M \X M : sc[1] \in Oldest(M, at) /\ sc[2] \in Oldest(M \ {sc[1]}, at)}
PickPairByName(M, at, cutoff) ==
  {sc \in M \X M :
     /\ sc[1] < sc[2] /\ \A m \in M \ {sc[1]} : sc[2] <= m
     /\ Due(at, sc[1], cutoff) \/ Due(at, sc[2], cutoff)}
PickPair(M, at, cutoff) ==
  {sc \in M \X M :
     /\ sc[1] \in Oldest(M, at)
     /\ sc[2] \in Oldest(M \ {sc[1]}, at)
     /\ Due(at, sc[1], cutoff) \/ Due(at, sc[2], cutoff)}

(* The lone member of a singleton rack, unless its last self-test is       *)
(* within the cadence.                                                     *)
PickLoopback(M, at, cutoff) ==
  {sc \in M \X M : M = {sc[1]} /\ Due(at, sc[1], cutoff)}
=============================================================================
