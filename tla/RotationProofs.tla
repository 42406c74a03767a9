--------------------------- MODULE RotationProofs ---------------------------
(***************************************************************************)
(* Nobody in a rack of any size waits longer than Rotation says.           *)
(*                                                                         *)
(* A node that misses a probe sees two nodes overtake it, both of which    *)
(* were not ahead of it before; nobody who is ahead falls behind before    *)
(* the node has had its turn, unless it is registered anew.  So twice the  *)
(* probes it has missed are at most the nodes ahead of it and those that   *)
(* were registered anew, and it is not one of them itself.                 *)
(***************************************************************************)
EXTENDS Rotation, FiniteSetTheorems, TLAPS

(* Nodes probed more recently than n.                                      *)
Ahead(n) == {o \in Nodes : at[n] < at[o]}

Stamps == members \subseteq Nodes /\ at \in [Nodes -> Never .. Newest - 1]
Counted == missed \in [Nodes -> Nat] /\ newcomers \in [Nodes -> Nat]
Overtaken == \A n \in Nodes : 2 * missed[n] <= Cardinality(Ahead(n)) + newcomers[n]

RotationInv == Stamps /\ Counted /\ Overtaken

-----------------------------------------------------------------------------
(* The size of a rack, of a part of it, and of what a part maps to.        *)
LEMMA SizesAreFinite ==
  /\ IsFiniteSet(Nodes) /\ Newest \in Nat
  /\ \A s \in SUBSET Nodes : IsFiniteSet(s) /\ Cardinality(s) \in Nat
BY RotationAssumption, FS_Subset, FS_CardinalityType DEF Newest

LEMMA ImageIsSmaller ==
  ASSUME NEW f, NEW s \in SUBSET Nodes
  PROVE  /\ IsFiniteSet({f[o] : o \in s})
         /\ Cardinality({f[o] : o \in s}) \in Nat
         /\ Cardinality({f[o] : o \in s}) <= Cardinality(s)
<1> DEFINE image == {f[o] : o \in s}
           g == [o \in s |-> f[o]]
<1>1. g \in Surjection(s, image)
  BY DEF Surjection
<1>2. IsFiniteSet(image) /\ Cardinality(image) <= Cardinality(s)
  BY <1>1, SizesAreFinite, FS_Surjection
<1> QED
  BY <1>2, FS_CardinalityType

(* What Ranked counts for n: the stamps older than its own.                *)
Below(f, n) == {o \in Nodes : Never < f[o] /\ f[o] < f[n]}

LEMMA RankIs ==
  ASSUME NEW f, NEW n \in Nodes
  PROVE  Ranked(f)[n] = IF f[n] = Never THEN Never
                        ELSE Cardinality({f[m] : m \in Below(f, n)})
BY DEF Ranked, Below

(* Ranks fit below the number of nodes.                                    *)
LEMMA RanksFit ==
  ASSUME NEW f \in [Nodes -> Int]
  PROVE  Ranked(f) \in [Nodes -> Never .. Newest - 1]
<1> SUFFICES ASSUME NEW n \in Nodes PROVE Ranked(f)[n] \in Never .. Newest - 1
  BY DEF Ranked
<1>1. Newest \in Nat
  BY SizesAreFinite
<1>2. Newest >= 1
  BY <1>1, RotationAssumption, FS_EmptySet DEF Newest
<1>3. CASE f[n] = Never
  <2>1. Ranked(f)[n] = Never
    BY <1>3, RankIs
  <2> QED
    BY <2>1, <1>1, <1>2 DEF Never
<1>4. CASE f[n] # Never
  <2> DEFINE count == Cardinality({f[m] : m \in Below(f, n)})
  <2>1. Below(f, n) \subseteq Nodes \ {n}
    BY DEF Below
  <2>2. Cardinality(Nodes \ {n}) = Newest - 1 /\ IsFiniteSet(Nodes \ {n})
    BY RotationAssumption, FS_RemoveElement DEF Newest
  <2>3. Cardinality(Below(f, n)) <= Newest - 1 /\ Cardinality(Below(f, n)) \in Nat
    BY <2>1, <2>2, FS_Subset, FS_CardinalityType
  <2>4. count \in Nat /\ count <= Cardinality(Below(f, n))
    BY <2>1, ImageIsSmaller
  <2>5. Ranked(f)[n] = count
    BY <1>4, RankIs
  <2> HIDE DEF count
  <2> QED
    BY <2>3, <2>4, <2>5, <1>1 DEF Never
<1> QED
  BY <1>3, <1>4

(* Ranking keeps a strict order of two nodes.                              *)
LEMMA RanksKeepOrder ==
  ASSUME NEW f \in [Nodes -> Int], NEW a \in Nodes, NEW b \in Nodes,
         f[a] >= Never, f[a] < f[b]
  PROVE  Ranked(f)[a] < Ranked(f)[b]
<1> DEFINE low == {f[m] : m \in Below(f, a)}
           high == {f[m] : m \in Below(f, b)}
<1>1. f[a] \in Int /\ f[b] \in Int /\ f[b] # Never
  BY DEF Never
<1>2. Below(f, b) \subseteq Nodes /\ Below(f, a) \subseteq Nodes
  BY DEF Below
<1>3. /\ IsFiniteSet(high) /\ Cardinality(high) \in Nat
      /\ IsFiniteSet(low) /\ Cardinality(low) \in Nat
  BY <1>2, ImageIsSmaller
<1>4. Ranked(f)[b] = Cardinality(high)
  BY <1>1, RankIs
<1>5. CASE f[a] = Never
  BY <1>3, <1>4, <1>5, RankIs DEF Never
<1>6. CASE f[a] # Never
  <2>1. Ranked(f)[a] = Cardinality(low)
    BY <1>6, RankIs
  <2>2. \A m \in Below(f, a) : m \in Below(f, b)
    BY DEF Below
  <2>3. low \subseteq high
    BY <2>2
  <2>4. a \in Below(f, b)
    BY <1>1, <1>6 DEF Below, Never
  <2>5. f[a] \in high
    BY <2>4
  <2>6. f[a] \notin low
    BY <1>1 DEF Below
  <2>7. Cardinality(low) <= Cardinality(high) /\ Cardinality(high) # Cardinality(low)
    BY <1>3, <2>3, <2>5, <2>6, FS_Subset
  <2> HIDE DEF low, high
  <2> QED
    BY <1>3, <1>4, <2>1, <2>7
<1> QED
  BY <1>5, <1>6

-----------------------------------------------------------------------------
(* pick_pair passes nobody over who is staler than the pair.               *)
LEMMA PairIsStalest ==
  ASSUME Stamps, NEW sc \in PickPair(members, at, Newest)
  PROVE  /\ sc[1] \in members /\ sc[2] \in members /\ sc[1] # sc[2]
         /\ \A n \in members \ {sc[1], sc[2]} : at[sc[1]] <= at[n] /\ at[sc[2]] <= at[n]
<1>1. /\ sc[1] \in Oldest(members, at)
      /\ sc[2] \in Oldest(members \ {sc[1]}, at)
  BY DEF PickPair
<1>2. sc[1] \in members /\ sc[2] \in members /\ sc[1] # sc[2]
  BY <1>1 DEF Oldest
<1>3. ASSUME NEW n \in members \ {sc[1], sc[2]}
      PROVE  Older(at, sc[1], n) /\ Older(at, sc[2], n)
  BY <1>1, <1>3 DEF Oldest
<1>4. \A n \in members : at[n] \in Int
  BY DEF Stamps, Never
<1> QED
  BY <1>2, <1>3, <1>4 DEF Older

LEMMA RotationInit == Init => RotationInv
<1> SUFFICES ASSUME Init PROVE RotationInv
  OBVIOUS
<1>1. Stamps
  BY SizesAreFinite DEF Init, Stamps, Never
<1>2. Counted
  BY DEF Init, Counted
<1>3. ASSUME NEW n \in Nodes PROVE 2 * missed[n] <= Cardinality(Ahead(n)) + newcomers[n]
  <2>1. Cardinality(Ahead(n)) \in Nat
    BY SizesAreFinite DEF Ahead
  <2>2. missed[n] = 0 /\ newcomers[n] = 0
    BY DEF Init
  <2> QED
    BY <2>1, <2>2
<1> QED
  BY <1>1, <1>2, <1>3 DEF RotationInv, Overtaken

(* A probe: who misses it is overtaken by two; nobody ahead falls behind.  *)
LEMMA ProbeKeepsRotation == RotationInv /\ Probe => RotationInv'
<1> SUFFICES ASSUME RotationInv, Probe PROVE RotationInv'
  OBVIOUS
<1> USE DEF RotationInv
<1>0. PICK sc \in PickPair(members, at, Newest) :
        LET both == {sc[1], sc[2]}
        IN  /\ at' = Ranked([n \in Nodes |-> IF n \in both THEN Newest ELSE at[n]])
            /\ missed' = [n \in Nodes |-> CASE n \in both -> 0
                                            [] n \in members \ both -> MissedAgain(n)
                                            [] OTHER -> missed[n]]
            /\ newcomers' = [n \in Nodes |-> IF n \in both THEN 0 ELSE newcomers[n]]
            /\ members' = members
  BY DEF Probe
<1> DEFINE both == {sc[1], sc[2]}
           f == [n \in Nodes |-> IF n \in both THEN Newest ELSE at[n]]
<1>1. at' = Ranked(f) /\ members' = members
  BY <1>0
<1>2. Newest \in Nat
  BY SizesAreFinite
<1>3. \A n \in Nodes : at[n] \in Int /\ Never <= at[n] /\ at[n] < Newest
  BY <1>2 DEF Stamps, Never
<1>4. f \in [Nodes -> Int]
  BY <1>2, <1>3
<1>5. Stamps'
  <2>1. Newest' = Newest
    BY DEF Newest
  <2> QED
    BY <1>1, <1>4, <2>1, RanksFit DEF Stamps
<1>6. ASSUME NEW n \in Nodes, n \notin both, NEW o \in Nodes,
             at[n] < at[o] \/ o \in both
      PROVE  at'[n] < at'[o]
  <2>1. f[n] = at[n] /\ f[n] < f[o] /\ f[n] >= Never
    BY <1>3, <1>6
  <2> HIDE DEF f
  <2> QED
    BY <2>1, <1>1, <1>4, RanksKeepOrder
<1>7. /\ sc[1] \in members /\ sc[2] \in members /\ sc[1] # sc[2]
      /\ \A n \in members \ both : at[sc[1]] <= at[n] /\ at[sc[2]] <= at[n]
  BY PairIsStalest
<1>8. ASSUME NEW n \in Nodes, n \notin both
      PROVE  Ahead(n) \subseteq Ahead(n)' /\ both \subseteq Ahead(n)'
  <2>1. \A o \in Nodes : at[n] < at[o] \/ o \in both => at'[n] < at'[o]
    BY <1>6, <1>8
  <2>2. both \subseteq Nodes
    BY <1>7 DEF Stamps
  <2> HIDE DEF both
  <2> QED
    BY <2>1, <2>2 DEF Ahead
<1>9. \A n \in Nodes :
        /\ Ahead(n) \subseteq Nodes /\ IsFiniteSet(Ahead(n)) /\ Cardinality(Ahead(n)) \in Nat
        /\ Ahead(n)' \subseteq Nodes /\ IsFiniteSet(Ahead(n)') /\ Cardinality(Ahead(n)') \in Nat
  <2>1. \A n \in Nodes : Ahead(n) \subseteq Nodes /\ Ahead(n)' \subseteq Nodes
    BY DEF Ahead
  <2> QED
    BY <2>1, SizesAreFinite
<1>10. \A n \in Nodes :
         missed'[n] = CASE n \in both -> 0
                        [] n \in members \ both -> MissedAgain(n)
                        [] OTHER -> missed[n]
  BY <1>0
<1>11. \A n \in Nodes : missed[n] \in Nat /\ newcomers[n] \in Nat
  BY DEF Counted
<1>12. \A n \in Nodes : MissedAgain(n) \in Nat /\ MissedAgain(n) <= missed[n] + 1
  BY <1>11 DEF MissedAgain
<1>15. \A n \in Nodes : newcomers'[n] = IF n \in both THEN 0 ELSE newcomers[n]
  BY <1>0
<1>13. Counted'
  <2>1. missed' = [n \in Nodes |-> missed'[n]]
    BY <1>0
  <2>2. \A n \in Nodes : missed'[n] \in Nat
    BY <1>10, <1>11, <1>12
  <2>3. newcomers' \in [Nodes -> Nat]
    BY <1>0, <1>11
  <2> QED
    BY <2>1, <2>2, <2>3 DEF Counted
<1>14. ASSUME NEW n \in Nodes PROVE 2 * missed'[n] <= Cardinality(Ahead(n)') + newcomers'[n]
  <2>1. CASE n \in both
    BY <2>1, <1>9, <1>10, <1>15
  <2>2. CASE n \notin both /\ n \notin members
    <3>1. missed'[n] = missed[n] /\ newcomers'[n] = newcomers[n]
      BY <2>2, <1>10, <1>15
    <3>2. Cardinality(Ahead(n)) <= Cardinality(Ahead(n)')
      BY <2>2, <1>8, <1>9, FS_Subset
    <3> QED
      BY <3>1, <3>2, <1>9, <1>11 DEF Overtaken
  <2>3. CASE n \in members \ both
    <3>1. missed'[n] <= missed[n] + 1 /\ missed'[n] \in Nat /\ newcomers'[n] = newcomers[n]
      BY <2>3, <1>10, <1>12, <1>15
    <3>2. sc[1] \notin Ahead(n) /\ sc[2] \notin Ahead(n)
      <4>1. sc[1] \in Nodes /\ sc[2] \in Nodes
        BY <1>7 DEF Stamps
      <4> QED
        BY <4>1, <1>3, <1>7, <2>3 DEF Ahead
    <3> DEFINE one == Ahead(n) \cup {sc[1]}
               two == one \cup {sc[2]}
    <3>3. IsFiniteSet(one) /\ Cardinality(one) = Cardinality(Ahead(n)) + 1
      BY <1>9, <3>2, FS_AddElement
    <3>4. IsFiniteSet(two) /\ Cardinality(two) = Cardinality(one) + 1
      BY <1>7, <3>2, <3>3, FS_AddElement
    <3>5. two \subseteq Ahead(n)'
      BY <2>3, <1>8
    <3>6. Cardinality(two) <= Cardinality(Ahead(n)')
      BY <1>9, <3>5, FS_Subset
    <3>7. 2 * missed[n] <= Cardinality(Ahead(n)) + newcomers[n]
      BY DEF Overtaken
    <3> HIDE DEF one, two
    <3> QED
      BY <3>1, <3>3, <3>4, <3>6, <3>7, <1>9, <1>11
  <2> QED
    BY <2>1, <2>2, <2>3
<1> QED
  BY <1>5, <1>13, <1>14 DEF Overtaken

(* Nodes that leave or return keep their annotations.                      *)
LEMMA MembersKeepRotation ==
  RotationInv /\ (UNCHANGED rvars \/ \E n \in Nodes : Leave(n) \/ Return(n)) => RotationInv'
<1> SUFFICES ASSUME RotationInv, UNCHANGED rvars \/ \E n \in Nodes : Leave(n) \/ Return(n)
             PROVE  RotationInv'
  OBVIOUS
<1>1. at' = at /\ missed' = missed /\ newcomers' = newcomers /\ members' \subseteq Nodes
  BY DEF RotationInv, Stamps, Leave, Return, rvars
<1>2. Newest' = Newest /\ \A n \in Nodes : Ahead(n)' = Ahead(n)
  BY <1>1 DEF Newest, Ahead
<1> QED
  BY <1>1, <1>2 DEF RotationInv, Stamps, Counted, Overtaken

(* A node registered anew is behind all that have been probed; it has not  *)
(* waited, and whoever has does so behind one node less at most.           *)
LEMMA RegisterKeepsRotation ==
  ASSUME RotationInv, NEW r \in Nodes, Register(r)
  PROVE  RotationInv'
<1> USE DEF RotationInv
<1> DEFINE f == [at EXCEPT ![r] = Never]
<1>1. /\ at' = Ranked(f) /\ members' = members
      /\ missed' = [missed EXCEPT ![r] = 0]
      /\ newcomers' = [m \in Nodes |-> IF m = r \/ missed[m] = 0 THEN newcomers[m] ELSE newcomers[m] + 1]
  BY DEF Register
<1>2. Newest \in Nat /\ Newest' = Newest
  BY SizesAreFinite DEF Newest
<1>3. \A n \in Nodes : at[n] \in Int /\ Never <= at[n]
  BY <1>2 DEF Stamps, Never
<1>4. f \in [Nodes -> Int]
  BY <1>2 DEF Stamps, Never
<1>5. Stamps'
  <2> HIDE DEF f
  <2> QED
    BY <1>1, <1>2, <1>4, RanksFit DEF Stamps
<1>6. Counted'
  BY <1>1 DEF Counted
<1>7. ASSUME NEW n \in Nodes PROVE 2 * missed'[n] <= Cardinality(Ahead(n)') + newcomers'[n]
  <2>1. missed[n] \in Nat /\ newcomers[n] \in Nat /\ newcomers'[n] \in Nat
    BY <1>6 DEF Counted
  <2>2. /\ Ahead(n) \subseteq Nodes /\ IsFiniteSet(Ahead(n)) /\ Cardinality(Ahead(n)) \in Nat
        /\ Ahead(n)' \subseteq Nodes /\ IsFiniteSet(Ahead(n)') /\ Cardinality(Ahead(n)') \in Nat
    <3>1. Ahead(n) \subseteq Nodes /\ Ahead(n)' \subseteq Nodes
      BY DEF Ahead
    <3> QED
      BY <3>1, SizesAreFinite
  <2>3. CASE n = r \/ missed[n] = 0
    <3>1. missed'[n] = 0
      BY <1>1, <2>3 DEF Counted
    <3> QED
      BY <2>1, <2>2, <3>1
  <2>4. CASE n # r /\ missed[n] # 0
    <3>1. missed'[n] = missed[n] /\ newcomers'[n] = newcomers[n] + 1
      BY <1>1, <2>4 DEF Counted
    <3>2. ASSUME NEW o \in Nodes \ {r}, at[n] < at[o] PROVE at'[n] < at'[o]
      <4>1. f[n] = at[n] /\ f[o] = at[o] /\ f[n] >= Never
        BY <1>3, <2>4 DEF Stamps
      <4> HIDE DEF f
      <4> QED
        BY <1>1, <1>4, <3>2, <4>1, RanksKeepOrder
    <3>3. Ahead(n) \ {r} \subseteq Ahead(n)'
      BY <3>2 DEF Ahead
    <3>4. Cardinality(Ahead(n) \ {r}) <= Cardinality(Ahead(n)')
      BY <2>2, <3>3, FS_Subset
    <3>5. Cardinality(Ahead(n)) <= Cardinality(Ahead(n) \ {r}) + 1
      BY <2>2, FS_RemoveElement
    <3>6. Cardinality(Ahead(n) \ {r}) \in Nat
      BY <2>2, FS_RemoveElement, FS_CardinalityType
    <3> QED
      BY <2>1, <2>2, <3>1, <3>4, <3>5, <3>6 DEF Overtaken
  <2> QED
    BY <2>3, <2>4
<1> QED
  BY <1>5, <1>6, <1>7 DEF Overtaken

-----------------------------------------------------------------------------
(* A member of a rack of any size misses fewer probes in a row than half   *)
(* of the rack has nodes, however nodes come and go, and half a probe more *)
(* for each node registered anew while it waits: what the comment of       *)
(* pair.rs claims of nodes, with the bound.                                *)
THEOREM WaitIsBounded == Spec => []BoundedWait
<1>1. RotationInv /\ [Next]_rvars => RotationInv'
  BY ProbeKeepsRotation, MembersKeepRotation, RegisterKeepsRotation DEF Next
<1>2. RotationInv => BoundedWait
  <2> SUFFICES ASSUME RotationInv, NEW n \in Nodes
               PROVE  2 * missed[n] <= Cardinality(Nodes) - 1 + newcomers[n]
    BY DEF BoundedWait
  <2>1. Ahead(n) \subseteq Nodes \ {n}
    BY DEF Ahead, RotationInv, Stamps, Never
  <2>2. IsFiniteSet(Nodes \ {n}) /\ Cardinality(Nodes \ {n}) = Cardinality(Nodes) - 1
    BY RotationAssumption, FS_RemoveElement
  <2>3. Cardinality(Ahead(n)) <= Cardinality(Nodes) - 1 /\ Cardinality(Ahead(n)) \in Nat
    BY <2>1, <2>2, FS_Subset, FS_CardinalityType
  <2>4. Cardinality(Nodes) \in Nat /\ missed[n] \in Nat /\ newcomers[n] \in Nat
    BY SizesAreFinite DEF Newest, RotationInv, Counted
  <2> QED
    BY <2>3, <2>4 DEF RotationInv, Overtaken
<1> QED
  BY <1>1, <1>2, RotationInit, PTL DEF Spec
=============================================================================
