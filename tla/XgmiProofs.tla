----------------------------- MODULE XgmiProofs -----------------------------
(***************************************************************************)
(* The groups of XgmiGroups are connected components for every set of      *)
(* cards and every report of peers, in whatever order the searches run.    *)
(*                                                                         *)
(* The invariant is that of a flood fill.  Links go both ways, so a card   *)
(* of a finished group is never met again; all that the running search     *)
(* has reached, or queued, lies in every closed set around its start; and  *)
(* whatever a reached card is linked to was visited or is queued.          *)
(***************************************************************************)
EXTENDS XgmiGroups, TLAPS

(* Links join AMD cards of this machine and go both ways.                  *)
Links ==
  /\ DOMAIN adjacency \subseteq Cards
  /\ \A a \in DOMAIN adjacency :
       /\ adjacency[a] \subseteq DOMAIN adjacency
       /\ \A b \in adjacency[a] : a \in adjacency[b]

(* A queued card is an AMD card that has neighbours.                       *)
Queued ==
  /\ queue \in [Cards -> Nat]
  /\ \A c \in Cards : queue[c] > 0 => c \in DOMAIN adjacency /\ adjacency[c] # {}

(* The cards visited are those of the groups found and of the running      *)
(* search, which have none in common.                                      *)
Parts ==
  /\ visited = group \cup UNION groups
  /\ group \cap UNION groups = {}
  /\ visited \subseteq DOMAIN adjacency
  /\ \A c \in visited : adjacency[c] # {}
  /\ start = Nobody => group = {} /\ queue = Idle
  /\ start # Nobody => start \in Cards \ UNION groups /\ (start \in group \/ queue[start] > 0)

(* A search stays within every closed set around its start.                *)
Within ==
  start # Nobody =>
    \A s \in SUBSET Cards :
      start \in s /\ (\A a \in s \cap DOMAIN adjacency : adjacency[a] \subseteq s)
        => group \subseteq s /\ \A c \in Cards : queue[c] > 0 => c \in s

(* A search forgets no neighbour of a card it has reached.                 *)
Frontier == \A a \in group : \A b \in adjacency[a] : b \in visited \/ queue[b] > 0

(* A finished group is a connected component.                              *)
Finished ==
  \A g \in groups :
    /\ g # {} /\ g \subseteq DOMAIN adjacency /\ Closed(g)
    /\ \A part \in SUBSET g : part # {} /\ Closed(part) => part = g

XgmiInv == Links /\ Queued /\ Parts /\ Within /\ Frontier /\ Finished

-----------------------------------------------------------------------------
(* However one-sided the reports are, the links are not.                   *)
LEMMA AdjacencyIsSymmetric ==
  ASSUME NEW found \in SUBSET Cards, NEW peers, NEW a \in found
  PROVE  /\ DOMAIN Adjacency(found, peers) = found
         /\ Adjacency(found, peers)[a] \subseteq found
         /\ \A b \in Adjacency(found, peers)[a] : a \in Adjacency(found, peers)[b]
BY DEF Adjacency

LEMMA XgmiInvInit == XgmiInit => XgmiInv
<1> SUFFICES ASSUME NEW found \in SUBSET Cards, NEW peers, Ungrouped(found, peers)
             PROVE  XgmiInv
  BY DEF XgmiInit
<1>1. DOMAIN adjacency = found
  BY DEF Ungrouped, Adjacency
<1>2. Links
  BY <1>1, AdjacencyIsSymmetric DEF Links, Ungrouped
<1>3. Queued
  BY DEF Queued, Ungrouped, Idle
<1> QED
  BY <1>1, <1>2, <1>3 DEF XgmiInv, Parts, Within, Frontier, Finished, Ungrouped

-----------------------------------------------------------------------------
(* When its queue is empty, a search has found a connected component: a    *)
(* link out of it would lead into a finished group and back, and of two    *)
(* closed parts only the one around the start can be inhabited.            *)
LEMMA SearchFindsComponent ==
  ASSUME XgmiInv, start # Nobody, queue = Idle
  PROVE  /\ group # {} /\ group \subseteq DOMAIN adjacency /\ Closed(group)
         /\ \A part \in SUBSET group : part # {} /\ Closed(part) => part = group
<1>1. \A c \in Cards : queue[c] = 0
  BY DEF Idle
<1>2. start \in group /\ group \subseteq DOMAIN adjacency
  BY <1>1 DEF XgmiInv, Parts
<1>3. ASSUME NEW a \in group, NEW b \in adjacency[a]
      PROVE  b \in group
  <2>1. a \in DOMAIN adjacency /\ b \in DOMAIN adjacency /\ a \in adjacency[b] /\ b \in Cards
    BY <1>2, <1>3 DEF XgmiInv, Links
  <2>2. b \in visited
    BY <1>1, <1>3, <2>1 DEF XgmiInv, Frontier
  <2>3. ASSUME NEW g \in groups, b \in g
        PROVE  FALSE
    <3>1. a \in g
      BY <2>1, <2>3 DEF XgmiInv, Finished, Closed
    <3> QED
      BY <1>3, <3>1 DEF XgmiInv, Parts
  <2> QED
    BY <2>2, <2>3 DEF XgmiInv, Parts
<1>4. Closed(group)
  BY <1>3 DEF Closed
<1>5. ASSUME NEW part \in SUBSET group, part # {}, Closed(part)
      PROVE  part = group
  <2>1. CASE start \in part
    <3>1. part \in SUBSET Cards /\ \A a \in part \cap DOMAIN adjacency : adjacency[a] \subseteq part
      BY <1>2, <1>5 DEF Closed, XgmiInv, Links
    <3> QED
      BY <2>1, <3>1 DEF XgmiInv, Within
  <2>2. CASE start \notin part
    <3> DEFINE rest == group \ part
    <3>1. rest \in SUBSET Cards /\ start \in rest
      BY <1>2, <2>2 DEF XgmiInv, Links
    <3>2. ASSUME NEW a \in rest, NEW b \in adjacency[a]
          PROVE  b \in rest
      <4>1. b \in group /\ a \in adjacency[b]
        BY <1>2, <1>3, <3>2 DEF XgmiInv, Links
      <4>2. b \notin part
        BY <1>5, <3>2, <4>1 DEF Closed
      <4> QED
        BY <4>1, <4>2
    <3>3. \A a \in rest \cap DOMAIN adjacency : adjacency[a] \subseteq rest
      BY <3>2
    <3>4. group \subseteq rest
      BY <3>1, <3>3 DEF XgmiInv, Within
    <3> QED
      BY <1>5, <3>4
  <2> QED
    BY <2>1, <2>2
<1> QED
  BY <1>2, <1>4, <1>5

LEMMA BeginKeeps == XgmiInv /\ Begin => XgmiInv'
<1> SUFFICES ASSUME XgmiInv, Begin PROVE XgmiInv'
  OBVIOUS
<1>1. PICK c \in DOMAIN adjacency \ visited :
        adjacency[c] # {} /\ start' = c /\ queue' = [Idle EXCEPT ![c] = 1]
  BY DEF Begin
<1>2. UNCHANGED <<adjacency, visited, group, groups>> /\ start = Nobody /\ group = {}
  BY DEF Begin, XgmiInv, Parts
<1>3. c \in Cards /\ start' # Nobody
  BY <1>1, NobodyAssumption DEF XgmiInv, Links
<1>4. queue' \in [Cards -> Nat] /\ queue'[c] = 1 /\ \A d \in Cards : queue'[d] > 0 => d = c
  BY <1>1, <1>3 DEF Idle
<1>5. Links' /\ Finished'
  BY <1>2 DEF XgmiInv, Links, Finished, Closed
<1>6. Queued'
  BY <1>1, <1>2, <1>4 DEF Queued
<1>7. Parts'
  BY <1>1, <1>2, <1>3, <1>4 DEF XgmiInv, Parts
<1>8. Within'
  BY <1>1, <1>2, <1>4 DEF Within
<1>9. Frontier'
  BY <1>2 DEF Frontier
<1> QED
  BY <1>5, <1>6, <1>7, <1>8, <1>9 DEF XgmiInv

LEMMA VisitKeeps == XgmiInv /\ Visit => XgmiInv'
<1> SUFFICES ASSUME XgmiInv, Visit PROVE XgmiInv'
  OBVIOUS
<1>1. PICK c \in Cards \ visited :
        /\ queue[c] > 0
        /\ visited' = visited \cup {c} /\ group' = group \cup {c}
        /\ queue' = [d \in Cards |->
                       IF d = c THEN queue[d] - 1
                       ELSE IF d \in adjacency[c] \ visited' THEN queue[d] + 1 ELSE queue[d]]
  BY DEF Visit
<1>2. UNCHANGED <<adjacency, start, groups>>
  BY DEF Visit
<1>3. c \in DOMAIN adjacency /\ adjacency[c] # {}
  BY <1>1 DEF XgmiInv, Queued
<1>4. start # Nobody
  BY <1>1 DEF XgmiInv, Parts, Idle
<1>5. queue' \in [Cards -> Nat]
  BY <1>1 DEF XgmiInv, Queued
<1>6. ASSUME NEW d \in Cards, queue'[d] > 0
      PROVE  queue[d] > 0 \/ d \in adjacency[c]
  BY <1>1, <1>6 DEF XgmiInv, Queued
<1>7. ASSUME NEW d \in Cards, queue[d] > 0, d # c
      PROVE  queue'[d] > 0
  BY <1>1, <1>7 DEF XgmiInv, Queued
<1>8. Links' /\ Finished'
  BY <1>2 DEF XgmiInv, Links, Finished, Closed
<1>9. Queued'
  BY <1>2, <1>3, <1>5, <1>6 DEF XgmiInv, Queued, Links
<1>10. Parts'
  <2>1. start' \in Cards \ UNION groups' /\ (start' \in group' \/ queue'[start'] > 0)
    BY <1>1, <1>2, <1>4, <1>7 DEF XgmiInv, Parts
  <2>2. visited' = group' \cup UNION groups' /\ group' \cap UNION groups' = {}
    BY <1>1, <1>2 DEF XgmiInv, Parts
  <2>3. visited' \subseteq DOMAIN adjacency' /\ \A d \in visited' : adjacency'[d] # {}
    BY <1>1, <1>2, <1>3 DEF XgmiInv, Parts
  <2> QED
    BY <1>2, <1>4, <2>1, <2>2, <2>3 DEF Parts
<1>11. Within'
  <2> SUFFICES ASSUME NEW s \in SUBSET Cards, start \in s,
                      \A a \in s \cap DOMAIN adjacency : adjacency[a] \subseteq s
               PROVE  group' \subseteq s /\ \A d \in Cards : queue'[d] > 0 => d \in s
    BY <1>2 DEF Within
  <2>1. group \subseteq s /\ \A d \in Cards : queue[d] > 0 => d \in s
    BY <1>4 DEF XgmiInv, Within
  <2>2. c \in s /\ adjacency[c] \subseteq s
    BY <1>1, <1>3, <2>1
  <2> QED
    BY <1>1, <1>6, <2>1, <2>2
<1>12. Frontier'
  <2> SUFFICES ASSUME NEW a \in group', NEW b \in adjacency[a], b \notin visited'
               PROVE  queue'[b] > 0
    BY <1>2 DEF Frontier
  <2>1. b \in Cards /\ b # c
    BY <1>1, <1>3 DEF XgmiInv, Links, Parts
  <2>2. CASE a = c
    BY <1>1, <2>1, <2>2 DEF XgmiInv, Queued
  <2>3. CASE a \in group
    <3>1. queue[b] > 0
      BY <1>1, <2>3 DEF XgmiInv, Frontier
    <3> QED
      BY <1>7, <2>1, <3>1
  <2> QED
    BY <1>1, <2>2, <2>3
<1> QED
  BY <1>8, <1>9, <1>10, <1>11, <1>12 DEF XgmiInv

LEMMA DropKeeps == XgmiInv /\ Drop => XgmiInv'
<1> SUFFICES ASSUME XgmiInv, Drop PROVE XgmiInv'
  OBVIOUS
<1>1. PICK c \in visited : queue[c] > 0 /\ queue' = [queue EXCEPT ![c] = @ - 1]
  BY DEF Drop
<1>2. UNCHANGED <<adjacency, visited, start, group, groups>>
  BY DEF Drop
<1>3. c \in Cards
  BY DEF XgmiInv, Links, Parts
<1>4. start # Nobody
  BY <1>1, <1>3 DEF XgmiInv, Parts, Idle
<1>5. queue' \in [Cards -> Nat]
  BY <1>1, <1>3 DEF XgmiInv, Queued
<1>6. \A d \in Cards : queue'[d] > 0 => queue[d] > 0
  BY <1>1, <1>3 DEF XgmiInv, Queued
<1>7. \A d \in Cards : queue[d] > 0 /\ d # c => queue'[d] > 0
  BY <1>1, <1>3 DEF XgmiInv, Queued
<1>8. Links' /\ Finished'
  BY <1>2 DEF XgmiInv, Links, Finished, Closed
<1>9. Queued'
  BY <1>2, <1>5, <1>6 DEF XgmiInv, Queued
<1>10. Parts'
  <2>1. start \in group \/ queue'[start] > 0
    <3>1. CASE start = c
      (* It was visited, and is in no finished group. *)
      BY <3>1, <1>4 DEF XgmiInv, Parts
    <3>2. CASE start # c
      BY <3>2, <1>4, <1>7 DEF XgmiInv, Parts
    <3> QED
      BY <3>1, <3>2
  <2> QED
    BY <1>2, <1>4, <2>1 DEF XgmiInv, Parts
<1>11. Within'
  BY <1>2, <1>4, <1>6 DEF XgmiInv, Within
<1>12. Frontier'
  <2> SUFFICES ASSUME NEW a \in group, NEW b \in adjacency[a], b \notin visited
               PROVE  queue'[b] > 0
    BY <1>2 DEF Frontier
  <2>1. queue[b] > 0 /\ b # c
    BY DEF XgmiInv, Frontier
  <2>2. b \in Cards
    BY DEF XgmiInv, Links, Parts
  <2> QED
    BY <1>7, <2>1, <2>2
<1> QED
  BY <1>8, <1>9, <1>10, <1>11, <1>12 DEF XgmiInv

LEMMA CloseKeeps == XgmiInv /\ Close => XgmiInv'
<1> SUFFICES ASSUME XgmiInv, Close PROVE XgmiInv'
  OBVIOUS
<1>1. /\ start # Nobody /\ queue = Idle
      /\ groups' = groups \cup {group} /\ group' = {} /\ start' = Nobody
      /\ UNCHANGED <<adjacency, visited, queue>>
  BY DEF Close
<1>2. Links' /\ Queued' /\ Parts'
  BY <1>1 DEF XgmiInv, Links, Queued, Parts
<1>3. Within' /\ Frontier'
  BY <1>1 DEF Within, Frontier
<1>4. Finished'
  BY <1>1, SearchFindsComponent DEF XgmiInv, Finished, Closed
<1> QED
  BY <1>2, <1>3, <1>4 DEF XgmiInv

LEMMA XgmiInvStep == XgmiInv /\ [XgmiNext]_xgmiVars => XgmiInv'
<1>1. XgmiInv /\ UNCHANGED xgmiVars => XgmiInv'
  BY DEF xgmiVars, XgmiInv, Links, Queued, Parts, Within, Frontier, Finished, Closed
<1> QED
  BY <1>1, BeginKeeps, VisitKeeps, DropKeeps, CloseKeeps DEF XgmiNext

-----------------------------------------------------------------------------
(* Finished groups are what is claimed, once none is left to begin.        *)
LEMMA FinishedAreComponents == XgmiInv => Components
<1> SUFFICES ASSUME XgmiInv PROVE Components
  OBVIOUS
<1>1. ASSUME Grouped
      PROVE  UNION groups = {c \in DOMAIN adjacency : adjacency[c] # {}}
  <2>1. visited = UNION groups
    BY <1>1 DEF XgmiInv, Parts, Grouped
  <2> QED
    BY <1>1, <2>1 DEF XgmiInv, Parts, Grouped
<1> QED
  BY <1>1 DEF XgmiInv, Finished, Components

(* For every set of cards and every report of peers, one-sided or not,     *)
(* every order of the searches of build_amd_xgmi_groups makes of the       *)
(* linked cards their connected components.                                *)
THEOREM GroupsAreComponents == XgmiSpec => []Components
BY XgmiInvInit, XgmiInvStep, FinishedAreComponents, PTL DEF XgmiSpec
=============================================================================
