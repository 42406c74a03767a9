----------------------------- MODULE XgmiGroups -----------------------------
(***************************************************************************)
(* build_amd_xgmi_groups of src/topology/discover.rs: the AMD cards of a   *)
(* machine are grouped by the peers that each reports in sysfs.            *)
(*                                                                         *)
(* The cards are the keys of a HashMap, so the loop over them starts its   *)
(* searches in any order; the queue of a search is a bag, from which any   *)
(* entry may come next.  A card can be queued again while it is already    *)
(* queued, and an entry is dropped when its card was visited meanwhile.    *)
(***************************************************************************)
EXTENDS Naturals

CONSTANTS
  Cards,  \* PCI addresses of accelerator cards
  Nobody  \* no search is running

ASSUME NobodyAssumption == Nobody \notin Cards

VARIABLES
  adjacency,  \* for every AMD card, its neighbours
  visited,    \* cards that some search has reached
  start,      \* the card the running search started from, or Nobody
  queue,      \* for every card, how often it is queued
  group,      \* the cards the running search has reached
  groups      \* the groups found

xgmiVars == <<adjacency, visited, start, queue, group, groups>>

Idle == [c \in Cards |-> 0]

(* A link reported from one end counts for both.  An address that is no    *)
(* AMD card of this machine is ignored.                                    *)
\* Mutant: a link counts only for the card that reports it.
AdjacencyOneWay(found, peers) == [a \in found |-> found \cap peers[a]]
Adjacency(found, peers) == [a \in found |-> {b \in found : b \in peers[a] \/ a \in peers[b]}]

(* Ready to group the cards found, whose sysfs files name these peers.     *)
Ungrouped(found, peers) ==
  /\ adjacency = Adjacency(found, peers)
  /\ visited = {} /\ start = Nobody /\ queue = Idle /\ group = {} /\ groups = {}

XgmiInit == \E found \in SUBSET Cards, peers \in [Cards -> SUBSET Cards] : Ungrouped(found, peers)

-----------------------------------------------------------------------------
(* A search starts from a card that has neighbours and was not visited.    *)
Begin ==
  /\ start = Nobody
  /\ \E c \in DOMAIN adjacency \ visited :
       /\ adjacency[c] # {}
       /\ start' = c /\ queue' = [Idle EXCEPT ![c] = 1]
  /\ UNCHANGED <<adjacency, visited, group, groups>>

Visit ==
  \E c \in Cards \ visited :
    /\ queue[c] > 0
    /\ visited' = visited \cup {c} /\ group' = group \cup {c}
    /\ queue' = [d \in Cards |->
                   IF d = c THEN queue[d] - 1
                   ELSE IF d \in adjacency[c] \ visited' THEN queue[d] + 1 ELSE queue[d]]
    /\ UNCHANGED <<adjacency, start, groups>>

Drop ==
  \E c \in visited :
    /\ queue[c] > 0 /\ queue' = [queue EXCEPT ![c] = @ - 1]
    /\ UNCHANGED <<adjacency, visited, start, group, groups>>

Close ==
  /\ start # Nobody /\ queue = Idle
  /\ groups' = groups \cup {group} /\ group' = {} /\ start' = Nobody
  /\ UNCHANGED <<adjacency, visited, queue>>

(* Every card was visited or has no neighbours: the loop is over.          *)
Grouped ==
  /\ start = Nobody
  /\ \A c \in DOMAIN adjacency : c \in visited \/ adjacency[c] = {}

XgmiNext == Begin \/ Visit \/ Drop \/ Close
XgmiSpec == XgmiInit /\ [][XgmiNext]_xgmiVars

-----------------------------------------------------------------------------
(* No link leads out of these cards.                                       *)
Closed(cards) == \A c \in cards : adjacency[c] \subseteq cards

(* In whatever order the searches run, and whichever end of a link reports *)
(* it, every group is a connected component of the links: no link leaves   *)
(* it and none of its proper parts could be split off; and at the end each *)
(* card that has a link is in a group.                                     *)
Components ==
  /\ \A g \in groups :
       /\ g # {} /\ g \subseteq DOMAIN adjacency /\ Closed(g)
       /\ \A part \in SUBSET g : part # {} /\ Closed(part) => part = g
  /\ Grouped => UNION groups = {c \in DOMAIN adjacency : adjacency[c] # {}}
=============================================================================
