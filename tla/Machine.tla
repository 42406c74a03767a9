------------------------------- MODULE Machine -------------------------------
(***************************************************************************)
(* What the sensors make of the cards of a machine (src/sensors/) and how  *)
(* they are published as labels (src/topology/labels.rs).                  *)
(*                                                                         *)
(* A card has a vendor, a parent PCI device, a model (its slug), the peers *)
(* that it reports, memory (the size its backend looks at, VRAM for AMD,   *)
(* BAR1 for Nvidia and BAR2 for Intel, in GiB; 0 if it is not above that   *)
(* backend's floor) and vfs (whether virtual functions are configured).    *)
(*                                                                         *)
(* A label key is a tuple: its prefix, what it counts, its suffix.  A      *)
(* count is written in decimal and read back.                              *)
(***************************************************************************)
EXTENDS Naturals, FiniteSets, Functions, FiniteSetsExt

Backends == {"amd", "nvidia", "intel"}

(* enumerate_all: the cards that have a DRM node and a backend.            *)
Enumerate(cards, bound) == {c \in bound : cards[c].vendor \in Backends}

MemoryKind(card) ==
  CASE card.memory > 0                              -> "dedicated"
    [] card.memory = 0 /\ card.vendor = "intel"     -> "unified"
    [] OTHER                                        -> "unknown"

Coverage(card) == IF card.vendor = "nvidia" THEN "identification-only" ELSE "full"

(* mark_partitions: cards with the same parent, or with virtual functions. *)
Partitioned(cards, found, c) ==
  cards[c].vfs \/ \E d \in found \ {c} : cards[d].parent = cards[c].parent

-----------------------------------------------------------------------------
(* The domains of the cards found: the xGMI groups, and each other card    *)
(* alone.  The ID of a domain is a hash of its members: here, the members. *)
\* Mutant: every card gets a domain of its own as well.
FabricDomainsAll(groups, found) == groups \cup {{c} : c \in found}
FabricDomains(groups, found) == groups \cup {{c} : c \in found \ UNION groups}

DomainOf(domains, c) == CHOOSE d \in domains : c \in d

CountLabels(prefix, keyOf) ==
  [k \in {<<prefix, key, "count">> : key \in Range(keyOf)} |->
     Cardinality({c \in DOMAIN keyOf : keyOf[c] = k[2]})]

(* The physical cards of a vendor are the distinct parents of its cards.   *)
PhysicalLabels(cards, found) ==
  [k \in {<<"vendor", cards[c].vendor, "physical-count">> : c \in found} |->
     Cardinality({cards[c].parent : c \in {d \in found : cards[d].vendor = k[2]}})]

(* A label with a value, one that is there or not (a set of at most one    *)
(* value), and all the labels of several sets, of which no two share a key.*)
Given(key, values) == [k \in {key : v \in values} |-> CHOOSE v \in values : TRUE]
Label(key, value) == [k \in {key} |-> value]
AllOf(parts) ==
  [k \in UNION {DOMAIN p : p \in parts} |-> (CHOOSE p \in parts : k \in DOMAIN p)[k]]

(* rdma: the ports of every RDMA device; a device may have none.           *)
AnyActiveRoce(rdma) ==
  \E d \in DOMAIN rdma : \E p \in rdma[d] : p.state = "ACTIVE" /\ p.layer = "Ethernet"

RdmaLabels(rdma) ==
  {Given(<<"rdma">>, {x \in {"present"} : AnyActiveRoce(rdma)}),
   Given(<<"rdma", "devices-count">>, {Cardinality(DOMAIN rdma) : d \in DOMAIN rdma}),
   Given(<<"rdma-inventory">>, {rdma : d \in DOMAIN rdma})}

(* heard: the chassis on every interface; slug: the slug of every chassis. *)
LldpLabels(heard, slug) ==
  {[k \in {<<"lldp", "chassis", slug[c]>> : c \in Range(heard)} |-> 1],
   Given(<<"lldp", "chassis-count">>, {Cardinality(Range(heard)) : i \in DOMAIN heard}),
   Given(<<"lldp-neighbors">>, {heard : i \in DOMAIN heard})}

(* The inventory annotation: an entry for every card.                      *)
Inventory(cards, found, domains) ==
  [c \in found |->
     [vendor      |-> cards[c].vendor,
      total       |-> cards[c].memory,
      memory      |-> MemoryKind(cards[c]),
      coverage    |-> Coverage(cards[c]),
      partitioned |-> Partitioned(cards, found, c),
      domain      |-> DomainOf(domains, c)]]

(* build.  A rack and a block are there or not.                            *)
BuildLabels(cards, found, domains, block, rack, rdma, heard, slug) ==
  AllOf(
        {Given(<<"block">>, block), Given(<<"rack">>, rack),
         [k \in {<<"fabric-domain", d>> : d \in domains} |-> Cardinality(k[2])],
         Label(<<"fabric-domains-count">>, Cardinality(domains)),
         CountLabels("vendor", [c \in found |-> cards[c].vendor]),
         CountLabels("model", [c \in found |-> cards[c].model]),
         CountLabels("memory-kind", [c \in found |-> MemoryKind(cards[c])]),
         PhysicalLabels(cards, found),
         Label(<<"total-count">>, Cardinality(found)),
         Label(<<"inventory">>, Inventory(cards, found, domains)),
         Label(<<"fabric-graph">>, domains)}
        \cup RdmaLabels(rdma) \cup LldpLabels(heard, slug))
=============================================================================
