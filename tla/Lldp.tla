-------------------------------- MODULE Lldp --------------------------------
(***************************************************************************)
(* What a node learns from LLDP (src/topology/lldp.rs): parse_lldpdu reads *)
(* a frame, discover keeps the latest neighbour of every interface until   *)
(* its deadline, and infer_rack_from_lldp (src/topology/discover.rs) takes *)
(* the rack from them.                                                     *)
(*                                                                         *)
(* A frame is a sequence of TLVs; a value that cannot be read is {} and    *)
(* one that can is a set of one element.                                   *)
(***************************************************************************)
EXTENDS Naturals, FiniteSets, Sequences, Functions

CONSTANT RackSlug  \* the slug of every chassis ID; several may share one

Chassis(value) == [type |-> "chassis", value |-> value]
Port(value)    == [type |-> "port", value |-> value]
End  == [type |-> "end", value |-> {}]
Torn == [type |-> "torn", value |-> {}]  \* its length leads out of the frame

(* Reading stops at the end TLV and at a torn one.                         *)
\* Mutant: what follows the end is read as well.
ReadTlvsPastEnd(frame) == {i \in DOMAIN frame : \A j \in 1 .. i : frame[j] # Torn}
ReadTlvs(frame) == {i \in DOMAIN frame : \A j \in 1 .. i : frame[j] \notin {End, Torn}}

(* The last TLV of a type counts, even one whose value cannot be read.     *)
LastOf(frame, type) ==
  LET at == {i \in ReadTlvs(frame) : frame[i].type = type}
  IN IF at = {} THEN {} ELSE frame[CHOOSE i \in at : \A j \in at : j <= i].value

(* The chassis, if the frame tells both a chassis and a port.              *)
ParseLldpdu(frame) ==
  IF LastOf(frame, "port") = {} THEN {} ELSE LastOf(frame, "chassis")

(* A frame arrives: the neighbour of an interface is replaced.             *)
Hear(heard, iface, frame) ==
  [i \in DOMAIN heard \cup {k \in {iface} : ParseLldpdu(frame) # {}} |->
     IF i = iface /\ ParseLldpdu(frame) # {}
       THEN CHOOSE c \in ParseLldpdu(frame) : TRUE ELSE heard[i]]

Uplinks(heard, chassis) == Cardinality({i \in DOMAIN heard : heard[i] = chassis})

(* The chassis heard on most interfaces; max_by_key decides a tie by the   *)
(* order of a HashMap.  No rack if nothing was heard.                      *)
\* Mutant: any chassis.
InferRackOfAny(heard) == {RackSlug[c] : c \in Range(heard)}
InferRack(heard) ==
  {RackSlug[c] : c \in {d \in Range(heard) :
                          \A e \in Range(heard) : Uplinks(heard, e) <= Uplinks(heard, d)}}
=============================================================================
