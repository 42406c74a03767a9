---------------------------- MODULE MCNodeDaemon ----------------------------
(***************************************************************************)
(* The machines that TLC looks at, one family for each question: cards     *)
(* linked in every way, cards and hosts that break, switches whose frames  *)
(* arrive in any order.                                                    *)
(***************************************************************************)
EXTENDS NodeDaemon

CONSTANTS c1, c2, c3

Card(vendor, parent, model, peers, memory, vfs) ==
  [vendor |-> vendor, parent |-> parent, model |-> model, peers |-> peers,
   memory |-> memory, vfs |-> vfs]

Well(driver, temp, vram) == [driver |-> driver, render |-> TRUE, temp |-> temp, vram |-> vram]
Gone == [driver |-> Null, render |-> FALSE, temp |-> Null, vram |-> Null]
Passed == [Gone EXCEPT !.driver = "vfio-pci"]
Vram(total, used) == [total |-> total, used |-> used]
Host(memory, mounts) == [memory |-> memory, mounts |-> mounts]

WellAmd == Well("amdgpu", 84, Vram(4, 3))
WellNvidia == Well("nvidia", Null, Null)
WellIntel == Well("xe", 60, Null)
WellHost == Host(24, {0, 200})
Roce == [state |-> "ACTIVE", layer |-> "Ethernet"]
Dead == [state |-> "DOWN", layer |-> "Ethernet"]
Ib   == [state |-> "ACTIVE", layer |-> "InfiniBand"]
Devices(first, second) ==
  [d \in {"mlx5_0", "mlx5_1"} |-> IF d = "mlx5_0" THEN first ELSE second]

(* Three AMD cards; each reports any of the others, the first perhaps      *)
(* itself.                                                                 *)
LinkedMachines ==
  {[cards |-> [c \in {c1, c2, c3} |-> Card("amd", c, "mi100", peers[c], 4, FALSE)],
    rdma |-> Devices({Ib}, {}), block |-> {"b"}, rack |-> {"r"},
    uplinks |-> <<>>, frames |-> <<>>,
    condition |-> [s \in {c1, c2, c3, "host"} |-> IF s = "host" THEN WellHost ELSE WellAmd],
    ailments |-> [s \in {c1, c2, c3, "host"} |-> {}],
    changes |-> 0, kills |-> 0, verdicts |-> {}, exports |-> FALSE] :
      peers \in {p \in [{c1, c2, c3} -> SUBSET {c1, c2, c3}] : c2 \notin p[c2] /\ c3 \notin p[c3]}}

(* An AMD card, and another AMD, an Nvidia or an Intel card, or one of     *)
(* another vendor, perhaps behind the same bridge.                         *)
AilmentsOf(vendor) ==
  CASE vendor = "amd"    -> {Gone, Passed, Well("amdgpu", 85, Vram(4, 3)), Well("amdgpu", 95, Vram(4, 4)),
                             Well("amdgpu", Null, Vram(4, Null)), Well("amdgpu", 84, Vram(4, 5))}
    [] vendor = "nvidia" -> {Gone, Well("nouveau", 94, Null)}
    [] vendor = "intel"  -> {Gone, Well("i915", 95, Null)}
    [] vendor = "other"  -> {}
HostAilments == {Host(23, {0, 199}), Host(Null, {})}

MixedMachine(vendor, parent, memory, port, maxChanges, maxKills, verdicts, exports) ==
  [cards |-> [c \in {c1, c2} |->
                IF c = c1 THEN Card("amd", 1, "mi100", {c2}, 4, FALSE)
                ELSE Card(vendor, parent, "m2", {}, memory, memory = 0)],
   rdma |-> Devices({port, Ib}, {}), block |-> {}, rack |-> {"r"},
   uplinks |-> <<>>, frames |-> <<>>,
   condition |-> [s \in {c1, c2, "host"} |->
                    IF s = "host" THEN WellHost
                    ELSE IF s = c1 \/ vendor = "amd" THEN WellAmd
                    ELSE IF vendor = "nvidia" THEN WellNvidia ELSE WellIntel],
   ailments |-> [s \in {c1, c2, "host"} |->
                   IF s = "host" THEN HostAilments
                   ELSE IF s = c1 THEN AilmentsOf("amd") ELSE AilmentsOf(vendor)],
   changes |-> maxChanges, kills |-> maxKills, verdicts |-> verdicts,
   exports |-> exports]
MixedMachines ==
  {MixedMachine(v, 1, 4, Dead, 2, 0, {}, FALSE) : v \in {"amd", "intel"}}
    \cup {MixedMachine("nvidia", 2, 4, Dead, 1, 1, {}, TRUE),
          MixedMachine("intel", 2, 0, Dead, 1, 1, {}, TRUE),
          MixedMachine("other", 1, 4, Roce, 1, 1, {Ok("d", 1), Ok("d", Null), Fail}, FALSE)}

(* Three interfaces, each cabled to one of two switches, whose frames may  *)
(* be whole, end early or late, be torn or lack something.                 *)
Switches == {"sw1", "sw2"}
MCRackSlug == [s \in Switches |-> IF s = "sw1" THEN "tor-1" ELSE "tor-2"]
FramesOf(s) ==
  {<<Chassis({s}), Port({"p"})>>,
   <<Chassis({s}), Port({"p"}), End, Chassis(Switches \ {s})>>,
   <<Chassis({s}), Torn, Port({"p"})>>,
   <<Chassis({s}), Port({"p"}), Chassis({})>>}
CabledMachines ==
  {[cards |-> [c \in {c1} |-> Card("nvidia", 1, "m", {}, 4, FALSE)],
    rdma |-> IF rack = {} THEN <<>> ELSE Devices({Dead}, {Roce}), block |-> {}, rack |-> rack,
    uplinks |-> uplinks, frames |-> [i \in DOMAIN uplinks |-> FramesOf(uplinks[i])],
    condition |-> [s \in {c1, "host"} |-> IF s = "host" THEN WellHost ELSE WellNvidia],
    ailments |-> [s \in {c1, "host"} |-> {}],
    changes |-> 0, kills |-> 1, verdicts |-> {}, exports |-> FALSE] :
      rack \in {{}, {"r"}}, uplinks \in [{"eth0", "eth1", "eth2"} -> Switches]}

MCMachines == LinkedMachines \cup MixedMachines \cup CabledMachines
=============================================================================
