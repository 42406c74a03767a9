----------------------------- MODULE NodeDaemon -----------------------------
(***************************************************************************)
(* From the hardware of a node to what the console shows of it: the daemon *)
(* (src/lifecycle.rs) enumerates the cards, groups them into domains,      *)
(* listens for switches, builds its labels, and then runs the preflight    *)
(* checks in a loop, one check of one card at a time, and has each cycle's *)
(* verdict written to the Node (src/telemetry/preflight.rs).  The prober   *)
(* writes its verdicts to the same Node, and the console reads it.         *)
(*                                                                         *)
(* Meanwhile cards break and recover, and the daemon is killed and started *)
(* again.  How one patch is built, retried and lost is the subject of      *)
(* NodeLabels; here a cycle's patch is carried out or given up.            *)
(***************************************************************************)
EXTENDS XgmiGroups, Machine, NodeView, Fleet

CONSTANTS
  Machines,    \* the machines to look at, see below
  RackSlug     \* the slug of every chassis ID

(* A machine has                                                           *)
(*   cards, the records of Machine by PCI address, and rdma, the ports of  *)
(*     every RDMA device;                                                  *)
(*   block and rack, the flags --block and --rack: sets of at most one;    *)
(*   uplinks, the chassis at the other end of every interface, and frames, *)
(*     what may arrive there;                                              *)
(*   condition, of every card and of "host" at first, and ailments, the    *)
(*     conditions they may get into;                                       *)
(*   changes and kills, the bounds on changes of a condition and on kills  *)
(*     of the daemon, and verdicts, what the prober may find;              *)
(*   exports, whether its metrics arrive at mutel.                         *)
IsCardCondition(vendor, now) ==
  /\ now.temp = Null \/ now.temp \in Nat
  /\ \/ now.vram = Null
     \/ /\ vendor = "amd" /\ now.vram.total \in Nat \ {0}
        /\ now.vram.used = Null \/ now.vram.used \in Nat
IsHostCondition(now) ==
  /\ now.memory = Null \/ now.memory \in Nat
  /\ now.mounts \subseteq Nat /\ IsFiniteSet(now.mounts)

ASSUME MachinesAssumption ==
  \A m \in Machines :
    /\ DOMAIN m.cards \subseteq Cards /\ IsFiniteSet(DOMAIN m.cards)
    /\ m.changes \in Nat /\ m.kills \in Nat
    /\ DOMAIN m.condition = DOMAIN m.cards \cup {"host"}
    /\ \A c \in DOMAIN m.cards : \A now \in {m.condition[c]} \cup m.ailments[c] :
         IsCardCondition(m.cards[c].vendor, now)
    /\ \A now \in {m.condition["host"]} \cup m.ailments["host"] : IsHostCondition(now)

INSTANCE Lldp
INSTANCE HealthChecks WITH Missing <- Null

ASSUME HostAssumption == "host" \notin Cards
ASSUME MissingAssumption ==
  /\ Null \notin Nat /\ \A cards \in SUBSET Cards : cards # Null
  /\ Null \notin {"present", "true", "degraded", "unknown", "rack", "loopback", "preflight"}
  /\ \A vendor \in Backends : Null \notin AcceptedDrivers[vendor]

(* A switch sends its own chassis ID, up to the end of its frames.         *)
ASSUME FramesAssumption ==
  \A m \in Machines : \A iface \in DOMAIN m.frames : \A frame \in m.frames[iface] :
    /\ iface \in DOMAIN m.uplinks
    /\ DOMAIN frame \subseteq Nat /\ IsFiniteSet(DOMAIN frame)
    /\ \A i \in DOMAIN frame :
         frame[i].type = "chassis" /\ (\A j \in 1 .. i : frame[j] \notin {End, Torn})
           => frame[i].value \subseteq {m.uplinks[iface]}

ASSUME VerdictsAssumption ==
  \A m \in Machines : \A verdict \in m.verdicts :
    /\ verdict # Null /\ verdict.kind \in {"ok", "fail", "timeout"}
    /\ verdict.kind # "ok" => verdict.bw = Null

(* Labels and annotations under one of MANAGED_PREFIXES: all but the       *)
(* prober's accel-test.lunnova.dev.                                        *)
\* Mutant: the prober's keys are managed as well.
IsManagedAll(key) == Len(key) > 0
IsManaged(key) == ~(Len(key) = 2 /\ key[1] \in {"rack", "loopback"})
ManagedIn(node) == {key \in DOMAIN node : IsManaged(key)}
Labeler(ManagedKeys) == INSTANCE MergePatch

VARIABLES
  machine,    \* the hardware
  condition,  \* what the files of every card and of the host show now
  pc,         \* where the daemon stands
  found,      \* the accelerators enumerated at its start
  domains,    \* their fabric domains
  heard,      \* the chassis last heard on every interface
  base,       \* label_base
  check,      \* the running check, an index of Registry
  left,       \* the subjects it has still to look at
  failed,     \* the checks of this cycle that failed or warned, each with its subject
  outcomes,   \* the outcomes of this cycle
  node,       \* labels and annotations of the Node
  steady,     \* history: the faults there were all through this cycle
  ever,       \* history: the faults there were at some time in this cycle
  shown,      \* history: the accelerators of the daemon whose patch came last
  told,       \* history: the verdict of the cycle whose patch that was, and the
              \* failed and warning checks of that cycle
  series,     \* the series of accel.memory.total in mutel's window
  probes,     \* history: for each scope the prober's last verdict, or Null
  changes, kills  \* changes and kills still to come

cycleVars == <<check, left, failed, outcomes, steady, ever>>
bootVars  == <<found, domains, heard, base>>
nodeVars  == <<node, shown, told, probes, series>>
worldVars == <<machine, condition, changes, kills>>
vars == <<xgmiVars, worldVars, pc, bootVars, cycleVars, nodeVars>>

-----------------------------------------------------------------------------
(* The faults of the machine now, stated apart from the checks.            *)

Subjects(name) == IF name \in NodeLocal THEN {"host"} ELSE found

VendorOf(c) == machine.cards[c].vendor

HasFault(name, s) ==
  \/ name = "driver.loaded" /\ condition[s].driver \notin AcceptedDrivers[VendorOf(s)]
  \/ name = "drm.render_node_present" /\ ~condition[s].render
  \/ name = "temperature.below_throttle" /\ condition[s].temp # Null /\ condition[s].temp >= 85
  \/ /\ name = "memory.floor" /\ condition[s].vram # Null /\ condition[s].vram.used # Null
     /\ condition[s].vram.used >= condition[s].vram.total
  \/ name = "host.memory.available" /\ condition[s].memory # Null /\ condition[s].memory < 24
  \/ /\ name = "host.disk.free" /\ condition[s].mounts # {}
     /\ \A free \in condition[s].mounts : free < 200

Faults ==
  {f \in UNION {{name} \X Subjects(name) : name \in Range(Registry)} : HasFault(f[1], f[2])}

-----------------------------------------------------------------------------
(* What a daemon that is down has not got, and what a cycle leaves behind. *)
NoGroups ==
  /\ adjacency' = <<>> /\ visited' = {} /\ start' = Nobody
  /\ queue' = Idle /\ group' = {} /\ groups' = {}
NoFacts == found' = {} /\ domains' = {} /\ heard' = <<>> /\ base' = <<>>
NoCycle == check' = 0 /\ left' = {} /\ failed' = {} /\ outcomes' = {} /\ steady' = {} /\ ever' = {}

Init ==
  /\ machine \in Machines /\ condition = machine.condition
  /\ pc = "down" /\ Ungrouped({}, [c \in Cards |-> {}])
  /\ found = {} /\ domains = {} /\ heard = <<>> /\ base = <<>>
  /\ check = 0 /\ left = {} /\ failed = {} /\ outcomes = {} /\ steady = {} /\ ever = {}
  /\ node = <<>> /\ shown = Null /\ told = [verdict |-> Null, reasons |-> {}]
  /\ probes = [scope \in {"rack", "loopback"} |-> Null]
  /\ series = NoSeries
  /\ changes = machine.changes /\ kills = machine.kills

(* enumerate_all, then the adjacency of the AMD cards.  A card has a DRM   *)
(* node only if a graphics driver is bound to it.                          *)
GraphicsDrivers == {"amdgpu", "nvidia", "nouveau", "i915", "xe"}

Boot ==
  /\ pc = "down" /\ pc' = "group"
  /\ found' = Enumerate(machine.cards, {c \in DOMAIN machine.cards :
                                                condition[c].driver \in GraphicsDrivers})
  /\ adjacency' = Adjacency({c \in found' : VendorOf(c) = "amd"},
                            [c \in DOMAIN machine.cards |-> machine.cards[c].peers])
  /\ UNCHANGED <<visited, start, queue, group, groups, domains, heard, base,
                 worldVars, cycleVars, nodeVars>>

Group ==
  /\ pc = "group" /\ XgmiNext
  /\ UNCHANGED <<pc, worldVars, bootVars, cycleVars, nodeVars>>

(* The single-card fallback; then the daemon listens.                      *)
Place ==
  /\ pc = "group" /\ Grouped /\ pc' = "listen"
  /\ domains' = FabricDomains(groups, found)
  /\ NoGroups
  /\ UNCHANGED <<found, heard, base, worldVars, cycleVars, nodeVars>>

Listen ==
  /\ pc = "listen"
  /\ \E iface \in DOMAIN machine.frames : \E frame \in machine.frames[iface] :
       heard' = Hear(heard, iface, frame)
  /\ UNCHANGED <<pc, found, domains, base, xgmiVars, worldVars, cycleVars, nodeVars>>

(* The deadline, or an error, at once if there is no socket.  A flag goes  *)
(* before what was heard.                                                  *)
Build ==
  /\ pc = "listen" /\ pc' = "sleep"
  /\ LET inferred == IF machine.rack = {} THEN InferRack(heard) ELSE machine.rack
     IN \E rack \in IF inferred = {} THEN {{}} ELSE {{r} : r \in inferred} :
          base' = BuildLabels(machine.cards, found, domains, machine.block, rack,
                              machine.rdma, heard, RackSlug)
  /\ domains' = {} /\ heard' = <<>>
  /\ UNCHANGED <<found, xgmiVars, worldVars, cycleVars, nodeVars>>

-----------------------------------------------------------------------------
StartCycle ==
  /\ pc = "sleep" /\ pc' = "check" /\ check' = 1 /\ left' = Subjects(Registry[1])
  /\ steady' = Faults /\ ever' = Faults
  /\ UNCHANGED <<failed, outcomes, xgmiVars, worldVars, bootVars, nodeVars>>

Outcome(name, s) ==
  IF name \in NodeLocal THEN HostCheck(name, condition[s])
  ELSE CardCheck(name, VendorOf(s), Coverage(machine.cards[s]), condition[s])

RunOneCheck ==
  /\ pc = "check"
  /\ \E s \in left :
       LET outcome == Outcome(Registry[check], s) IN
         /\ left' = left \ {s} /\ outcomes' = outcomes \cup {outcome}
         /\ failed' = failed \cup (IF outcome \in {"fail", "warn"}
                                     THEN {<<Registry[check], s>>} ELSE {})
  /\ UNCHANGED <<pc, check, steady, ever, xgmiVars, worldVars, bootVars, nodeVars>>

NextCheck ==
  /\ pc = "check" /\ left = {}
  /\ IF check < Len(Registry)
       THEN check' = check + 1 /\ left' = Subjects(Registry[check + 1]) /\ UNCHANGED pc
       ELSE pc' = "report" /\ UNCHANGED <<check, left>>
  /\ UNCHANGED <<failed, outcomes, steady, ever, xgmiVars, worldVars, bootVars, nodeVars>>

Desired ==
  AllOf({base, Label(<<"inference">>, Aggregate(outcomes)),
         Label(<<"training">>, Aggregate(outcomes)), Given(<<"failed">>, {failed} \ {{}})})

(* The labeler reads the Node and patches it, or gives up.                 *)
Report ==
  /\ pc = "report" /\ pc' = "sleep"
  /\ \/ /\ node' = LET managed == ManagedIn(node) \cup DOMAIN Desired
                   IN Labeler(managed)!Merge(node, Labeler(managed)!MergedSection(node, Desired))
        /\ shown' = found /\ told' = [verdict |-> Aggregate(outcomes), reasons |-> failed]
     \/ UNCHANGED <<node, shown, told>>
  /\ NoCycle
  /\ UNCHANGED <<probes, series, xgmiVars, worldVars, bootVars>>

(* A tick of the live loop, which runs beside the preflight loop.  The AMD *)
(* backend reads the size anew, the others keep the one they enumerated.   *)
(* The bound on kills serves as the ID of the process.                     *)
Readable(c) == IF VendorOf(c) = "amd" THEN condition[c].vram # Null ELSE machine.cards[c].memory > 0

Tick ==
  /\ pc \in {"sleep", "check", "report"} /\ machine.exports
  /\ series' = Export(series, kills,
                      [c \in {d \in found : Readable(d)} |-> machine.cards[c].memory])
  /\ UNCHANGED <<pc, node, shown, told, probes, xgmiVars, worldVars, bootVars, cycleVars>>

WindowPasses ==
  /\ \E process \in {key[1] : key \in DOMAIN series} :
       /\ process # kills \/ pc = "down"
       /\ series' = Leave(series, process)
  /\ UNCHANGED <<pc, node, shown, told, probes, xgmiVars, worldVars, bootVars, cycleVars>>

Kill ==
  /\ pc # "down" /\ kills > 0 /\ kills' = kills - 1
  /\ pc' = "down" /\ NoFacts /\ NoCycle /\ NoGroups
  /\ UNCHANGED <<machine, condition, changes, nodeVars>>

-----------------------------------------------------------------------------
(* A card or the host gets into another condition, or is well again.       *)
ConditionChanges ==
  /\ changes > 0 /\ changes' = changes - 1
  /\ \E s \in DOMAIN condition :
       \E now \in (machine.ailments[s] \cup {machine.condition[s]}) \ {condition[s]} :
         condition' = [condition EXCEPT ![s] = now]
  /\ UNCHANGED <<machine, found>>
  /\ IF pc \in {"check", "report"}
       THEN steady' = steady \cap Faults' /\ ever' = ever \cup Faults'
       ELSE UNCHANGED <<steady, ever>>
  /\ UNCHANGED <<kills, pc, domains, heard, base, check, left, failed, outcomes,
                 xgmiVars, nodeVars>>

(* The prober writes a verdict (ProbePair has the whole story), if the     *)
(* labels make the node eligible.                                          *)
Probed ==
  /\ {<<"rack">>, <<"rdma">>} \subseteq DOMAIN node
  /\ \E scope \in DOMAIN probes, verdict \in machine.verdicts :
       /\ node' = Patch!Merge(node, BuildBody(scope, "peer", 1, verdict))
       /\ probes' = [probes EXCEPT ![scope] = verdict]
  /\ UNCHANGED <<shown, told, series, pc, xgmiVars, worldVars, bootVars, cycleVars>>

Next ==
  \/ Boot \/ Group \/ Place \/ Listen \/ Build
  \/ StartCycle \/ RunOneCheck \/ NextCheck \/ Report \/ Kill
  \/ ConditionChanges \/ Probed \/ Tick \/ WindowPasses

Spec == Init /\ [][Next]_vars

-----------------------------------------------------------------------------
Running == pc \in {"sleep", "check", "report"}
Sum(counts) == FoldFunction(LAMBDA x, y : x + y, 0, counts)

(* The labels of a node agree with each other: every accelerator is in one *)
(* of the fabric domains, whose members add up, as do vendors, models and  *)
(* kinds of memory, to the total; and the inventory puts each accelerator  *)
(* in a domain that it is a member of.                                     *)
LabelsAddUp ==
  Running =>
    LET counts(prefix) == ParseCounts(base, prefix)
        domain == [d \in base[<<"fabric-graph">>] |-> base[<<"fabric-domain", d>>]]
        total == base[<<"total-count">>]
    IN /\ \A prefix \in {"vendor", "model", "memory-kind"} : Sum(counts(prefix)) = total
       /\ Sum(domain) = total /\ UNION DOMAIN domain = found
       /\ \A c \in found : c \in base[<<"inventory">>][c].domain
       /\ \A v \in DOMAIN counts("vendor") :
            base[<<"vendor", v, "physical-count">>] \in 1 .. counts("vendor")[v]

(* Whatever frames arrive, damaged or in whatever order, a rack that was   *)
(* not configured is the slug of a switch the node is cabled to, and of    *)
(* one with as many uplinks as any, if every uplink was heard.             *)
RackIsUplink ==
  Running /\ machine.rack = {} /\ <<"rack">> \in DOMAIN base =>
    LET cabled == machine.uplinks
        all == DOMAIN base[<<"lldp-neighbors">>] = DOMAIN cabled
    IN \E i \in DOMAIN cabled :
         /\ base[<<"rack">>] = RackSlug[cabled[i]]
         /\ all => \A j \in DOMAIN cabled :
                     Uplinks(cabled, cabled[j]) <= Uplinks(cabled, cabled[i])

(* A cycle looks at its subjects one after the other while they change: it *)
(* names every fault there is from its start to its end, and none that     *)
(* there never was in between; and a verdict of degraded names some fault. *)
VerdictSound ==
  pc = "report" =>
    /\ steady \subseteq failed /\ failed \subseteq ever
    /\ Aggregate(outcomes) = "degraded" <=> failed # {}

(* What the console counts on a node are the accelerators that the daemon  *)
(* found whose patch came last, and their connected components; keys of    *)
(* earlier daemons are gone.                                               *)
Linked(cards, c, d) ==
  LET amd == {e \in cards : VendorOf(e) = "amd"}
      links == Adjacency(amd, [e \in DOMAIN machine.cards |-> machine.cards[e].peers])
  IN \A part \in SUBSET amd :
       c \in part /\ (\A e \in part : links[e] \subseteq part) => d \in part

ConsoleCounts ==
  shown # Null =>
    LET view == FromNode(node) IN
      /\ view.total = Cardinality(shown)
      /\ view.vendors = [v \in {VendorOf(c) : c \in shown} |->
                           Cardinality({c \in shown : VendorOf(c) = v})]
      /\ view.domains = Cardinality({{d \in shown : d = c \/ (VendorOf(c) = "amd" /\ Linked(shown, c, d))}
                                       : c \in shown})
      /\ view.rdma <=> (\E d \in DOMAIN machine.rdma : \E p \in machine.rdma[d] :
                           p.state = "ACTIVE" /\ p.layer = "Ethernet")

HasFigure(verdict) == verdict.kind # "ok" \/ verdict.bw # Null

(* What the console shows as the verdict on a node, whatever two writers,  *)
(* restarts and patches that were given up there have been: the last that  *)
(* the prober found of a pair, even if a loopback has been probed since;   *)
(* without one, the last of a loopback; each with its own figure (beside   *)
(* an ok that has none an older one may stand).  On a node never probed,   *)
(* the verdict of one cycle of checks, the one whose patch came last, with *)
(* the reasons of that very cycle, and nothing before there is a patch.    *)
ConsoleVerdict ==
  LET view == ResolveVerdict(node)
      scope == IF probes["rack"] # Null THEN "rack" ELSE "loopback"
  IN IF probes[scope] # Null
       THEN /\ view.source = scope /\ view.verdict = probes[scope].kind
            /\ HasFigure(probes[scope]) => view.bw = probes[scope].bw
     ELSE IF shown = Null THEN view = Null
     ELSE view = [verdict |-> IF told.verdict = "true" THEN "ok" ELSE told.verdict,
                  reason  |-> IF told.reasons = {} THEN Null ELSE told.reasons,
                  bw      |-> Null,
                  source  |-> "preflight"]

Installed == MapThenSumSet(LAMBDA c : machine.cards[c].memory, DOMAIN machine.cards)

(* What latest_by_node says that it fixes: a node does not have more memory*)
(* than there is in it "because of stale series from recent pod restarts". *)
(* (The series of a daemon that was killed are added to those of the next  *)
(* until they leave the window.)                                           *)
RestartsNotCounted == LatestByNode(series) <= Installed
=============================================================================
