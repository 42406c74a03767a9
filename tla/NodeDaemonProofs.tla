-------------------------- MODULE NodeDaemonProofs --------------------------
(***************************************************************************)
(* From the hardware to the console, on every machine: a cycle of checks   *)
(* names every fault that lasts and none that never was, the labels of a   *)
(* node add up, its rack is one it is cabled to, and the console shows the *)
(* accelerators that there are and the verdict that was told.              *)
(***************************************************************************)
EXTENDS NodeDaemon, XgmiProofs, FiniteSetTheorems, TLAPS

(* One check of one subject agrees with the faults as they are at that     *)
(* moment.  A fault that lasts is thus found whenever its turn comes: all  *)
(* that is invariant is that those whose turn was are named.               *)
Names ==
  {"sensor.readable", "drm.render_node_present", "driver.loaded",
   "temperature.below_throttle", "memory.floor", "host.memory.available",
   "host.disk.free", "placeholder.always_pass"}

(* The machine stays the same, its conditions are ones it can get into,    *)
(* and the daemon looks at cards that a backend supports.                  *)
World ==
  /\ machine \in Machines
  /\ DOMAIN condition = DOMAIN machine.condition
  /\ \A s \in DOMAIN condition : condition[s] \in {machine.condition[s]} \cup machine.ailments[s]
  /\ found \subseteq {c \in DOMAIN machine.cards : VendorOf(c) \in Backends}

InCycle == pc \in {"check", "report"}

(* The turn of a check and one of its subjects has passed.                 *)
TurnPassed(i, s) == pc = "report" \/ i < check \/ (i = check /\ s \notin left)

Cycle ==
  /\ pc = "check" => check \in DOMAIN Registry /\ left \subseteq Subjects(Registry[check])
  /\ InCycle => steady \subseteq Faults /\ Faults \subseteq ever
  /\ InCycle => failed \subseteq ever
  /\ InCycle => \A i \in DOMAIN Registry : \A s \in Subjects(Registry[i]) :
       TurnPassed(i, s) /\ <<Registry[i], s>> \in steady => <<Registry[i], s>> \in failed
  /\ outcomes \cap {"fail", "warn"} # {} <=> failed # {}
  /\ ~InCycle => failed = {} /\ outcomes = {}

VerdictInv == World /\ Cycle

-----------------------------------------------------------------------------
(* Max of a finite set is one of its elements.                             *)
LEMMA MaxOfFinite ==
  ASSUME NEW set \in SUBSET Nat, IsFiniteSet(set), set # {}
  PROVE  Max(set) \in set /\ \A x \in set : x <= Max(set)
<1> DEFINE Above(x) == {y \in set : y > x}
           T == {Above(x) : x \in set}
           R == StrictSubsetOrdering(set)
<1>1. IsWellFoundedOn(R, SUBSET set)
  BY FS_StrictSubsetOrderingWellFounded, FS_FiniteSubsetsOfFinite
<1>2. T \subseteq SUBSET set /\ T # {}
  OBVIOUS
<1>3. \E a \in T : \A b \in T : <<b, a>> \notin R
  <2> HIDE DEF T, R
  <2> QED
    BY <1>1, <1>2, WFMin
<1>4. PICK x \in set : \A z \in set : <<Above(z), Above(x)>> \notin R
  BY <1>3
<1>5. ASSUME NEW z \in set, z > x
      PROVE  FALSE
  <2>1. Above(z) \subseteq Above(x)
    <3>1. \A y \in set : y > z => y > x
      BY <1>5
    <3> QED
      BY <3>1
  <2>2. z \in Above(x) /\ z \notin Above(z)
    BY <1>5
  <2>3. Above(z) # Above(x)
    BY <2>2
  <2>4. <<Above(z), Above(x)>> \in R
    <3> HIDE DEF Above
    <3>1. Above(z) \in SUBSET set /\ Above(x) \in SUBSET set
      BY DEF Above
    <3> QED
      BY <2>1, <2>3, <3>1 DEF StrictSubsetOrdering
  <2> QED
    BY <1>4, <2>4
<1>6. \A z \in set : x >= z
  BY <1>5
<1> QED
  BY <1>6 DEF Max

LEMMA RegistryNames == DOMAIN Registry = 1 .. Len(Registry) /\ Len(Registry) = 8 /\ Range(Registry) = Names
BY DEF Registry, Range, Names

-----------------------------------------------------------------------------
(* What the host checks find is what is wrong with the host.               *)
LEMMA HostOutcomeIsFault ==
  ASSUME World, NEW name \in NodeLocal
  PROVE  HostCheck(name, condition["host"]) \in {"fail", "warn"} <=> HasFault(name, "host")
<1> DEFINE now == condition["host"]
<1>1. IsHostCondition(now)
  BY MachinesAssumption DEF World
<1>2. CASE name = "host.memory.available"
  <2>1. HostCheck(name, now) = IF now.memory = Null THEN "skip" ELSE AtLeast(now.memory, 24)
    BY <1>2 DEF HostCheck, HostMemoryFloor
  <2>2. HasFault(name, "host") <=> now.memory # Null /\ now.memory < 24
    BY <1>2 DEF HasFault
  <2> QED
    BY <1>1, <2>1, <2>2 DEF AtLeast, IsHostCondition
<1>3. CASE name = "host.disk.free"
  <2>1. HostCheck(name, now) = IF now.mounts = {} THEN "skip" ELSE AtLeast(Max(now.mounts), 200)
    BY <1>3 DEF HostCheck, HostDiskFloor
  <2>2. HasFault(name, "host") <=> now.mounts # {} /\ \A free \in now.mounts : free < 200
    BY <1>3 DEF HasFault
  <2>3. now.mounts \in SUBSET Nat /\ IsFiniteSet(now.mounts)
    BY <1>1 DEF IsHostCondition
  <2>4. CASE now.mounts = {}
    BY <2>1, <2>2, <2>4
  <2>5. CASE now.mounts # {}
    <3>1. Max(now.mounts) \in now.mounts /\ \A x \in now.mounts : x <= Max(now.mounts)
      BY <2>3, <2>5, MaxOfFinite
    <3>2. Max(now.mounts) < 200 <=> \A free \in now.mounts : free < 200
      BY <2>3, <3>1
    <3> QED
      BY <2>1, <2>2, <2>5, <3>2 DEF AtLeast
  <2> QED
    BY <2>4, <2>5
<1> QED
  BY <1>2, <1>3 DEF NodeLocal

(* What the checks of a card find is what is wrong with the card.          *)
LEMMA CardOutcomeIsFault ==
  ASSUME World, NEW name \in Names \ NodeLocal, NEW c \in found
  PROVE  CardCheck(name, VendorOf(c), Coverage(machine.cards[c]), condition[c]) \in {"fail", "warn"}
           <=> HasFault(name, c)
<1> DEFINE now == condition[c]
           vendor == VendorOf(c)
           coverage == Coverage(machine.cards[c])
<1>1. c \in DOMAIN machine.cards /\ vendor \in Backends /\ IsCardCondition(vendor, now)
  BY MachinesAssumption DEF World, VendorOf
<1>2. coverage = (IF vendor = "nvidia" THEN "identification-only" ELSE "full")
  BY DEF Coverage, VendorOf
<1> HIDE DEF coverage
<1>3. CASE name = "sensor.readable"
  BY <1>2, <1>3 DEF CardCheck, HasFault, coverage
<1>4. CASE name = "drm.render_node_present"
  BY <1>4 DEF CardCheck, HasFault
<1>5. CASE name = "driver.loaded"
  <2>1. CardCheck(name, vendor, coverage, now) = DriverLoaded(vendor, now.driver)
    BY <1>5 DEF CardCheck
  <2>2. HasFault(name, c) <=> now.driver \notin AcceptedDrivers[vendor]
    BY <1>5 DEF HasFault
  <2>3. DriverLoaded(vendor, now.driver) \in {"fail", "warn"} <=> now.driver \notin AcceptedDrivers[vendor]
    BY <1>1, MissingAssumption DEF DriverLoaded
  <2> QED
    BY <2>1, <2>2, <2>3 DEF coverage
<1>6. CASE name = "temperature.below_throttle"
  <2>1. CardCheck(name, vendor, coverage, now) = TemperatureBelowThrottle(now.temp)
    BY <1>6 DEF CardCheck
  <2>2. HasFault(name, c) <=> now.temp # Null /\ now.temp >= 85
    BY <1>6 DEF HasFault
  <2>3. TemperatureBelowThrottle(now.temp) \in {"fail", "warn"} <=> now.temp # Null /\ now.temp >= 85
    BY <1>1 DEF TemperatureBelowThrottle, Throttle, IsCardCondition
  <2> QED
    BY <2>1, <2>2, <2>3 DEF coverage
<1>7. CASE name = "memory.floor"
  <2>1. CardCheck(name, vendor, coverage, now) = VramFloor(coverage, now.vram)
    BY <1>7 DEF CardCheck
  <2>2. HasFault(name, c) <=> now.vram # Null /\ now.vram.used # Null /\ now.vram.used >= now.vram.total
    BY <1>7 DEF HasFault
  <2>3. CASE now.vram = Null
    BY <2>1, <2>2, <2>3 DEF VramFloor, coverage
  <2>4. CASE now.vram # Null
    <3>1. vendor = "amd" /\ now.vram.total \in Nat \ {0} /\ (now.vram.used = Null \/ now.vram.used \in Nat)
      BY <1>1, <2>4 DEF IsCardCondition
    <3>2. coverage # "identification-only"
      BY <1>2, <3>1
    <3>3. VramFloor(coverage, now.vram) = AtLeast(FreeVram(now.vram), 1)
      BY <2>4, <3>2 DEF VramFloor, MemoryFloor
    <3>4. FreeVram(now.vram) < 1 <=> now.vram.used # Null /\ now.vram.used >= now.vram.total
      BY <3>1, MissingAssumption DEF FreeVram
    <3> QED
      BY <2>1, <2>2, <2>4, <3>3, <3>4 DEF AtLeast, coverage
  <2> QED
    BY <2>3, <2>4
<1>8. CASE name = "placeholder.always_pass"
  BY <1>8 DEF CardCheck, HasFault
<1> QED
  BY <1>3, <1>4, <1>5, <1>6, <1>7, <1>8 DEF Names, NodeLocal

LEMMA OutcomeIsFault ==
  ASSUME World, NEW i \in DOMAIN Registry, NEW s \in Subjects(Registry[i])
  PROVE  Outcome(Registry[i], s) \in {"fail", "warn"} <=> <<Registry[i], s>> \in Faults
<1>1. Registry[i] \in Names /\ Registry[i] \in Range(Registry)
  BY RegistryNames DEF Range
<1>2. <<Registry[i], s>> \in Faults <=> HasFault(Registry[i], s)
  BY <1>1 DEF Faults
<1>3. CASE Registry[i] \in NodeLocal
  <2>1. s = "host"
    BY <1>3 DEF Subjects
  <2>2. Outcome(Registry[i], s) = HostCheck(Registry[i], condition[s])
    BY <1>3 DEF Outcome
  <2> QED
    BY <1>2, <1>3, <2>1, <2>2, HostOutcomeIsFault
<1>4. CASE Registry[i] \notin NodeLocal
  <2>1. s \in found
    BY <1>4 DEF Subjects
  <2>2. Outcome(Registry[i], s)
          = CardCheck(Registry[i], VendorOf(s), Coverage(machine.cards[s]), condition[s])
    BY <1>4 DEF Outcome
  <2> QED
    BY <1>1, <1>2, <1>4, <2>1, <2>2, CardOutcomeIsFault
<1> QED
  BY <1>3, <1>4

-----------------------------------------------------------------------------
LEMMA VerdictInvInit == Init => VerdictInv
<1> SUFFICES ASSUME Init PROVE VerdictInv
  OBVIOUS
<1>1. World
  BY DEF Init, World
<1>2. Cycle
  BY DEF Init, Cycle, InCycle
<1> QED
  BY <1>1, <1>2 DEF VerdictInv

(* No step but Boot and Kill changes what the daemon has found, and only a *)
(* change of a condition changes the faults.                               *)
LEMMA SameWorld ==
  ASSUME World, UNCHANGED <<machine, condition, found>>
  PROVE  /\ World' /\ Faults' = Faults
         /\ \A name : Subjects(name)' = Subjects(name)
BY DEF World, VendorOf, Faults, HasFault, Subjects

(* Steps outside a cycle, and those that leave the cycle alone.            *)
LEMMA SameCycle ==
  ASSUME VerdictInv, UNCHANGED <<machine, condition, found, pc, cycleVars>>
  PROVE  VerdictInv'
<1>1. World' /\ Faults' = Faults /\ \A name : Subjects(name)' = Subjects(name)
  BY SameWorld DEF VerdictInv
<1> QED
  BY <1>1 DEF VerdictInv, Cycle, InCycle, TurnPassed, cycleVars

LEMMA BeforeCycle ==
  ASSUME VerdictInv, ~InCycle', World', failed' = {}, outcomes' = {}
  PROVE  VerdictInv'
BY DEF VerdictInv, Cycle, InCycle

(* The daemon is killed, starts, or ends a cycle.                          *)
LEMMA LifecycleKeeps ==
  ASSUME VerdictInv, Boot \/ Group \/ Place \/ Listen \/ Build \/ Report \/ Kill
  PROVE  VerdictInv'
<1>1. UNCHANGED <<machine, condition>>
  BY DEF Boot, Group, Place, Listen, Build, Report, Kill, worldVars
<1>2. found' = found \/ found' \subseteq {c \in DOMAIN machine.cards : VendorOf(c) \in Backends}
  <2>1. CASE Boot
    BY <2>1 DEF Boot, Enumerate, VendorOf
  <2>2. CASE Kill
    BY <2>2 DEF Kill, NoFacts
  <2> QED
    BY <2>1, <2>2 DEF Group, Place, Listen, Build, Report, bootVars
<1>3. World'
  BY <1>1, <1>2 DEF VerdictInv, World, VendorOf
<1>4. ~InCycle'
  BY DEF Boot, Group, Place, Listen, Build, Report, Kill, InCycle
<1>5. failed' = {} /\ outcomes' = {}
  <2>1. CASE Report \/ Kill
    BY <2>1 DEF Report, Kill, NoCycle
  <2>2. CASE Boot \/ Group \/ Place \/ Listen \/ Build
    <3>1. ~InCycle /\ UNCHANGED <<failed, outcomes>>
      BY <2>2 DEF Boot, Group, Place, Listen, Build, InCycle, cycleVars
    <3> QED
      BY <3>1 DEF VerdictInv, Cycle
  <2> QED
    BY <2>1, <2>2
<1> QED
  BY <1>3, <1>4, <1>5, BeforeCycle

LEMMA StartCycleKeeps == VerdictInv /\ StartCycle => VerdictInv'
<1> SUFFICES ASSUME VerdictInv, StartCycle PROVE VerdictInv'
  OBVIOUS
<1>1. World' /\ Faults' = Faults /\ \A name : Subjects(name)' = Subjects(name)
  BY SameWorld DEF VerdictInv, StartCycle, worldVars, bootVars
<1>2. ~InCycle /\ failed' = {} /\ failed = {} /\ outcomes' = outcomes
  BY DEF StartCycle, InCycle, VerdictInv, Cycle
<1>3. pc' = "check" /\ check' = 1 /\ left' = Subjects(Registry[1]) /\ steady' = Faults /\ ever' = Faults
  BY DEF StartCycle
<1>4. 1 \in DOMAIN Registry /\ \A i \in DOMAIN Registry : i \in Int /\ i >= 1
  BY RegistryNames
<1>5. \A i \in DOMAIN Registry : \A s \in Subjects(Registry[i]) : ~TurnPassed(i, s)'
  BY <1>3, <1>4 DEF TurnPassed
<1>6. outcomes' \cap {"fail", "warn"} # {} <=> failed' # {}
  BY <1>2 DEF VerdictInv, Cycle
<1> QED
  BY <1>1, <1>2, <1>3, <1>4, <1>5, <1>6 DEF VerdictInv, Cycle, InCycle

LEMMA RunOneCheckKeeps == VerdictInv /\ RunOneCheck => VerdictInv'
<1> SUFFICES ASSUME VerdictInv, RunOneCheck PROVE VerdictInv'
  OBVIOUS
<1>1. World' /\ Faults' = Faults /\ \A name : Subjects(name)' = Subjects(name)
  BY SameWorld DEF VerdictInv, RunOneCheck, worldVars, bootVars
<1> DEFINE fault(s) == <<Registry[check], s>>
<1>2. PICK s \in left :
        LET outcome == Outcome(Registry[check], s) IN
          /\ left' = left \ {s} /\ outcomes' = outcomes \cup {outcome}
          /\ failed' = failed \cup (IF outcome \in {"fail", "warn"} THEN {fault(s)} ELSE {})
  BY DEF RunOneCheck
<1>3. pc = "check" /\ UNCHANGED <<pc, check, steady, ever>>
  BY DEF RunOneCheck
<1>4. check \in DOMAIN Registry /\ left \subseteq Subjects(Registry[check])
  BY <1>3 DEF VerdictInv, Cycle
<1> DEFINE outcome == Outcome(Registry[check], s)
<1>5. outcome \in {"fail", "warn"} <=> fault(s) \in Faults
  BY <1>2, <1>4, OutcomeIsFault DEF VerdictInv
<1>6. /\ left' = left \ {s} /\ outcomes' = outcomes \cup {outcome}
      /\ outcome \in {"fail", "warn"} => failed' = failed \cup {fault(s)}
      /\ outcome \notin {"fail", "warn"} => failed' = failed
  BY <1>2
<1> HIDE DEF outcome
<1>7. /\ steady \subseteq Faults /\ Faults \subseteq ever /\ failed \subseteq ever
      /\ outcomes \cap {"fail", "warn"} # {} <=> failed # {}
      /\ \A i \in DOMAIN Registry : \A t \in Subjects(Registry[i]) :
           TurnPassed(i, t) /\ <<Registry[i], t>> \in steady => <<Registry[i], t>> \in failed
  BY <1>3 DEF VerdictInv, Cycle, InCycle
<1>8. failed \subseteq failed' /\ failed' \subseteq ever
  BY <1>5, <1>6, <1>7
<1>9. outcomes' \cap {"fail", "warn"} # {} <=> failed' # {}
  <2>1. CASE outcome \in {"fail", "warn"}
    BY <1>6, <2>1
  <2>2. CASE outcome \notin {"fail", "warn"}
    BY <1>6, <1>7, <2>2
  <2> QED
    BY <2>1, <2>2
<1>10. ASSUME NEW i \in DOMAIN Registry, NEW t \in Subjects(Registry[i]),
              TurnPassed(i, t)', <<Registry[i], t>> \in steady
       PROVE  <<Registry[i], t>> \in failed'
  <2>1. CASE i = check /\ t = s
    BY <1>5, <1>6, <1>7, <1>10, <2>1
  <2>2. CASE ~(i = check /\ t = s)
    <3>1. TurnPassed(i, t)
      BY <1>3, <1>6, <1>10, <2>2 DEF TurnPassed
    <3> QED
      BY <1>7, <1>8, <1>10, <3>1
  <2> QED
    BY <2>1, <2>2
<1>11. left' \subseteq Subjects(Registry[check])
  BY <1>4, <1>6
<1> QED
  BY <1>1, <1>3, <1>4, <1>7, <1>8, <1>9, <1>10, <1>11 DEF VerdictInv, Cycle, InCycle

LEMMA NextCheckKeeps == VerdictInv /\ NextCheck => VerdictInv'
<1> SUFFICES ASSUME VerdictInv, NextCheck PROVE VerdictInv'
  OBVIOUS
<1>1. World' /\ Faults' = Faults /\ \A name : Subjects(name)' = Subjects(name)
  BY SameWorld DEF VerdictInv, NextCheck, worldVars, bootVars
<1>2. pc = "check" /\ left = {} /\ UNCHANGED <<failed, outcomes, steady, ever>>
  BY DEF NextCheck
<1>3. \/ /\ check < Len(Registry) /\ check' = check + 1
         /\ left' = Subjects(Registry[check + 1]) /\ pc' = "check"
      \/ /\ check >= Len(Registry) /\ pc' = "report" /\ check' = check /\ left' = left
  BY <1>2, RegistryNames DEF NextCheck, VerdictInv, Cycle
<1>4. check \in 1 .. Len(Registry) /\ Len(Registry) = 8 /\ DOMAIN Registry = 1 .. Len(Registry)
  BY <1>2, RegistryNames DEF VerdictInv, Cycle
<1>5. pc' = "check" => check' \in DOMAIN Registry /\ left' \subseteq Subjects(Registry[check'])
  BY <1>3, <1>4
<1>6. ASSUME NEW i \in DOMAIN Registry, NEW s \in Subjects(Registry[i]), TurnPassed(i, s)'
      PROVE  TurnPassed(i, s)
  <2>1. CASE pc' = "report"
    <3>1. check = Len(Registry) /\ i <= check
      BY <1>3, <1>4, <2>1
    <3> QED
      BY <1>2, <1>4, <3>1 DEF TurnPassed
  <2>2. CASE pc' = "check"
    <3>1. check' = check + 1 /\ left' = Subjects(Registry[check + 1])
      BY <1>3, <2>2
    <3>2. i < check + 1
      BY <1>4, <1>6, <2>2, <3>1 DEF TurnPassed
    <3> QED
      BY <1>2, <1>4, <3>2 DEF TurnPassed
  <2> QED
    BY <1>3, <2>1, <2>2
<1> QED
  BY <1>1, <1>2, <1>3, <1>5, <1>6 DEF VerdictInv, Cycle, InCycle

LEMMA ConditionChangesKeeps == VerdictInv /\ ConditionChanges => VerdictInv'
<1> SUFFICES ASSUME VerdictInv, ConditionChanges PROVE VerdictInv'
  OBVIOUS
<1>1. PICK s \in DOMAIN condition :
        \E now \in (machine.ailments[s] \cup {machine.condition[s]}) \ {condition[s]} :
          condition' = [condition EXCEPT ![s] = now]
  BY DEF ConditionChanges
<1>2. UNCHANGED <<machine, found, pc, check, left, failed, outcomes>>
  BY DEF ConditionChanges
<1>3. World'
  BY <1>1, <1>2 DEF VerdictInv, World, VendorOf
<1>4. \A name : Subjects(name)' = Subjects(name)
  BY <1>2 DEF Subjects
<1>5. InCycle => steady' = steady \cap Faults' /\ ever' = ever \cup Faults'
  BY DEF ConditionChanges, InCycle
<1> QED
  BY <1>2, <1>3, <1>4, <1>5 DEF VerdictInv, Cycle, InCycle, TurnPassed

LEMMA VerdictInvStep == VerdictInv /\ [Next]_vars => VerdictInv'
<1> SUFFICES ASSUME VerdictInv, [Next]_vars PROVE VerdictInv'
  OBVIOUS
<1>1. CASE UNCHANGED vars \/ Probed \/ Tick \/ WindowPasses
  <2>1. UNCHANGED <<machine, condition, found, pc, cycleVars>>
    BY <1>1 DEF vars, Probed, Tick, WindowPasses, worldVars, bootVars, cycleVars
  <2> QED
    BY <2>1, SameCycle
<1> QED
  BY <1>1, LifecycleKeeps, StartCycleKeeps, RunOneCheckKeeps, NextCheckKeeps,
     ConditionChangesKeeps DEF Next

-----------------------------------------------------------------------------
(* Whatever cards and file systems a machine has, whatever they run into   *)
(* and however they recover while run_cycle looks at one after the other:  *)
(* the verdict of a cycle names every fault that was there throughout and  *)
(* none that never was, and is degraded if and only if it names one.       *)
THEOREM CycleIsSound == Spec => []VerdictSound
<1>1. VerdictInv => VerdictSound
  <2> SUFFICES ASSUME VerdictInv, pc = "report"
               PROVE  /\ steady \subseteq failed /\ failed \subseteq ever
                      /\ Aggregate(outcomes) = "degraded" <=> failed # {}
    BY DEF VerdictSound
  <2>1. ASSUME NEW f \in steady PROVE f \in failed
    <3>1. f \in Faults
      BY <2>1 DEF VerdictInv, Cycle, InCycle
    <3>2. PICK i \in DOMAIN Registry : \E s \in Subjects(Registry[i]) : f = <<Registry[i], s>>
      BY <3>1 DEF Faults, Range
    <3>3. \A s \in Subjects(Registry[i]) : TurnPassed(i, s)
      BY DEF TurnPassed
    <3> QED
      BY <2>1, <3>2, <3>3 DEF VerdictInv, Cycle, InCycle
  <2>2. Aggregate(outcomes) = "degraded" <=> outcomes \cap {"fail", "warn"} # {}
    BY DEF Aggregate
  <2> QED
    BY <2>1, <2>2 DEF VerdictInv, Cycle, InCycle
<1> QED
  BY <1>1, VerdictInvInit, VerdictInvStep, PTL DEF Spec

-----------------------------------------------------------------------------
(* AllOf: each key has what the set it belongs to says.                    *)
LEMMA AllOfKeys ==
  ASSUME NEW parts, NEW k
  PROVE  k \in DOMAIN AllOf(parts) <=> \E p \in parts : k \in DOMAIN p
BY DEF AllOf

LEMMA AllOfLookup ==
  ASSUME NEW parts, NEW p \in parts, NEW k \in DOMAIN p,
         \A q \in parts : k \in DOMAIN q => q = p
  PROVE  k \in DOMAIN AllOf(parts) /\ AllOf(parts)[k] = p[k]
<1>1. (CHOOSE q \in parts : k \in DOMAIN q) = p
  OBVIOUS
<1> QED
  BY <1>1 DEF AllOf

LEMMA LabelLookup ==
  ASSUME NEW key, NEW value
  PROVE  DOMAIN Label(key, value) = {key} /\ Label(key, value)[key] = value
BY DEF Label

LEMMA GivenLookup ==
  ASSUME NEW key, NEW values
  PROVE  /\ \A k \in DOMAIN Given(key, values) : k = key
         /\ key \in DOMAIN Given(key, values) <=> values # {}
         /\ values # {} => Given(key, values)[key] \in values
BY DEF Given

(* What build makes of a machine: the labels that the theorems are about.  *)
BaseOf(m, cards, D, rack, H) ==
  BuildLabels(m.cards, cards, D, m.block, rack, m.rdma, H, RackSlug)

KeyOf(m, prefix, c) ==
  CASE prefix = "vendor"      -> m.cards[c].vendor
    [] prefix = "model"       -> m.cards[c].model
    [] prefix = "memory-kind" -> MemoryKind(m.cards[c])

CountKeys(labels, prefix) == {k \in DOMAIN labels : Len(k) = 3 /\ k[1] = prefix /\ k[3] = "count"}

Published(m, b, cards, D, rack, H) ==
  /\ <<"rack">> \in DOMAIN b <=> rack # {}
  /\ rack # {} => b[<<"rack">>] \in rack
  /\ DOMAIN H # {} => <<"lldp-neighbors">> \in DOMAIN b /\ b[<<"lldp-neighbors">>] = H
  /\ \A d \in D : <<"fabric-domain", d>> \in DOMAIN b /\ b[<<"fabric-domain", d>>] = Cardinality(d)
  /\ <<"fabric-domains-count">> \in DOMAIN b /\ b[<<"fabric-domains-count">>] = Cardinality(D)
  /\ \A prefix \in {"vendor", "model", "memory-kind"} :
       /\ CountKeys(b, prefix) = {<<prefix, KeyOf(m, prefix, c), "count">> : c \in cards}
       /\ \A c \in cards :
            b[<<prefix, KeyOf(m, prefix, c), "count">>] =
              Cardinality({d \in cards : KeyOf(m, prefix, d) = KeyOf(m, prefix, c)})
  /\ \A c \in cards :
       b[<<"vendor", m.cards[c].vendor, "physical-count">>] =
         Cardinality({m.cards[e].parent : e \in {d \in cards : m.cards[d].vendor = m.cards[c].vendor}})
  /\ <<"total-count">> \in DOMAIN b /\ b[<<"total-count">>] = Cardinality(cards)
  /\ b[<<"inventory">>] = Inventory(m.cards, cards, D)
  /\ b[<<"fabric-graph">>] = D
  /\ <<"rdma">> \in DOMAIN b <=> AnyActiveRoce(m.rdma)
  /\ <<"rdma">> \in DOMAIN b => b[<<"rdma">>] = "present"
  /\ {<<"inference">>, <<"training">>, <<"failed">>} \cap DOMAIN b = {}
  /\ \A k \in DOMAIN b : IsManaged(k)

LEMMA OneKey ==
  ASSUME NEW x
  PROVE  Len(<<x>>) = 1 /\ <<x>>[1] = x /\ IsManaged(<<x>>)
BY DEF IsManaged

LEMMA TwoKey ==
  ASSUME NEW x, NEW y
  PROVE  /\ Len(<<x, y>>) = 2 /\ <<x, y>>[1] = x /\ <<x, y>>[2] = y
         /\ IsManaged(<<x, y>>) <=> x \notin {"rack", "loopback"}
BY DEF IsManaged

LEMMA ThreeKey ==
  ASSUME NEW x, NEW y, NEW z
  PROVE  /\ Len(<<x, y, z>>) = 3 /\ <<x, y, z>>[1] = x /\ <<x, y, z>>[2] = y /\ <<x, y, z>>[3] = z
         /\ IsManaged(<<x, y, z>>)
BY DEF IsManaged

LEMMA BuildPublishes ==
  ASSUME NEW m, NEW cards, NEW D, NEW rack, NEW H
  PROVE  Published(m, BaseOf(m, cards, D, rack, H), cards, D, rack, H)
<1> DEFINE f1 == Given(<<"block">>, m.block)
           f2 == Given(<<"rack">>, rack)
           f3 == [k \in {<<"fabric-domain", d>> : d \in D} |-> Cardinality(k[2])]
           f4 == Label(<<"fabric-domains-count">>, Cardinality(D))
           f5 == CountLabels("vendor", [c \in cards |-> m.cards[c].vendor])
           f6 == CountLabels("model", [c \in cards |-> m.cards[c].model])
           f7 == CountLabels("memory-kind", [c \in cards |-> MemoryKind(m.cards[c])])
           f8 == PhysicalLabels(m.cards, cards)
           f9 == Label(<<"total-count">>, Cardinality(cards))
           f10 == Label(<<"inventory">>, Inventory(m.cards, cards, D))
           f11 == Label(<<"fabric-graph">>, D)
           f12 == Given(<<"rdma">>, {x \in {"present"} : AnyActiveRoce(m.rdma)})
           f13 == Given(<<"rdma", "devices-count">>, {Cardinality(DOMAIN m.rdma) : d \in DOMAIN m.rdma})
           f14 == [k \in {<<"lldp", "chassis", RackSlug[c]>> : c \in Range(H)} |-> 1]
           f15 == Given(<<"lldp", "chassis-count">>, {Cardinality(Range(H)) : i \in DOMAIN H})
           f16 == Given(<<"lldp-neighbors">>, {H : i \in DOMAIN H})
           f17 == Given(<<"rdma-inventory">>, {m.rdma : d \in DOMAIN m.rdma})
           parts == {f1, f2, f3, f4, f5, f6, f7, f8, f9, f10, f11, f12, f13, f14, f15, f16, f17}
           b == BaseOf(m, cards, D, rack, H)
<1>1. b = AllOf(parts)
  <2>1. parts = {f1, f2, f3, f4, f5, f6, f7, f8, f9, f10, f11} \cup {f12, f13, f17} \cup {f14, f15, f16}
    <3> HIDE DEF f1, f2, f3, f4, f5, f6, f7, f8, f9, f10, f11, f12, f13, f14, f15, f16, f17
    <3> QED
      OBVIOUS
  <2> HIDE DEF parts
  <2> QED
    BY <2>1 DEF BaseOf, BuildLabels, RdmaLabels, LldpLabels
<1>2. /\ \A k \in DOMAIN f1 : k = <<"block">>
      /\ \A k \in DOMAIN f2 : k = <<"rack">>
      /\ \A k \in DOMAIN f12 : k = <<"rdma">>
      /\ \A k \in DOMAIN f13 : k = <<"rdma", "devices-count">>
      /\ \A k \in DOMAIN f15 : k = <<"lldp", "chassis-count">>
      /\ \A k \in DOMAIN f16 : k = <<"lldp-neighbors">>
      /\ \A k \in DOMAIN f17 : k = <<"rdma-inventory">>
  BY GivenLookup
<1>3. /\ \A k \in DOMAIN f4 : k = <<"fabric-domains-count">>
      /\ \A k \in DOMAIN f9 : k = <<"total-count">>
      /\ \A k \in DOMAIN f10 : k = <<"inventory">>
      /\ \A k \in DOMAIN f11 : k = <<"fabric-graph">>
  BY LabelLookup
<1>4. /\ \A k \in DOMAIN f3 : \E d \in D : k = <<"fabric-domain", d>>
      /\ \A k \in DOMAIN f14 : \E x : k = <<"lldp", "chassis", x>>
      /\ \A k \in DOMAIN f8 : \E c \in cards : k = <<"vendor", m.cards[c].vendor, "physical-count">>
  BY DEF PhysicalLabels
<1>5. /\ \A k \in DOMAIN f5 : \E c \in cards : k = <<"vendor", KeyOf(m, "vendor", c), "count">>
      /\ \A k \in DOMAIN f6 : \E c \in cards : k = <<"model", KeyOf(m, "model", c), "count">>
      /\ \A k \in DOMAIN f7 : \E c \in cards : k = <<"memory-kind", KeyOf(m, "memory-kind", c), "count">>
  BY DEF CountLabels, KeyOf, Range
<1>9. /\ <<"rack">> \in DOMAIN f2 <=> rack # {}
      /\ rack # {} => f2[<<"rack">>] \in rack
      /\ <<"rdma">> \in DOMAIN f12 <=> AnyActiveRoce(m.rdma)
      /\ <<"rdma">> \in DOMAIN f12 => f12[<<"rdma">>] = "present"
      /\ DOMAIN H # {} => <<"lldp-neighbors">> \in DOMAIN f16 /\ f16[<<"lldp-neighbors">>] = H
  <2>1. DOMAIN H # {} => {H : i \in DOMAIN H} = {H}
    OBVIOUS
  <2> QED
    BY <2>1, GivenLookup
<1>10. /\ \A d \in D : <<"fabric-domain", d>> \in DOMAIN f3 /\ f3[<<"fabric-domain", d>>] = Cardinality(d)
       /\ <<"fabric-domains-count">> \in DOMAIN f4 /\ f4[<<"fabric-domains-count">>] = Cardinality(D)
       /\ <<"total-count">> \in DOMAIN f9 /\ f9[<<"total-count">>] = Cardinality(cards)
       /\ <<"inventory">> \in DOMAIN f10 /\ f10[<<"inventory">>] = Inventory(m.cards, cards, D)
       /\ <<"fabric-graph">> \in DOMAIN f11 /\ f11[<<"fabric-graph">>] = D
  BY LabelLookup
<1>11. ASSUME NEW c \in cards
       PROVE  /\ <<"vendor", m.cards[c].vendor, "physical-count">> \in DOMAIN f8
              /\ f8[<<"vendor", m.cards[c].vendor, "physical-count">>] =
                   Cardinality({m.cards[e].parent : e \in {d \in cards : m.cards[d].vendor = m.cards[c].vendor}})
  BY DEF PhysicalLabels
<1> DEFINE isCount(f, prefix) ==
             \A c \in cards :
               /\ <<prefix, KeyOf(m, prefix, c), "count">> \in DOMAIN f
               /\ f[<<prefix, KeyOf(m, prefix, c), "count">>] =
                    Cardinality({d \in cards : KeyOf(m, prefix, d) = KeyOf(m, prefix, c)})
<1>12. isCount(f5, "vendor") /\ isCount(f6, "model") /\ isCount(f7, "memory-kind")
  BY DEF CountLabels, KeyOf, Range
<1> HIDE DEF f1, f2, f3, f4, f5, f6, f7, f8, f9, f10, f11, f12, f13, f14, f15, f16, f17
<1>6. /\ \A k \in DOMAIN f1 : k[1] = "block" /\ IsManaged(k)
      /\ \A k \in DOMAIN f2 : k[1] = "rack" /\ Len(k) = 1 /\ IsManaged(k)
      /\ \A k \in DOMAIN f3 : k[1] = "fabric-domain" /\ IsManaged(k)
      /\ \A k \in DOMAIN f4 : k[1] = "fabric-domains-count" /\ IsManaged(k)
      /\ \A k \in DOMAIN f9 : k[1] = "total-count" /\ IsManaged(k)
      /\ \A k \in DOMAIN f10 : k[1] = "inventory" /\ IsManaged(k)
      /\ \A k \in DOMAIN f11 : k[1] = "fabric-graph" /\ IsManaged(k)
  BY <1>2, <1>3, <1>4, OneKey, TwoKey
<1>7. /\ \A k \in DOMAIN f12 : k[1] = "rdma" /\ Len(k) = 1 /\ IsManaged(k)
      /\ \A k \in DOMAIN f13 : k[1] = "rdma" /\ Len(k) = 2 /\ IsManaged(k)
      /\ \A k \in DOMAIN f14 : k[1] = "lldp" /\ IsManaged(k)
      /\ \A k \in DOMAIN f15 : k[1] = "lldp" /\ IsManaged(k)
      /\ \A k \in DOMAIN f16 : k[1] = "lldp-neighbors" /\ IsManaged(k)
      /\ \A k \in DOMAIN f17 : k[1] = "rdma-inventory" /\ IsManaged(k)
  BY <1>2, <1>4, OneKey, TwoKey, ThreeKey
<1>8. /\ \A k \in DOMAIN f5 : k[1] = "vendor" /\ Len(k) = 3 /\ k[3] = "count" /\ IsManaged(k)
      /\ \A k \in DOMAIN f6 : k[1] = "model" /\ Len(k) = 3 /\ k[3] = "count" /\ IsManaged(k)
      /\ \A k \in DOMAIN f7 : k[1] = "memory-kind" /\ Len(k) = 3 /\ k[3] = "count" /\ IsManaged(k)
      /\ \A k \in DOMAIN f8 : k[1] = "vendor" /\ k[3] = "physical-count" /\ IsManaged(k)
  BY <1>4, <1>5, ThreeKey
<1>13. ASSUME NEW p \in parts, NEW k \in DOMAIN p, \A q \in parts : k \in DOMAIN q => q = p
       PROVE  k \in DOMAIN b /\ b[k] = p[k]
  <2> HIDE DEF parts, b
  <2> QED
    BY <1>1, <1>13, AllOfLookup
<1>14. \A k : k \in DOMAIN b <=> \E p \in parts : k \in DOMAIN p
  <2> HIDE DEF parts, b
  <2> QED
    BY <1>1, AllOfKeys
<1> HIDE DEF b
<1>15. /\ <<"rack">> \in DOMAIN b <=> rack # {}
       /\ rack # {} => b[<<"rack">>] \in rack
  <2>1. \A q \in parts : <<"rack">> \in DOMAIN q => q = f2
    BY <1>6, <1>7, <1>8
  <2> QED
    BY <1>9, <1>13, <1>14, <2>1
<1>16. /\ <<"rdma">> \in DOMAIN b <=> AnyActiveRoce(m.rdma)
       /\ <<"rdma">> \in DOMAIN b => b[<<"rdma">>] = "present"
  <2>1. \A q \in parts : <<"rdma">> \in DOMAIN q => q = f12
    <3>1. <<"rdma">> \notin DOMAIN f13
      <4>1. Len(<<"rdma">>) = 1
        BY OneKey
      <4>2. \A k \in DOMAIN f13 : Len(k) # 1
        BY <1>7
      <4> QED
        BY <4>1, <4>2
    <3> QED
      BY <1>6, <1>7, <1>8, <3>1
  <2> QED
    BY <1>9, <1>13, <1>14, <2>1
<1>17. DOMAIN H # {} => <<"lldp-neighbors">> \in DOMAIN b /\ b[<<"lldp-neighbors">>] = H
  <2>1. \A q \in parts : <<"lldp-neighbors">> \in DOMAIN q => q = f16
    BY <1>6, <1>7, <1>8
  <2> QED
    BY <1>9, <1>13, <2>1
<1>18. ASSUME NEW d \in D
       PROVE  <<"fabric-domain", d>> \in DOMAIN b /\ b[<<"fabric-domain", d>>] = Cardinality(d)
  <2>1. \A q \in parts : <<"fabric-domain", d>> \in DOMAIN q => q = f3
    BY <1>6, <1>7, <1>8
  <2> QED
    BY <1>10, <1>13, <2>1
<1>19. /\ <<"fabric-domains-count">> \in DOMAIN b /\ b[<<"fabric-domains-count">>] = Cardinality(D)
       /\ <<"total-count">> \in DOMAIN b /\ b[<<"total-count">>] = Cardinality(cards)
       /\ b[<<"inventory">>] = Inventory(m.cards, cards, D)
       /\ b[<<"fabric-graph">>] = D
  <2>1. \A q \in parts : /\ <<"fabric-domains-count">> \in DOMAIN q => q = f4
                         /\ <<"total-count">> \in DOMAIN q => q = f9
                         /\ <<"inventory">> \in DOMAIN q => q = f10
                         /\ <<"fabric-graph">> \in DOMAIN q => q = f11
    BY <1>6, <1>7, <1>8
  <2>2. <<"fabric-domains-count">> \in DOMAIN b /\ b[<<"fabric-domains-count">>] = f4[<<"fabric-domains-count">>]
    BY <1>10, <1>13, <2>1
  <2>3. <<"total-count">> \in DOMAIN b /\ b[<<"total-count">>] = f9[<<"total-count">>]
    BY <1>10, <1>13, <2>1
  <2>4. b[<<"inventory">>] = f10[<<"inventory">>]
    BY <1>10, <1>13, <2>1
  <2>5. b[<<"fabric-graph">>] = f11[<<"fabric-graph">>]
    BY <1>10, <1>13, <2>1
  <2> QED
    BY <1>10, <2>2, <2>3, <2>4, <2>5
<1>20. ASSUME NEW c \in cards
       PROVE  b[<<"vendor", m.cards[c].vendor, "physical-count">>] =
                Cardinality({m.cards[e].parent : e \in {d \in cards : m.cards[d].vendor = m.cards[c].vendor}})
  <2>1. \A q \in parts : <<"vendor", m.cards[c].vendor, "physical-count">> \in DOMAIN q => q = f8
    BY <1>6, <1>7, <1>8
  <2> QED
    BY <1>11, <1>13, <2>1
<1>21. ASSUME NEW prefix, NEW f, \/ prefix = "vendor" /\ f = f5
                                 \/ prefix = "model" /\ f = f6
                                 \/ prefix = "memory-kind" /\ f = f7
       PROVE  /\ CountKeys(b, prefix) = {<<prefix, KeyOf(m, prefix, c), "count">> : c \in cards}
              /\ \A c \in cards :
                   b[<<prefix, KeyOf(m, prefix, c), "count">>] =
                     Cardinality({d \in cards : KeyOf(m, prefix, d) = KeyOf(m, prefix, c)})
  <2>1. \A q \in parts : \A k \in DOMAIN q : k[1] = prefix /\ k[3] = "count" => q = f
    BY <1>6, <1>7, <1>8, <1>21
  <2>2. f \in parts /\ isCount(f, prefix) /\ \A k \in DOMAIN f : k[1] = prefix /\ Len(k) = 3 /\ k[3] = "count"
    BY <1>8, <1>12, <1>21
  <2>3. \A k \in DOMAIN f : k \in DOMAIN b /\ b[k] = f[k]
    BY <1>13, <2>1, <2>2
  <2>4. CountKeys(b, prefix) = DOMAIN f
    <3>1. ASSUME NEW k \in CountKeys(b, prefix) PROVE k \in DOMAIN f
      <4>1. k \in DOMAIN b /\ k[1] = prefix /\ k[3] = "count"
        BY DEF CountKeys
      <4>2. PICK q \in parts : k \in DOMAIN q
        BY <1>14, <4>1
      <4> QED
        BY <2>1, <4>1, <4>2
    <3> QED
      BY <2>2, <2>3, <3>1 DEF CountKeys
  <2>5. DOMAIN f = {<<prefix, KeyOf(m, prefix, c), "count">> : c \in cards}
    <3>1. \A k \in DOMAIN f : \E c \in cards : k = <<prefix, KeyOf(m, prefix, c), "count">>
      BY <1>5, <1>21
    <3> QED
      BY <2>2, <3>1
  <2> QED
    BY <2>2, <2>3, <2>4, <2>5
<1>22. \A k \in DOMAIN b : IsManaged(k) /\ k \notin {<<"inference">>, <<"training">>, <<"failed">>}
  BY <1>6, <1>7, <1>8, <1>14
<1> HIDE DEF isCount, parts
<1>23. \A prefix \in {"vendor", "model", "memory-kind"} :
         /\ CountKeys(b, prefix) = {<<prefix, KeyOf(m, prefix, c), "count">> : c \in cards}
         /\ \A c \in cards :
              b[<<prefix, KeyOf(m, prefix, c), "count">>] =
                Cardinality({d \in cards : KeyOf(m, prefix, d) = KeyOf(m, prefix, c)})
  BY <1>21
<1> QED
  BY <1>15, <1>16, <1>17, <1>18, <1>19, <1>20, <1>22, <1>23 DEF Published, b
-----------------------------------------------------------------------------
(* The domains of the cards of a machine, as the property has them.        *)
LinksOf(m, cards) ==
  Adjacency({e \in cards : m.cards[e].vendor = "amd"}, [e \in DOMAIN m.cards |-> m.cards[e].peers])

LinkedIn(m, cards, c, d) ==
  \A part \in SUBSET {e \in cards : m.cards[e].vendor = "amd"} :
    c \in part /\ (\A e \in part : LinksOf(m, cards)[e] \subseteq part) => d \in part

Domain(m, cards, c) ==
  {d \in cards : d = c \/ (m.cards[c].vendor = "amd" /\ LinkedIn(m, cards, c, d))}

IsDomains(m, D, cards) ==
  /\ D = {Domain(m, cards, c) : c \in cards}
  /\ \A d \in D : \A c \in d : d = Domain(m, cards, c)

(* The groups of the flood fill and the cards left alone are the domains.  *)
LEMMA GroupsAreDomains ==
  ASSUME World, Finished, Grouped, UNION groups = {c \in DOMAIN adjacency : adjacency[c] # {}},
         adjacency = LinksOf(machine, found)
  PROVE  IsDomains(machine, FabricDomains(groups, found), found)
<1> DEFINE amd == {e \in found : machine.cards[e].vendor = "amd"}
           D == FabricDomains(groups, found)
<1>1. /\ DOMAIN adjacency = amd
      /\ \A a \in amd : adjacency[a] \subseteq amd
  BY DEF LinksOf, Adjacency
<1>2. \A c, d \in found :
        LinkedIn(machine, found, c, d) <=> \A part \in SUBSET amd : c \in part /\ Closed(part) => d \in part
  BY DEF LinkedIn, LinksOf, Closed
<1>3. D = groups \cup {{c} : c \in found \ UNION groups}
  BY DEF FabricDomains
<1>4. ASSUME NEW g \in groups, NEW c \in g PROVE g = Domain(machine, found, c)
  <2>1. g \subseteq amd /\ Closed(g) /\ c \in amd
    BY <1>1 DEF Finished
  <2>2. ASSUME NEW d \in g PROVE LinkedIn(machine, found, c, d)
    <3>1. ASSUME NEW part \in SUBSET amd, c \in part, Closed(part) PROVE d \in part
      <4>1. Closed(part \cap g)
        BY <2>1, <3>1 DEF Closed
      <4>2. part \cap g \in SUBSET g /\ part \cap g # {}
        BY <3>1
      <4>3. part \cap g = g
        BY <4>1, <4>2 DEF Finished
      <4> QED
        BY <4>3
    <3> QED
      BY <1>2, <2>1, <3>1
  <2>3. ASSUME NEW d \in found, LinkedIn(machine, found, c, d) PROVE d \in g
    BY <1>2, <2>1, <2>3
  <2> QED
    BY <2>1, <2>2, <2>3 DEF Domain
<1>5. ASSUME NEW c \in found \ UNION groups PROVE {c} = Domain(machine, found, c)
  <2>1. CASE machine.cards[c].vendor = "amd"
    <3>1. Closed({c})
      BY <1>1, <1>5, <2>1 DEF Closed
    <3>2. \A d \in found : LinkedIn(machine, found, c, d) => d = c
      BY <1>2, <2>1, <3>1
    <3> QED
      BY <3>2 DEF Domain
  <2>2. CASE machine.cards[c].vendor # "amd"
    BY <2>2 DEF Domain
  <2> QED
    BY <2>1, <2>2
<1>6. \A g \in groups : g # {} /\ g \subseteq found
  BY <1>1 DEF Finished
<1> HIDE DEF amd, D
<1>7. ASSUME NEW d \in D
      PROVE  d # {} /\ d \subseteq found /\ \A c \in d : d = Domain(machine, found, c)
  <2>1. CASE d \in groups
    BY <1>4, <1>6, <2>1
  <2>2. CASE d \notin groups
    <3>1. PICK c \in found \ UNION groups : d = {c}
      BY <1>3, <2>2
    <3> QED
      BY <1>5, <3>1
  <2> QED
    BY <2>1, <2>2
<1>8. \A c \in found : \E d \in D : c \in d
  BY <1>3
<1>9. D = {Domain(machine, found, c) : c \in found}
  BY <1>7, <1>8
<1> QED
  BY <1>7, <1>9 DEF IsDomains, D

(* The running search belongs to the daemon that groups its cards; no      *)
(* search runs at any other time.                                          *)
GroupInv ==
  /\ XgmiInv
  /\ pc = "group" => adjacency = LinksOf(machine, found)
  /\ pc # "group" => visited = {} /\ start = Nobody /\ queue = Idle /\ group = {} /\ groups = {}
  /\ pc = "listen" => IsDomains(machine, domains, found)

LEMMA NothingGrouped ==
  ASSUME Links, visited = {}, start = Nobody, queue = Idle, group = {}, groups = {}
  PROVE  XgmiInv
BY DEF XgmiInv, Queued, Idle, Parts, Within, Frontier, Finished

LEMMA NothingGroupedNext ==
  ASSUME Links', visited' = {}, start' = Nobody, queue' = Idle, group' = {}, groups' = {}
  PROVE  XgmiInv'
BY DEF XgmiInv, Queued, Idle, Parts, Within, Frontier, Finished

LEMMA GroupInvInit == Init => GroupInv
<1> SUFFICES ASSUME Init PROVE GroupInv
  OBVIOUS
<1>1. Links
  BY DEF Init, Ungrouped, Adjacency, Links
<1> QED
  BY <1>1, NothingGrouped DEF Init, Ungrouped, GroupInv

LEMMA SameGroups ==
  ASSUME GroupInv, UNCHANGED <<machine, found, domains, pc, xgmiVars>>
  PROVE  GroupInv'
BY XgmiInvStep
   DEF GroupInv, xgmiVars

(* VerdictInv is here for the cards found.                                 *)
LEMMA BootKeepsGroups == GroupInv /\ VerdictInv /\ VerdictInv' /\ Boot => GroupInv'
<1> SUFFICES ASSUME GroupInv, VerdictInv, VerdictInv', Boot PROVE GroupInv'
  OBVIOUS
<1>1. /\ UNCHANGED <<machine, visited, start, queue, group, groups>>
      /\ visited = {} /\ start = Nobody /\ queue = Idle /\ group = {} /\ groups = {}
      /\ pc' = "group"
  BY DEF Boot, GroupInv, worldVars
<1> DEFINE amd == {e \in found' : machine.cards[e].vendor = "amd"}
<1>2. adjacency' = Adjacency(amd, [e \in DOMAIN machine.cards |-> machine.cards[e].peers])
  BY DEF Boot, VendorOf
<1>3. amd \subseteq Cards
  BY MachinesAssumption, <1>1 DEF VerdictInv, World
<1> DEFINE links == Adjacency(amd, [e \in DOMAIN machine.cards |-> machine.cards[e].peers])
<1>7. /\ DOMAIN links = amd
      /\ \A a \in amd : links[a] \subseteq amd /\ \A b \in links[a] : a \in links[b]
  <2> HIDE DEF amd
  <2> QED
    BY DEF Adjacency
<1>4. Links'
  <2> HIDE DEF amd, links
  <2>1. adjacency' = links
    BY <1>2 DEF links
  <2> QED
    BY <1>3, <1>7, <2>1 DEF Links
<1>5. XgmiInv'
  BY <1>1, <1>4, NothingGroupedNext DEF Idle
<1>6. (adjacency = LinksOf(machine, found))'
  BY <1>1, <1>2 DEF LinksOf, VendorOf
<1> QED
  BY <1>1, <1>5, <1>6 DEF GroupInv

LEMMA GroupKeepsGroups == GroupInv /\ Group => GroupInv'
<1> SUFFICES ASSUME GroupInv, Group PROVE GroupInv'
  OBVIOUS
<1>1. pc = "group" /\ pc' = "group" /\ UNCHANGED <<machine, found, adjacency>> /\ XgmiNext
  BY DEF Group, worldVars, bootVars, XgmiNext, Begin, Visit, Drop, Close
<1>2. XgmiInv'
  BY <1>1, XgmiInvStep DEF GroupInv
<1>3. (adjacency = LinksOf(machine, found))'
  BY <1>1 DEF GroupInv, LinksOf, VendorOf
<1> QED
  BY <1>1, <1>2, <1>3 DEF GroupInv

LEMMA PlaceKeepsGroups == GroupInv /\ VerdictInv /\ Place => GroupInv'
<1> SUFFICES ASSUME GroupInv, VerdictInv, Place PROVE GroupInv'
  OBVIOUS
<1>1. /\ pc = "group" /\ Grouped /\ pc' = "listen" /\ UNCHANGED <<machine, found>>
      /\ domains' = FabricDomains(groups, found) /\ NoGroups
  BY DEF Place, worldVars
<1>2. IsDomains(machine, domains', found)
  <2>1. World /\ XgmiInv /\ Finished /\ adjacency = LinksOf(machine, found)
    BY <1>1 DEF GroupInv, VerdictInv, XgmiInv
  <2>2. UNION groups = {c \in DOMAIN adjacency : adjacency[c] # {}}
    BY <1>1, <2>1, FinishedAreComponents DEF Components
  <2>3. IsDomains(machine, FabricDomains(groups, found), found)
    BY <1>1, <2>1, <2>2, GroupsAreDomains
  <2> QED
    BY <1>1, <2>3
<1>3. IsDomains(machine, domains, found)'
  BY <1>1, <1>2
<1>4. Links'
  BY <1>1 DEF NoGroups, Links
<1> QED
  BY <1>1, <1>3, <1>4, NothingGroupedNext DEF GroupInv, NoGroups, Idle

LEMMA KillKeepsGroups == Kill => GroupInv'
<1> SUFFICES ASSUME Kill PROVE GroupInv'
  OBVIOUS
<1>1. pc' = "down" /\ NoGroups
  BY DEF Kill
<1>2. Links'
  BY <1>1 DEF NoGroups, Links
<1> QED
  BY <1>1, <1>2, NothingGroupedNext DEF GroupInv, NoGroups, Idle

LEMMA GroupInvStep == GroupInv /\ VerdictInv /\ VerdictInv' /\ [Next]_vars => GroupInv'
<1> SUFFICES ASSUME GroupInv, VerdictInv, VerdictInv', [Next]_vars PROVE GroupInv'
  OBVIOUS
<1>1. CASE \/ StartCycle \/ RunOneCheck \/ NextCheck \/ Report \/ Listen \/ Build
           \/ ConditionChanges \/ Probed \/ Tick \/ WindowPasses \/ UNCHANGED vars
  <2>1. UNCHANGED <<machine, found, xgmiVars>>
    BY <1>1 DEF StartCycle, RunOneCheck, NextCheck, Report, Listen, Build, ConditionChanges, Probed,
                Tick, WindowPasses, vars, worldVars, bootVars
  <2>2. \/ UNCHANGED <<domains, pc>>
        \/ pc \notin {"group", "listen"} /\ pc' \notin {"group", "listen"}
        \/ pc = "listen" /\ pc' = "sleep"
    BY <1>1 DEF StartCycle, RunOneCheck, NextCheck, Report, Listen, Build, ConditionChanges, Probed,
                Tick, WindowPasses, vars, worldVars, bootVars
  <2>3. CASE UNCHANGED <<domains, pc>>
    BY <2>1, <2>3, SameGroups
  <2>4. CASE pc # "group" /\ pc' \notin {"group", "listen"}
    BY <2>1, <2>4, XgmiInvStep DEF GroupInv, xgmiVars, Idle
  <2> QED
    BY <2>2, <2>3, <2>4
<1> QED
  BY <1>1, BootKeepsGroups, GroupKeepsGroups, PlaceKeepsGroups, KillKeepsGroups DEF Next

-----------------------------------------------------------------------------
(* The labels of a running daemon are made from the cards it has found,    *)
(* their domains, and chassis heard where the machine is cabled to them.   *)
IsHeard(m, H) ==
  DOMAIN H \subseteq DOMAIN m.uplinks /\ \A i \in DOMAIN H : H[i] = m.uplinks[i]

IsBase(m, b, cards) ==
  \E D, rack, H :
    /\ Published(m, b, cards, D, rack, H) /\ IsDomains(m, D, cards) /\ IsHeard(m, H)
    /\ m.rack = {} => rack = {} \/ \E r \in InferRack(H) : rack = {r}

(* The labels that a daemon has built are those of what it found and of    *)
(* the switches it heard.                                                  *)
BaseInv == IsHeard(machine, heard) /\ (Running => IsBase(machine, base, found))

(* Whatever comes after the end of a frame, a frame that is understood     *)
(* tells the chassis that the interface is cabled to.                      *)
LEMMA FrameIsOfUplink ==
  ASSUME machine \in Machines, NEW iface \in DOMAIN machine.frames,
         NEW frame \in machine.frames[iface]
  PROVE  iface \in DOMAIN machine.uplinks /\ ParseLldpdu(frame) \subseteq {machine.uplinks[iface]}
<1> DEFINE at == {i \in ReadTlvs(frame) : frame[i].type = "chassis"}
<1>1. /\ iface \in DOMAIN machine.uplinks
      /\ DOMAIN frame \subseteq Nat /\ IsFiniteSet(DOMAIN frame)
      /\ \A i \in at : frame[i].value \subseteq {machine.uplinks[iface]}
  BY FramesAssumption DEF ReadTlvs
<1>2. CASE at = {}
  BY <1>1, <1>2 DEF ParseLldpdu, LastOf
<1>3. CASE at # {}
  <2>1. at \in SUBSET Nat /\ IsFiniteSet(at)
    BY <1>1, FS_Subset DEF ReadTlvs
  <2>2. \E i \in at : \A j \in at : j <= i
    BY <1>3, <2>1, MaxOfFinite
  <2> DEFINE last == CHOOSE i \in at : \A j \in at : j <= i
  <2>3. last \in at
    BY <2>2
  <2>4. LastOf(frame, "chassis") = frame[last].value
    BY <1>3 DEF LastOf
  <2> QED
    BY <1>1, <2>3, <2>4 DEF ParseLldpdu
<1> QED
  BY <1>2, <1>3

LEMMA ListenKeepsBase == BaseInv /\ World /\ Listen => BaseInv'
<1> SUFFICES ASSUME BaseInv, World, Listen PROVE BaseInv'
  OBVIOUS
<1>1. PICK iface \in DOMAIN machine.frames : \E frame \in machine.frames[iface] :
        heard' = Hear(heard, iface, frame)
  BY DEF Listen
<1>2. PICK frame \in machine.frames[iface] : heard' = Hear(heard, iface, frame)
  BY <1>1
<1>3. iface \in DOMAIN machine.uplinks /\ ParseLldpdu(frame) \subseteq {machine.uplinks[iface]}
  BY FrameIsOfUplink DEF World
<1>4. ParseLldpdu(frame) # {} => (CHOOSE c \in ParseLldpdu(frame) : TRUE) = machine.uplinks[iface]
  BY <1>3
<1>5. /\ DOMAIN heard' = DOMAIN heard \cup {k \in {iface} : ParseLldpdu(frame) # {}}
      /\ \A i \in DOMAIN heard' :
           heard'[i] = IF i = iface /\ ParseLldpdu(frame) # {}
                         THEN CHOOSE c \in ParseLldpdu(frame) : TRUE ELSE heard[i]
  BY <1>2 DEF Hear
<1>6. machine' = machine /\ ~Running'
  BY DEF Listen, worldVars, Running
<1>7. IsHeard(machine, heard')
  BY <1>3, <1>4, <1>5 DEF BaseInv, IsHeard
<1> QED
  BY <1>6, <1>7 DEF BaseInv

LEMMA BuildKeepsBase == BaseInv /\ GroupInv /\ Build => BaseInv'
<1> SUFFICES ASSUME BaseInv, GroupInv, Build PROVE BaseInv'
  OBVIOUS
<1>1. pc = "listen" /\ UNCHANGED <<machine, found>> /\ heard' = <<>>
  BY DEF Build, worldVars
<1> DEFINE inferred == IF machine.rack = {} THEN InferRack(heard) ELSE machine.rack
<1>2. PICK rack \in IF inferred = {} THEN {{}} ELSE {{r} : r \in inferred} :
        base' = BaseOf(machine, found, domains, rack, heard)
  BY DEF Build, BaseOf
<1>3. machine.rack = {} => rack = {} \/ \E r \in InferRack(heard) : rack = {r}
  OBVIOUS
<1>4. IsDomains(machine, domains, found) /\ IsHeard(machine, heard)
  BY <1>1 DEF GroupInv, BaseInv
<1>5. Published(machine, base', found, domains, rack, heard)
  BY <1>2, BuildPublishes
<1>6. IsBase(machine, base', found)
  BY <1>3, <1>4, <1>5 DEF IsBase
<1>7. IsHeard(machine, heard')
  BY <1>1 DEF IsHeard
<1> QED
  BY <1>1, <1>6, <1>7 DEF BaseInv

LEMMA BaseInvInit == Init => BaseInv
BY DEF Init, BaseInv, IsHeard, Running

LEMMA BaseInvStep == BaseInv /\ World /\ GroupInv /\ [Next]_vars => BaseInv'
<1> SUFFICES ASSUME BaseInv, World, GroupInv, [Next]_vars PROVE BaseInv'
  OBVIOUS
<1>1. CASE Boot \/ Group \/ Place
  BY <1>1 DEF Boot, Group, Place, worldVars, bootVars, BaseInv, Running
<1>2. CASE Kill
  BY <1>2 DEF Kill, NoFacts, BaseInv, IsHeard, Running
<1>3. CASE \/ StartCycle \/ RunOneCheck \/ NextCheck \/ Report \/ ConditionChanges \/ Probed
           \/ Tick \/ WindowPasses \/ UNCHANGED vars
  <2>1. UNCHANGED <<machine, found, heard, base>>
    BY <1>3 DEF StartCycle, RunOneCheck, NextCheck, Report, ConditionChanges, Probed, Tick,
                WindowPasses, vars, worldVars, bootVars
  <2>2. Running' => Running
    BY <1>3 DEF StartCycle, RunOneCheck, NextCheck, Report, ConditionChanges, Probed, Tick,
                WindowPasses, vars, worldVars, bootVars, Running
  <2> QED
    BY <2>1, <2>2 DEF BaseInv
<1> QED
  BY <1>1, <1>2, <1>3, ListenKeepsBase, BuildKeepsBase DEF Next

LEMMA BaseInvariant == Spec => [](World /\ GroupInv /\ BaseInv)
<1>1. VerdictInv => World
  BY DEF VerdictInv
<1> QED
  BY <1>1, VerdictInvInit, VerdictInvStep, GroupInvInit, GroupInvStep, BaseInvInit, BaseInvStep, PTL
  DEF Spec

-----------------------------------------------------------------------------
(* The groups of every daemon, of one too that was killed in the middle of *)
(* a search and started again, are the connected components of its cards.  *)
THEOREM DaemonGroupsComponents == Spec => []Components
<1>1. GroupInv => Components
  BY FinishedAreComponents DEF GroupInv
<1> QED
  BY <1>1, BaseInvariant, PTL

-----------------------------------------------------------------------------
(* Whatever frames arrive in whatever order, damaged or not, a rack that   *)
(* was not configured is that of a switch the machine is cabled to, and of *)
(* one with most uplinks if discover heard of all.                         *)
THEOREM RackIsHonest == Spec => []RackIsUplink
<1>1. BaseInv => RackIsUplink
  <2> SUFFICES ASSUME BaseInv, Running, machine.rack = {}, <<"rack">> \in DOMAIN base
               PROVE  LET cabled == machine.uplinks
                          all == DOMAIN base[<<"lldp-neighbors">>] = DOMAIN cabled
                      IN \E i \in DOMAIN cabled :
                           /\ base[<<"rack">>] = RackSlug[cabled[i]]
                           /\ all => \A j \in DOMAIN cabled :
                                       Uplinks(cabled, cabled[j]) <= Uplinks(cabled, cabled[i])
    BY DEF RackIsUplink
  <2>1. PICK D, rack, H :
          /\ Published(machine, base, found, D, rack, H) /\ IsHeard(machine, H)
          /\ machine.rack = {} => rack = {} \/ \E r \in InferRack(H) : rack = {r}
    BY DEF BaseInv, IsBase
  <2>2. rack # {} /\ base[<<"rack">>] \in rack
    BY <2>1 DEF Published
  <2>3. base[<<"rack">>] \in InferRack(H)
    BY <2>1, <2>2
  <2>4. PICK i \in DOMAIN H : /\ base[<<"rack">>] = RackSlug[H[i]]
                              /\ \A e \in Range(H) : Uplinks(H, e) <= Uplinks(H, H[i])
    BY <2>3 DEF InferRack, Range
  <2>5. base[<<"lldp-neighbors">>] = H
    BY <2>1, <2>4 DEF Published
  <2>6. DOMAIN H \subseteq DOMAIN machine.uplinks /\ \A j \in DOMAIN H : H[j] = machine.uplinks[j]
    BY <2>1 DEF IsHeard
  <2>7. ASSUME DOMAIN H = DOMAIN machine.uplinks, NEW j \in DOMAIN machine.uplinks
        PROVE  Uplinks(machine.uplinks, machine.uplinks[j]) <= Uplinks(machine.uplinks, machine.uplinks[i])
    <3>1. \A c : {k \in DOMAIN H : H[k] = c} = {k \in DOMAIN machine.uplinks : machine.uplinks[k] = c}
      BY <2>6, <2>7
    <3>2. \A c : Uplinks(H, c) = Uplinks(machine.uplinks, c)
      BY <3>1 DEF Uplinks
    <3>3. H[j] \in Range(H) /\ H[j] = machine.uplinks[j] /\ H[i] = machine.uplinks[i]
      BY <2>6, <2>7 DEF Range
    <3> QED
      BY <2>4, <3>2, <3>3
  <2> QED
    BY <2>4, <2>5, <2>6, <2>7
<1> QED
  BY <1>1, BaseInvariant, PTL

-----------------------------------------------------------------------------
(* What the labeler leaves on a node: the managed keys of the last patch,  *)
(* and the keys of others as they were.                                    *)
LEMMA MergeEffect ==
  ASSUME NEW nd, NEW want, \A k \in DOMAIN want : IsManaged(k)
  PROVE  LET managed == ManagedIn(nd) \cup DOMAIN want
             new == Labeler(managed)!Merge(nd, Labeler(managed)!MergedSection(nd, want))
         IN /\ \A k : k \in DOMAIN new <=> \/ k \in DOMAIN want /\ want[k] # Null
                                           \/ k \in DOMAIN nd /\ ~IsManaged(k)
            /\ \A k \in DOMAIN new : new[k] = IF k \in DOMAIN want THEN want[k] ELSE nd[k]
<1> DEFINE managed == ManagedIn(nd) \cup DOMAIN want
           patch == Labeler(managed)!MergedSection(nd, want)
           new == Labeler(managed)!Merge(nd, patch)
<1>1. /\ DOMAIN patch = (DOMAIN nd \cap managed) \cup DOMAIN want
      /\ \A k \in DOMAIN patch : patch[k] = IF k \in DOMAIN want THEN want[k] ELSE Null
  BY DEF Labeler!MergedSection
<1>2. /\ DOMAIN new = {k \in DOMAIN nd \cup DOMAIN patch : k \in DOMAIN patch => patch[k] # Null}
      /\ \A k \in DOMAIN new : new[k] = IF k \in DOMAIN patch THEN patch[k] ELSE nd[k]
  <2> HIDE DEF patch
  <2> QED
    BY DEF Labeler!Merge, Labeler!Kept
<1>3. \A k \in DOMAIN nd : k \in managed <=> IsManaged(k) \/ k \in DOMAIN want
  BY DEF ManagedIn
<1> HIDE DEF managed, patch, new
<1>4. \A k : k \in DOMAIN new <=> \/ k \in DOMAIN want /\ want[k] # Null
                                  \/ k \in DOMAIN nd /\ ~IsManaged(k)
  BY <1>1, <1>2, <1>3
<1>5. \A k \in DOMAIN new : new[k] = IF k \in DOMAIN want THEN want[k] ELSE nd[k]
  BY <1>1, <1>2, <1>3, <1>4
<1> QED
  BY <1>4, <1>5 DEF new, patch, managed

(* What a cycle wants on the node.                                         *)
IsWanted(want, b, verdict, reasons) ==
  /\ DOMAIN want = DOMAIN b \cup {<<"inference">>, <<"training">>}
                     \cup {k \in {<<"failed">>} : reasons # {}}
  /\ \A k \in DOMAIN b : want[k] = b[k]
  /\ want[<<"inference">>] = verdict
  /\ reasons # {} => want[<<"failed">>] = reasons

LEMMA DesiredIsWanted ==
  ASSUME IsBase(machine, base, found)
  PROVE  /\ IsWanted(Desired, base, Aggregate(outcomes), failed)
         /\ \A k \in DOMAIN Desired : IsManaged(k)
<1> DEFINE verdict == Aggregate(outcomes)
           f1 == Label(<<"inference">>, verdict)
           f2 == Label(<<"training">>, verdict)
           f3 == Given(<<"failed">>, {failed} \ {{}})
           parts == {base, f1, f2, f3}
<1>1. Desired = AllOf(parts)
  BY DEF Desired
<1>2. /\ {<<"inference">>, <<"training">>, <<"failed">>} \cap DOMAIN base = {}
      /\ \A k \in DOMAIN base : IsManaged(k)
  BY DEF IsBase, Published
<1>3. /\ DOMAIN f1 = {<<"inference">>} /\ f1[<<"inference">>] = verdict
      /\ DOMAIN f2 = {<<"training">>}
  BY LabelLookup
<1>4. /\ \A k \in DOMAIN f3 : k = <<"failed">>
      /\ <<"failed">> \in DOMAIN f3 <=> failed # {}
      /\ failed # {} => f3[<<"failed">>] = failed
  <2>1. {failed} \ {{}} # {} <=> failed # {}
    OBVIOUS
  <2> QED
    BY <2>1, GivenLookup
<1>5. /\ <<"inference">> # <<"training">> /\ <<"failed">> # <<"inference">> /\ <<"failed">> # <<"training">>
      /\ IsManaged(<<"inference">>) /\ IsManaged(<<"training">>) /\ IsManaged(<<"failed">>)
  BY OneKey
<1> HIDE DEF f1, f2, f3, verdict
<1>6. ASSUME NEW p \in parts, NEW k \in DOMAIN p
      PROVE  k \in DOMAIN Desired /\ Desired[k] = p[k]
  <2>1. \A q \in parts : k \in DOMAIN q => q = p
    BY <1>2, <1>3, <1>4, <1>5, <1>6
  <2> HIDE DEF parts
  <2> QED
    BY <1>1, <1>6, <2>1, AllOfLookup
<1>7. \A k : k \in DOMAIN Desired <=> \E p \in parts : k \in DOMAIN p
  <2> HIDE DEF parts
  <2> QED
    BY <1>1, AllOfKeys
<1>8. DOMAIN Desired = DOMAIN base \cup {<<"inference">>, <<"training">>}
                         \cup {k \in {<<"failed">>} : failed # {}}
  BY <1>3, <1>4, <1>7
<1>9. /\ \A k \in DOMAIN base : Desired[k] = base[k]
      /\ Desired[<<"inference">>] = verdict
      /\ failed # {} => Desired[<<"failed">>] = failed
  BY <1>3, <1>4, <1>6
<1>10. \A k \in DOMAIN Desired : IsManaged(k)
  BY <1>2, <1>5, <1>8
<1> QED
  BY <1>8, <1>9, <1>10 DEF IsWanted, verdict

(* A node tells what a daemon that had found these cards wanted last, after*)
(* a cycle that came to this.                                              *)
IsTold(m, nd, cards, cycle) ==
  \E b, want :
    /\ IsBase(m, b, cards) /\ IsWanted(want, b, cycle.verdict, cycle.reasons)
    /\ cycle.verdict \in {"degraded", "true", "unknown"}
    /\ cycle.reasons \subseteq Range(Registry) \X (Cards \cup {"host"})
    /\ \A k \in DOMAIN want : want[k] # Null => k \in DOMAIN nd /\ nd[k] = want[k]
    /\ \A k \in DOMAIN nd : IsManaged(k) => k \in DOMAIN want

(* What the prober told of a scope stands beside it.                       *)
ScopeTold(nd, scope, verdict) ==
  IF verdict = Null
    THEN \A name \in {"at", "partner", "verdict", "bw"} : Value(nd, <<scope, name>>) = Null
    ELSE /\ Value(nd, <<scope, "at">>) = 1 /\ Value(nd, <<scope, "verdict">>) = verdict.kind
         /\ HasFigure(verdict) => Value(nd, <<scope, "bw">>) = verdict.bw

(* What a node tells of the last daemon that patched it and of the prober. *)
NodeInv ==
  /\ DOMAIN probes = {"rack", "loopback"}
  /\ \A scope \in DOMAIN probes :
       /\ probes[scope] \in machine.verdicts \cup {Null}
       /\ ScopeTold(node, scope, probes[scope])
  /\ failed \subseteq Range(Registry) \X (Cards \cup {"host"})
  /\ IF shown = Null THEN ManagedIn(node) = {}
     ELSE shown \subseteq DOMAIN machine.cards /\ IsTold(machine, node, shown, told)

LEMMA NodeInvInit == Init => NodeInv
<1> SUFFICES ASSUME Init PROVE NodeInv
  OBVIOUS
<1>1. /\ node = <<>> /\ shown = Null /\ failed = {}
      /\ probes = [scope \in {"rack", "loopback"} |-> Null]
  BY DEF Init
<1>2. DOMAIN node = {}
  BY <1>1
<1> QED
  BY <1>1, <1>2 DEF NodeInv, ScopeTold, Value, ManagedIn

LEMMA ReportKeepsNode == NodeInv /\ VerdictInv /\ BaseInv /\ Report => NodeInv'
<1> SUFFICES ASSUME NodeInv, VerdictInv, BaseInv, Report PROVE NodeInv'
  OBVIOUS
<1>1. pc = "report" /\ UNCHANGED <<machine, probes>> /\ failed' = {}
  BY DEF Report, worldVars, NoCycle
<1>2. CASE UNCHANGED <<node, shown, told>>
  BY <1>1, <1>2 DEF NodeInv, ManagedIn
<1>3. CASE /\ node' = LET managed == ManagedIn(node) \cup DOMAIN Desired
                      IN Labeler(managed)!Merge(node, Labeler(managed)!MergedSection(node, Desired))
           /\ shown' = found /\ told' = [verdict |-> Aggregate(outcomes), reasons |-> failed]
  <2>1. IsBase(machine, base, found)
    BY <1>1 DEF BaseInv, Running
  <2>2. /\ IsWanted(Desired, base, Aggregate(outcomes), failed)
        /\ \A k \in DOMAIN Desired : IsManaged(k)
    BY <2>1, DesiredIsWanted
  <2>3. /\ \A k : k \in DOMAIN node' <=> \/ k \in DOMAIN Desired /\ Desired[k] # Null
                                         \/ k \in DOMAIN node /\ ~IsManaged(k)
        /\ \A k \in DOMAIN node' : node'[k] = IF k \in DOMAIN Desired THEN Desired[k] ELSE node[k]
    <3> DEFINE want == Desired
    <3>1. \A k \in DOMAIN want : IsManaged(k)
      BY <2>2
    <3>2. node' = LET managed == ManagedIn(node) \cup DOMAIN want
                  IN Labeler(managed)!Merge(node, Labeler(managed)!MergedSection(node, want))
      BY <1>3
    <3> HIDE DEF want
    <3>3. /\ \A k : k \in DOMAIN node' <=> \/ k \in DOMAIN want /\ want[k] # Null
                                           \/ k \in DOMAIN node /\ ~IsManaged(k)
          /\ \A k \in DOMAIN node' : node'[k] = IF k \in DOMAIN want THEN want[k] ELSE node[k]
      BY <3>1, <3>2, MergeEffect
    <3> QED
      BY <3>3 DEF want
  <2>4. Aggregate(outcomes) \in {"degraded", "true", "unknown"}
    BY DEF Aggregate
  <2>5. IsTold(machine, node', found, told')
    <3> DEFINE want == Desired
    <3>0. told'.verdict = Aggregate(outcomes) /\ told'.reasons = failed
      BY <1>3
    <3>1. \A k \in DOMAIN want : want[k] # Null => k \in DOMAIN node' /\ node'[k] = want[k]
      BY <2>3
    <3>2. \A k \in DOMAIN node' : IsManaged(k) => k \in DOMAIN want
      BY <2>3
    <3>3. failed \subseteq Range(Registry) \X (Cards \cup {"host"})
      BY DEF NodeInv
    <3>4. /\ IsWanted(want, base, told'.verdict, told'.reasons)
          /\ told'.verdict \in {"degraded", "true", "unknown"}
      BY <2>2, <2>4, <3>0
    <3> HIDE DEF want
    <3> QED
      BY <2>1, <3>0, <3>1, <3>2, <3>3, <3>4 DEF IsTold
  <2>6. found \subseteq DOMAIN machine.cards /\ found # Null
    BY MachinesAssumption, MissingAssumption DEF VerdictInv, World
  <2>7. ASSUME NEW scope \in DOMAIN probes, NEW name
        PROVE  Value(node', <<scope, name>>) = Value(node, <<scope, name>>)
    <3>1. ~IsManaged(<<scope, name>>)
      BY TwoKey DEF NodeInv
    <3>2. <<scope, name>> \notin DOMAIN Desired
      BY <2>2, <3>1
    <3> QED
      BY <2>3, <3>1, <3>2 DEF Value
  <2>8. \A scope \in DOMAIN probes : ScopeTold(node', scope, probes[scope])
    BY <2>7 DEF NodeInv, ScopeTold
  <2>9. /\ DOMAIN probes = {"rack", "loopback"}
        /\ \A scope \in DOMAIN probes : probes[scope] \in machine.verdicts \cup {Null}
    BY DEF NodeInv
  <2> QED
    BY <1>1, <1>3, <2>5, <2>6, <2>8, <2>9 DEF NodeInv
<1> QED
  BY <1>2, <1>3 DEF Report

(* The prober's patch touches the keys of one scope and nobody else's.     *)
IsPatched(new, nd, scope, v) ==
  /\ \A k : (\A name : k # <<scope, name>>)
              => (k \in DOMAIN new <=> k \in DOMAIN nd) /\ (k \in DOMAIN nd => new[k] = nd[k])
  /\ Value(new, <<scope, "at">>) = 1
  /\ Value(new, <<scope, "verdict">>) = v.kind
  /\ HasFigure(v) => Value(new, <<scope, "bw">>) = v.bw

LEMMA PatchEffect ==
  ASSUME NEW nd, NEW scope, NEW v
  PROVE  IsPatched(Patch!Merge(nd, BuildBody(scope, "peer", 1, v)), nd, scope, v)
<1> DEFINE body == BuildBody(scope, "peer", 1, v)
           names == BodyNames(scope, v)
           new == Patch!Merge(nd, body)
<1>1. /\ DOMAIN body = {scope} \X names
      /\ \A k \in DOMAIN body : \E name : k = <<scope, name>>
  BY DEF BuildBody
<1>2. /\ body[<<scope, "at">>] = 1 /\ body[<<scope, "verdict">>] = v.kind
      /\ "bw" \in names => body[<<scope, "bw">>] = v.bw
      /\ "at" \in names /\ "verdict" \in names /\ (HasFigure(v) => "bw" \in names)
  BY DEF BuildBody, BodyNames, HasFigure
<1>3. \A name \in names : <<scope, name>> \in DOMAIN body
  BY <1>1
<1> HIDE DEF body
<1>4. /\ DOMAIN new = {k \in DOMAIN nd \cup DOMAIN body : k \in DOMAIN body => body[k] # Null}
      /\ \A k \in DOMAIN new : new[k] = IF k \in DOMAIN body THEN body[k] ELSE nd[k]
  BY DEF Patch!Merge, Patch!Kept
<1> HIDE DEF new, names
<1>5. ASSUME NEW k, \A name : k # <<scope, name>>
      PROVE  (k \in DOMAIN new <=> k \in DOMAIN nd) /\ (k \in DOMAIN nd => new[k] = nd[k])
  BY <1>1, <1>4, <1>5
<1>6. ASSUME NEW name \in names PROVE Value(new, <<scope, name>>) = body[<<scope, name>>]
  BY <1>3, <1>4 DEF Value
<1> QED
  BY <1>2, <1>5, <1>6 DEF new, body, IsPatched

LEMMA ProbedKeepsNode == NodeInv /\ World /\ Probed => NodeInv'
<1> SUFFICES ASSUME NodeInv, World, Probed PROVE NodeInv'
  OBVIOUS
<1>1. UNCHANGED <<machine, shown, told, failed>>
  BY DEF Probed, worldVars, cycleVars
<1>2. PICK scope \in DOMAIN probes, v \in machine.verdicts :
        /\ node' = Patch!Merge(node, BuildBody(scope, "peer", 1, v))
        /\ probes' = [probes EXCEPT ![scope] = v]
  BY DEF Probed
<1>3. DOMAIN probes = {"rack", "loopback"} /\ scope \in {"rack", "loopback"}
  BY DEF NodeInv
<1>4. v # Null /\ v.kind \in {"ok", "fail", "timeout"} /\ (v.kind # "ok" => v.bw = Null)
  BY VerdictsAssumption DEF World
<1>5. IsPatched(node', node, scope, v)
  BY <1>2, PatchEffect
<1>6. ASSUME NEW other \in DOMAIN probes \ {scope} PROVE ScopeTold(node', other, probes[other])
  <2>1. \A name : Value(node', <<other, name>>) = Value(node, <<other, name>>)
    <3>1. \A n, name : <<other, n>> # <<scope, name>>
      BY <1>6
    <3> QED
      BY <1>5, <3>1 DEF IsPatched, Value
  <2> QED
    BY <2>1 DEF NodeInv, ScopeTold
<1>7. ScopeTold(node', scope, v)
  BY <1>4, <1>5 DEF IsPatched, ScopeTold
<1>8. /\ DOMAIN probes' = {"rack", "loopback"}
      /\ \A s \in DOMAIN probes' : /\ probes'[s] \in machine.verdicts \cup {Null}
                                   /\ ScopeTold(node', s, probes'[s])
  BY <1>2, <1>3, <1>6, <1>7 DEF NodeInv
<1>9. \A k : IsManaged(k) => /\ k \in DOMAIN node' <=> k \in DOMAIN node
                             /\ k \in DOMAIN node => node'[k] = node[k]
  <2>1. \A name : ~IsManaged(<<scope, name>>)
    BY <1>3, TwoKey
  <2> QED
    BY <1>5, <2>1 DEF IsPatched
<1>10. CASE shown = Null
  <2>1. ManagedIn(node') = {}
    BY <1>9, <1>10 DEF NodeInv, ManagedIn
  <2> QED
    BY <1>1, <1>8, <1>10, <2>1 DEF NodeInv
<1>11. CASE shown # Null
  <2>1. PICK b, want :
          /\ IsBase(machine, b, shown) /\ IsWanted(want, b, told.verdict, told.reasons)
          /\ told.verdict \in {"degraded", "true", "unknown"}
          /\ told.reasons \subseteq Range(Registry) \X (Cards \cup {"host"})
          /\ \A k \in DOMAIN want : want[k] # Null => k \in DOMAIN node /\ node[k] = want[k]
          /\ \A k \in DOMAIN node : IsManaged(k) => k \in DOMAIN want
    BY <1>11 DEF NodeInv, IsTold
  <2>2. \A k \in DOMAIN want : IsManaged(k)
    BY <2>1, OneKey DEF IsWanted, IsBase, Published
  <2>3. IsTold(machine, node', shown, told)
    BY <1>9, <2>1, <2>2 DEF IsTold
  <2> QED
    BY <1>1, <1>8, <1>11, <2>3 DEF NodeInv
<1> QED
  BY <1>10, <1>11

LEMMA RunOneCheckKeepsNode == NodeInv /\ VerdictInv /\ RunOneCheck => NodeInv'
<1> SUFFICES ASSUME NodeInv, VerdictInv, RunOneCheck PROVE NodeInv'
  OBVIOUS
<1>1. UNCHANGED <<machine, node, shown, told, probes>> /\ pc = "check"
  BY DEF RunOneCheck, worldVars, nodeVars
<1>2. PICK s \in left : failed' \subseteq failed \cup {<<Registry[check], s>>}
  BY DEF RunOneCheck
<1>3. check \in DOMAIN Registry /\ s \in Subjects(Registry[check])
  BY <1>1 DEF VerdictInv, Cycle
<1>4. Registry[check] \in Range(Registry) /\ s \in Cards \cup {"host"}
  BY <1>3, MachinesAssumption DEF Range, Subjects, VerdictInv, World
<1>5. failed' \subseteq Range(Registry) \X (Cards \cup {"host"})
  BY <1>2, <1>4 DEF NodeInv
<1> QED
  BY <1>1, <1>5 DEF NodeInv, ManagedIn

LEMMA NodeInvStep == NodeInv /\ VerdictInv /\ BaseInv /\ [Next]_vars => NodeInv'
<1> SUFFICES ASSUME NodeInv, VerdictInv, BaseInv, [Next]_vars PROVE NodeInv'
  OBVIOUS
<1>1. CASE \/ Boot \/ Group \/ Place \/ Listen \/ Build \/ StartCycle \/ NextCheck \/ Kill
           \/ ConditionChanges \/ Tick \/ WindowPasses \/ UNCHANGED vars
  <2>1. UNCHANGED <<machine, node, shown, told, probes>>
    BY <1>1 DEF Boot, Group, Place, Listen, Build, StartCycle, NextCheck, Kill, ConditionChanges,
                Tick, WindowPasses, vars, worldVars, nodeVars
  <2>2. failed' = failed \/ failed' = {}
    BY <1>1 DEF Boot, Group, Place, Listen, Build, StartCycle, NextCheck, Kill, ConditionChanges,
                Tick, WindowPasses, vars, cycleVars, NoCycle
  <2> QED
    BY <2>1, <2>2 DEF NodeInv, ManagedIn
<1> QED
  BY <1>1, ReportKeepsNode, ProbedKeepsNode, RunOneCheckKeepsNode DEF Next, VerdictInv

LEMMA NodeInvariant == Spec => [](World /\ NodeInv)
<1>1. VerdictInv => World
  BY DEF VerdictInv
<1> QED
  BY <1>1, VerdictInvInit, VerdictInvStep, GroupInvInit, GroupInvStep, BaseInvInit, BaseInvStep,
     NodeInvInit, NodeInvStep, PTL DEF Spec

-----------------------------------------------------------------------------
LEMMA RecordFields ==
  ASSUME NEW nd, NEW scope
  PROVE  /\ \A name \in {"at", "partner", "verdict", "reason", "bw", "device"} :
              Record(nd, scope)[name] = Value(nd, <<scope, name>>)
         /\ IsEmpty(Record(nd, scope)) <=>
              \A name \in {"at", "partner", "verdict", "bw"} : Value(nd, <<scope, name>>) = Null
BY DEF Record, IsEmpty

(* The console finds what the prober told of a scope, or nothing.          *)
LEMMA ScopeIsRead ==
  ASSUME NEW nd, NEW scope, NEW v, ScopeTold(nd, scope, v)
  PROVE  /\ IsEmpty(Record(nd, scope)) <=> v = Null
         /\ v # Null => /\ Read(nd, scope).verdict = v.kind
                        /\ HasFigure(v) => Read(nd, scope).bw = v.bw
<1>1. CASE v = Null
  BY <1>1, RecordFields DEF ScopeTold
<1>2. CASE v # Null
  <2>1. Value(nd, <<scope, "at">>) # Null
    <3>1. 1 \in Nat /\ Null \notin Nat
      BY MissingAssumption
    <3> QED
      BY <1>2, <3>1 DEF ScopeTold
  <2>2. ~IsEmpty(Record(nd, scope))
    BY <2>1, RecordFields
  <2>3. Read(nd, scope) = Record(nd, scope)
    BY <2>2 DEF Read
  <2> QED
    BY <1>2, <2>2, <2>3, RecordFields DEF ScopeTold
<1> QED
  BY <1>1, <1>2

(* What the console makes of the outcome of a cycle.                       *)
ViewOf(cycle) ==
  [verdict |-> IF cycle.verdict = "true" THEN "ok" ELSE cycle.verdict,
   reason  |-> IF cycle.reasons = {} THEN Null ELSE cycle.reasons,
   bw      |-> Null,
   source  |-> "preflight"]

(* The outcome of a cycle, read back from a node that tells it.            *)
LEMMA ChecksAreRead ==
  ASSUME NEW cards, NEW cycle, IsTold(machine, node, cards, cycle),
         Null \notin SUBSET (Range(Registry) \X (Cards \cup {"host"}))
  PROVE  IsChecked(node) /\ ReadPreflight(node) = ViewOf(cycle)
<1> DEFINE verdict == cycle.verdict
           reasons == cycle.reasons
<1>1. PICK b, want :
        /\ IsBase(machine, b, cards) /\ IsWanted(want, b, verdict, reasons)
        /\ verdict \in {"degraded", "true", "unknown"}
        /\ reasons \subseteq Range(Registry) \X (Cards \cup {"host"})
        /\ \A k \in DOMAIN want : want[k] # Null => k \in DOMAIN node /\ node[k] = want[k]
        /\ \A k \in DOMAIN node : IsManaged(k) => k \in DOMAIN want
  BY DEF IsTold
<1>2. <<"failed">> \notin DOMAIN b
  BY <1>1 DEF IsBase, Published
<1>3. <<"inference">> \in DOMAIN node /\ node[<<"inference">>] = verdict
  <2>1. verdict # Null
    BY <1>1, MissingAssumption
  <2> QED
    BY <1>1, <2>1 DEF IsWanted
<1>4. Value(node, <<"failed">>) = IF reasons = {} THEN Null ELSE reasons
  <2>1. CASE reasons = {}
    <3>1. <<"failed">> # <<"inference">> /\ <<"failed">> # <<"training">> /\ IsManaged(<<"failed">>)
      BY OneKey
    <3>2. <<"failed">> \notin DOMAIN want
      BY <1>1, <1>2, <2>1, <3>1 DEF IsWanted
    <3> QED
      BY <1>1, <2>1, <3>1, <3>2 DEF Value
  <2>2. CASE reasons # {}
    <3>1. <<"failed">> \in DOMAIN want /\ want[<<"failed">>] = reasons /\ reasons # Null
      BY <1>1, <2>2 DEF IsWanted
    <3> QED
      BY <1>1, <2>2, <3>1 DEF Value
  <2> QED
    BY <2>1, <2>2
<1>5. (CASE verdict = "true"  -> "ok"
         [] verdict = "false" -> "fail"
         [] OTHER             -> verdict) = IF verdict = "true" THEN "ok" ELSE verdict
  BY <1>1
<1> HIDE DEF verdict, reasons
<1>6. ReadPreflight(node) = [verdict |-> IF verdict = "true" THEN "ok" ELSE verdict,
                              reason  |-> IF reasons = {} THEN Null ELSE reasons,
                              bw      |-> Null,
                              source  |-> "preflight"]
  BY <1>3, <1>4, <1>5 DEF ReadPreflight
<1> QED
  BY <1>3, <1>6 DEF IsChecked, ViewOf, verdict, reasons

(* The console shows the prober's last verdict of a pair, or else of a     *)
(* loopback, with its figure; on a node without either, the verdict and    *)
(* the reasons of the one cycle of checks whose patch came last.  The      *)
(* hypothesis: JSON null is not a set of failed checks.                    *)
THEOREM ConsoleTellsVerdict ==
  ASSUME Null \notin SUBSET (Range(Registry) \X (Cards \cup {"host"}))
  PROVE  Spec => []ConsoleVerdict
<1>1. World /\ NodeInv => ConsoleVerdict
  <2> SUFFICES ASSUME World, NodeInv PROVE ConsoleVerdict
    OBVIOUS
  <2> DEFINE view == ResolveVerdict(node)
             scope == IF probes["rack"] # Null THEN "rack" ELSE "loopback"
  <2>1. "rack" # Null /\ "loopback" # Null /\ "preflight" # Null
    BY MissingAssumption
  <2>2. ScopeTold(node, "rack", probes["rack"]) /\ ScopeTold(node, "loopback", probes["loopback"])
    BY DEF NodeInv
  <2>3. /\ IsEmpty(Record(node, "rack")) <=> probes["rack"] = Null
        /\ IsEmpty(Record(node, "loopback")) <=> probes["loopback"] = Null
    BY <2>2, ScopeIsRead
  <2>4. CASE probes[scope] # Null
    <3>1. Source(node, IsChecked(node)) = scope
      BY <2>3, <2>4 DEF Source
    <3>2. /\ view.source = scope /\ view.verdict = Read(node, scope).verdict
          /\ view.bw = Read(node, scope).bw
      BY <2>1, <3>1 DEF ResolveVerdict
    <3>3. ScopeTold(node, scope, probes[scope])
      BY <2>2
    <3>4. /\ Read(node, scope).verdict = probes[scope].kind
          /\ HasFigure(probes[scope]) => Read(node, scope).bw = probes[scope].bw
      BY <2>4, <3>3, ScopeIsRead
    <3> QED
      BY <2>4, <3>2, <3>4 DEF ConsoleVerdict
  <2>5. CASE probes[scope] = Null
    <3>1. Source(node, IsChecked(node)) = IF IsChecked(node) THEN "preflight" ELSE Null
      BY <2>3, <2>5 DEF Source
    <3>2. CASE shown = Null
      <4>1. ~IsChecked(node)
        BY <3>2, OneKey DEF NodeInv, IsChecked, ManagedIn
      <4>2. Source(node, IsChecked(node)) = Null
        BY <3>1, <4>1
      <4>3. view = Null
        BY <2>1, <4>2 DEF ResolveVerdict
      <4> QED
        BY <2>5, <3>2, <4>3 DEF ConsoleVerdict
    <3>3. CASE shown # Null
      <4>1. IsChecked(node) /\ ReadPreflight(node) = ViewOf(told)
        BY <3>3, ChecksAreRead DEF NodeInv
      <4>2. view = ViewOf(told)
        BY <2>1, <3>1, <4>1 DEF ResolveVerdict
      <4> QED
        BY <2>5, <3>3, <4>2 DEF ConsoleVerdict, ViewOf
    <3> QED
      BY <3>2, <3>3
  <2> QED
    BY <2>4, <2>5
<1> QED
  BY <1>1, NodeInvariant, PTL

-----------------------------------------------------------------------------
(* Reading back the counts that a label set has.                           *)
HasCounts(m, labels, prefix, cards) ==
  /\ CountKeys(labels, prefix) = {<<prefix, KeyOf(m, prefix, c), "count">> : c \in cards}
  /\ \A c \in cards : labels[<<prefix, KeyOf(m, prefix, c), "count">>] =
                        Cardinality({d \in cards : KeyOf(m, prefix, d) = KeyOf(m, prefix, c)})

CountsOf(m, prefix, cards) ==
  [key \in {KeyOf(m, prefix, c) : c \in cards} |-> Cardinality({d \in cards : KeyOf(m, prefix, d) = key})]

LEMMA CountsAreRead ==
  ASSUME NEW m, NEW labels, NEW prefix, NEW cards, HasCounts(m, labels, prefix, cards)
  PROVE  ParseCounts(labels, prefix) = CountsOf(m, prefix, cards)
<1> DEFINE key(c) == KeyOf(m, prefix, c)
           read == ParseCounts(labels, prefix)
<1>1. read = [name \in {k[2] : k \in CountKeys(labels, prefix)} |-> labels[<<prefix, name, "count">>]]
  BY DEF ParseCounts, CountKeys
<1>2. {k[2] : k \in CountKeys(labels, prefix)} = {key(c) : c \in cards}
  <2>1. \A c \in cards : <<prefix, key(c), "count">> \in CountKeys(labels, prefix)
                         /\ <<prefix, key(c), "count">>[2] = key(c)
    BY ThreeKey DEF HasCounts
  <2>2. \A k \in CountKeys(labels, prefix) : \E c \in cards : k = <<prefix, key(c), "count">>
    BY DEF HasCounts
  <2>3. \A k \in CountKeys(labels, prefix) : \E c \in cards : k[2] = key(c)
    BY <2>2, ThreeKey
  <2> HIDE DEF key
  <2> QED
    BY <2>1, <2>3
<1>3. \A name \in {key(c) : c \in cards} :
        labels[<<prefix, name, "count">>] = Cardinality({d \in cards : key(d) = name})
  BY DEF HasCounts
<1> HIDE DEF key, read
<1>4. read = [name \in {key(c) : c \in cards} |-> Cardinality({d \in cards : key(d) = name})]
  BY <1>1, <1>2, <1>3
<1> QED
  BY <1>4 DEF read, key, CountsOf

(* A set that a function maps a finite set onto.                           *)
LEMMA ImageOfFinite ==
  ASSUME NEW S, IsFiniteSet(S), NEW f, DOMAIN f = S
  PROVE  IsFiniteSet({f[x] : x \in S}) /\ Cardinality({f[x] : x \in S}) <= Cardinality(S)
<1> DEFINE T == {f[x] : x \in S}
           g == [x \in S |-> f[x]]
<1>1. g \in Surjection(S, T)
  BY DEF Surjection
<1> HIDE DEF g, T
<1>2. IsFiniteSet(T) /\ Cardinality(T) <= Cardinality(S)
  BY <1>1, FS_Surjection
<1> QED
  BY <1>2 DEF T

(* The counts of a daemon's labels reach its node.                         *)
LEMMA CountsReachNode ==
  ASSUME World, NEW cards \in SUBSET DOMAIN machine.cards, NEW b, NEW D, NEW rack, NEW H,
         NEW want, NEW verdict, NEW reasons, NEW prefix \in {"vendor", "model", "memory-kind"},
         Published(machine, b, cards, D, rack, H), IsWanted(want, b, verdict, reasons),
         \A k \in DOMAIN want : want[k] # Null => k \in DOMAIN node /\ node[k] = want[k],
         \A k \in DOMAIN node : IsManaged(k) => k \in DOMAIN want
  PROVE  HasCounts(machine, node, prefix, cards)
<1> DEFINE key(c) == KeyOf(machine, prefix, c)
<1>1. /\ CountKeys(b, prefix) = {<<prefix, key(c), "count">> : c \in cards}
      /\ \A c \in cards :
           b[<<prefix, key(c), "count">>] = Cardinality({d \in cards : key(d) = key(c)})
  BY DEF Published
<1>2. IsFiniteSet(cards)
  BY MachinesAssumption, FS_Subset DEF World
<1>3. ASSUME NEW c \in cards
      PROVE  /\ <<prefix, key(c), "count">> \in CountKeys(node, prefix)
             /\ node[<<prefix, key(c), "count">>] = Cardinality({d \in cards : key(d) = key(c)})
  <2> DEFINE k == <<prefix, key(c), "count">>
             same == {d \in cards : key(d) = key(c)}
  <2>1. k \in DOMAIN b /\ Len(k) = 3 /\ k[1] = prefix /\ k[3] = "count"
    BY <1>1 DEF CountKeys
  <2>2. k \in DOMAIN want /\ want[k] = Cardinality(same)
    BY <1>1, <2>1 DEF IsWanted
  <2>3. Cardinality(same) # Null
    <3>1. Cardinality(same) \in Nat
      BY <1>2, FS_Subset, FS_CardinalityType
    <3> QED
      BY <3>1, MissingAssumption
  <2> HIDE DEF k, same
  <2>4. k \in DOMAIN node /\ node[k] = Cardinality(same)
    BY <2>2, <2>3
  <2> QED
    BY <2>1, <2>4 DEF CountKeys, k, same
<1>4. ASSUME NEW k \in CountKeys(node, prefix)
      PROVE  \E c \in cards : k = <<prefix, key(c), "count">>
  <2>1. k \in DOMAIN node /\ Len(k) = 3 /\ k[1] = prefix /\ k[3] = "count"
    BY DEF CountKeys
  <2>2. IsManaged(k) /\ k \notin {<<"inference">>, <<"training">>, <<"failed">>}
    BY <2>1, OneKey DEF IsManaged
  <2>3. k \in DOMAIN b
    BY <2>1, <2>2 DEF IsWanted
  <2> QED
    BY <1>1, <2>1, <2>3 DEF CountKeys
<1> HIDE DEF key
<1>5. CountKeys(node, prefix) = {<<prefix, key(c), "count">> : c \in cards}
  BY <1>3, <1>4
<1> QED
  BY <1>3, <1>5 DEF HasCounts, key

(* The console counts what the daemon whose patch came last had found:     *)
(* its accelerators, in all and by vendor, and their connected components; *)
(* and it says RDMA where a port of the machine is up.  No key of another  *)
(* daemon is left to be counted.                                           *)
THEOREM ConsoleCountsCards == Spec => []ConsoleCounts
<1>1. World /\ NodeInv => ConsoleCounts
  <2> SUFFICES ASSUME World, NodeInv, shown # Null PROVE ConsoleCounts
    BY DEF ConsoleCounts
  <2> DEFINE view == FromNode(node)
  <2>1. shown \in SUBSET DOMAIN machine.cards /\ IsTold(machine, node, shown, told)
    BY DEF NodeInv
  <2>2. PICK b, want :
          /\ IsBase(machine, b, shown) /\ IsWanted(want, b, told.verdict, told.reasons)
          /\ \A k \in DOMAIN want : want[k] # Null => k \in DOMAIN node /\ node[k] = want[k]
          /\ \A k \in DOMAIN node : IsManaged(k) => k \in DOMAIN want
    BY <2>1 DEF IsTold
  <2>3. PICK D, rack, H : Published(machine, b, shown, D, rack, H) /\ IsDomains(machine, D, shown)
    BY <2>2 DEF IsBase
  <2>4. ASSUME NEW k \in DOMAIN b, b[k] # Null PROVE k \in DOMAIN node /\ node[k] = b[k]
    BY <2>2, <2>4 DEF IsWanted
  <2>5. IsFiniteSet(shown)
    BY <2>1, MachinesAssumption, FS_Subset DEF World
  <2>6. view.total = Cardinality(shown)
    <3>1. <<"total-count">> \in DOMAIN b /\ b[<<"total-count">>] = Cardinality(shown)
      BY <2>3 DEF Published
    <3>2. Cardinality(shown) # Null
      BY <2>5, FS_CardinalityType, MissingAssumption
    <3> QED
      BY <2>4, <3>1, <3>2 DEF FromNode, Value
  <2>7. view.vendors = [v \in {VendorOf(c) : c \in shown} |->
                          Cardinality({c \in shown : VendorOf(c) = v})]
    <3>1. HasCounts(machine, node, "vendor", shown)
      BY <2>1, <2>2, <2>3, CountsReachNode
    <3>2. ParseCounts(node, "vendor") = CountsOf(machine, "vendor", shown)
      BY <3>1, CountsAreRead
    <3> QED
      BY <3>2 DEF FromNode, CountsOf, KeyOf, VendorOf
  <2>8. view.domains = Cardinality({{d \in shown : d = c \/ (VendorOf(c) = "amd" /\ Linked(shown, c, d))}
                                      : c \in shown})
    <3>1. \A c, d : Linked(shown, c, d) <=> LinkedIn(machine, shown, c, d)
      BY DEF Linked, LinkedIn, LinksOf, VendorOf
    <3>2. D = {{d \in shown : d = c \/ (VendorOf(c) = "amd" /\ Linked(shown, c, d))} : c \in shown}
      BY <2>3, <3>1 DEF IsDomains, Domain, VendorOf
    <3>3. Cardinality(D) # Null
      <4> DEFINE f == [c \in shown |-> Domain(machine, shown, c)]
      <4>1. D = {f[c] : c \in shown} /\ DOMAIN f = shown
        BY <2>3 DEF IsDomains
      <4> HIDE DEF f
      <4>2. IsFiniteSet(D)
        BY <2>5, <4>1, ImageOfFinite
      <4> QED
        BY <4>2, FS_CardinalityType, MissingAssumption
    <3>4. <<"fabric-domains-count">> \in DOMAIN b /\ b[<<"fabric-domains-count">>] = Cardinality(D)
      BY <2>3 DEF Published
    <3> QED
      BY <2>4, <3>2, <3>3, <3>4 DEF FromNode
  <2>9. view.rdma <=> (\E d \in DOMAIN machine.rdma : \E p \in machine.rdma[d] :
                         p.state = "ACTIVE" /\ p.layer = "Ethernet")
    <3>1. /\ <<"rdma">> \in DOMAIN b <=> AnyActiveRoce(machine.rdma)
          /\ <<"rdma">> \in DOMAIN b => b[<<"rdma">>] = "present"
      BY <2>3 DEF Published
    <3>2. "present" # Null
      BY MissingAssumption
    <3>3. ASSUME <<"rdma">> \notin DOMAIN b PROVE <<"rdma">> \notin DOMAIN node
      <4>1. <<"rdma">> \notin {<<"inference">>, <<"training">>, <<"failed">>} /\ IsManaged(<<"rdma">>)
        BY OneKey
      <4> QED
        BY <2>2, <3>3, <4>1 DEF IsWanted
    <3>4. view.rdma <=> Value(node, <<"rdma">>) = "present"
      BY DEF FromNode
    <3> QED
      BY <2>4, <3>1, <3>2, <3>3, <3>4 DEF Value, AnyActiveRoce
  <2> QED
    BY <2>6, <2>7, <2>8, <2>9 DEF ConsoleCounts
<1> QED
  BY <1>1, NodeInvariant, PTL

-----------------------------------------------------------------------------
LEMMA SizeOfTwo ==
  ASSUME NEW A, IsFiniteSet(A), NEW B, IsFiniteSet(B), A \cap B = {}
  PROVE  Cardinality(A \cup B) = Cardinality(A) + Cardinality(B)
<1>1. Cardinality(A \cup B) = Cardinality(A) + Cardinality(B) - Cardinality(A \cap B)
  BY FS_Union
<1>2. Cardinality(A \cap B) = 0
  BY FS_EmptySet
<1>3. Cardinality(A) \in Nat /\ Cardinality(B) \in Nat
  BY FS_CardinalityType
<1> QED
  BY <1>1, <1>2, <1>3

(* The sizes of the classes of a finite set add up to its size.  The fold  *)
(* is the one function that satisfies its recursion: the function that     *)
(* counts the members of some of the classes does, and no other, for two   *)
(* that differ do so at a set of classes that is minimal.                  *)
LEMMA SumOfClasses ==
  ASSUME NEW S, IsFiniteSet(S), NEW class, DOMAIN class = S,
         NEW f, DOMAIN f = {class[c] : c \in S},
         \A k \in DOMAIN f : f[k] = Cardinality({c \in S : class[c] = k})
  PROVE  Sum(f) = Cardinality(S)
<1> DEFINE D == DOMAIN f
           one(s) == CHOOSE x \in s : TRUE
           members(s) == {c \in S : class[c] \in s}
           F(it) == [s \in SUBSET D |-> IF s = {} THEN 0 ELSE f[one(s)] + it[s \ {one(s)}]]
           g == [s \in SUBSET D |-> Cardinality(members(s))]
<1>1. Sum(f) = (CHOOSE it : it = F(it))[D]
  BY DEF Sum, FoldFunction, FoldFunctionOnSet, MapThenFoldSet
<1>2. IsFiniteSet(D)
  BY ImageOfFinite
<1>3. \A s \in SUBSET D : s # {} => one(s) \in s /\ s \ {one(s)} \in SUBSET D
  OBVIOUS
<1> HIDE DEF one
<1>4. g[{}] = 0
  <2>1. members({}) = {}
    OBVIOUS
  <2> QED
    BY <2>1, FS_EmptySet
<1>5. ASSUME NEW s \in SUBSET D, s # {}
      PROVE  g[s] = f[one(s)] + g[s \ {one(s)}]
  <2> DEFINE x == one(s)
             rest == s \ {x}
  <2>1. x \in s /\ x \in D /\ rest \in SUBSET D
    BY <1>3, <1>5
  <2>2. members(s) = members({x}) \cup members(rest) /\ members({x}) \cap members(rest) = {}
    BY <2>1
  <2>3. IsFiniteSet(members({x})) /\ IsFiniteSet(members(rest))
    BY FS_Subset
  <2>4. f[x] = Cardinality(members({x}))
    <3>1. members({x}) = {c \in S : class[c] = x}
      OBVIOUS
    <3> QED
      BY <2>1, <3>1
  <2> HIDE DEF members, x, rest
  <2>5. Cardinality(members(s)) = Cardinality(members({x})) + Cardinality(members(rest))
    BY <2>2, <2>3, SizeOfTwo
  <2> QED
    BY <2>1, <2>4, <2>5 DEF x, rest
<1>6. g = F(g)
  BY <1>4, <1>5
<1>7. ASSUME NEW h, h = F(h) PROVE h = g
  <2> DEFINE T == {s \in SUBSET D : h[s] # g[s]}
             R == StrictSubsetOrdering(D)
  <2>1. ASSUME T # {} PROVE FALSE
    <3>1. IsWellFoundedOn(R, SUBSET D)
      BY <1>2, FS_StrictSubsetOrderingWellFounded, FS_FiniteSubsetsOfFinite
    <3>2. PICK t \in T : \A s \in T : <<s, t>> \notin R
      <4>1. T \subseteq SUBSET D
        OBVIOUS
      <4> HIDE DEF T, R
      <4> QED
        BY <2>1, <3>1, <4>1, WFMin
    <3>3. t \in SUBSET D /\ h[t] # g[t]
      BY <3>2
    <3>4. t # {}
      BY <1>4, <1>7, <3>3
    <3> DEFINE rest == t \ {one(t)}
    <3>5. one(t) \in t /\ rest \in SUBSET D
      BY <1>3, <3>3, <3>4
    <3>6. <<rest, t>> \in R
      BY <3>3, <3>5 DEF StrictSubsetOrdering
    <3>7. h[rest] = g[rest]
      BY <3>2, <3>5, <3>6
    <3>8. h[t] = f[one(t)] + h[rest]
      BY <1>7, <3>3, <3>4
    <3> QED
      BY <1>5, <3>3, <3>4, <3>7, <3>8
  <2>2. \A s \in SUBSET D : h[s] = g[s]
    BY <2>1
  <2>3. h = [s \in SUBSET D |-> h[s]] /\ g = [s \in SUBSET D |-> g[s]]
    BY <1>7
  <2> QED
    BY <2>2, <2>3
<1>8. (CHOOSE it : it = F(it)) = g
  <2> HIDE DEF F, g
  <2> QED
    BY <1>6, <1>7
<1>9. members(D) = S
  OBVIOUS
<1> QED
  BY <1>1, <1>8, <1>9

(* Labels that are made from these cards and their domains add up.         *)
LEMMA BaseAddsUp ==
  ASSUME World, NEW D, NEW rack, NEW H,
         Published(machine, base, found, D, rack, H), IsDomains(machine, D, found)
  PROVE  LabelsAddUp
<1> DEFINE counts(prefix) == ParseCounts(base, prefix)
           domain == [d \in base[<<"fabric-graph">>] |-> base[<<"fabric-domain", d>>]]
           total == base[<<"total-count">>]
<1>1. IsFiniteSet(found) /\ total = Cardinality(found)
  BY MachinesAssumption, FS_Subset DEF World, Published
<1>2. ASSUME NEW prefix \in {"vendor", "model", "memory-kind"}
      PROVE  counts(prefix) = CountsOf(machine, prefix, found) /\ Sum(counts(prefix)) = total
  <2>1. HasCounts(machine, base, prefix, found)
    BY DEF Published, HasCounts
  <2>2. counts(prefix) = CountsOf(machine, prefix, found)
    BY <2>1, CountsAreRead
  <2> DEFINE class == [c \in found |-> KeyOf(machine, prefix, c)]
             f == CountsOf(machine, prefix, found)
  <2>3. /\ DOMAIN class = found /\ DOMAIN f = {class[c] : c \in found}
        /\ \A k \in DOMAIN f : f[k] = Cardinality({c \in found : class[c] = k})
    <3>1. \A k : {c \in found : class[c] = k} = {c \in found : KeyOf(machine, prefix, c) = k}
      OBVIOUS
    <3>2. DOMAIN f = {KeyOf(machine, prefix, c) : c \in found}
      BY DEF CountsOf
    <3>3. \A k \in DOMAIN f : f[k] = Cardinality({c \in found : KeyOf(machine, prefix, c) = k})
      BY DEF CountsOf
    <3> HIDE DEF f
    <3> QED
      BY <3>1, <3>2, <3>3
  <2> HIDE DEF class, f, total
  <2>4. Sum(f) = Cardinality(found)
    BY <1>1, <2>3, SumOfClasses
  <2> QED
    BY <1>1, <2>2, <2>4 DEF f
<1>3. /\ \A d \in D : d \subseteq found /\ \A c \in d : d = Domain(machine, found, c)
      /\ \A c \in found : c \in Domain(machine, found, c) /\ Domain(machine, found, c) \in D
  BY DEF IsDomains, Domain
<1>4. domain = [d \in D |-> Cardinality(d)]
  BY DEF Published
<1>5. Sum(domain) = total
  <2> DEFINE class == [c \in found |-> Domain(machine, found, c)]
  <2>1. DOMAIN class = found /\ D = {class[c] : c \in found}
    BY DEF IsDomains
  <2>2. \A d \in D : {c \in found : class[c] = d} = d
    BY <1>3
  <2> HIDE DEF class
  <2>3. \A d \in DOMAIN domain : domain[d] = Cardinality({c \in found : class[c] = d})
    BY <1>4, <2>2
  <2> HIDE DEF domain, total
  <2>4. DOMAIN domain = {class[c] : c \in found}
    BY <1>4, <2>1
  <2>5. Sum(domain) = Cardinality(found)
    BY <1>1, <2>1, <2>3, <2>4, SumOfClasses
  <2> QED
    BY <1>1, <2>5
<1>6. UNION DOMAIN domain = found
  BY <1>3, <1>4
<1>7. ASSUME NEW c \in found PROVE c \in base[<<"inventory">>][c].domain
  <2>1. base[<<"inventory">>][c].domain = DomainOf(D, c)
    BY DEF Published, Inventory
  <2>2. \E d \in D : c \in d
    BY <1>3
  <2> QED
    BY <2>1, <2>2 DEF DomainOf
<1>8. ASSUME NEW v \in DOMAIN counts("vendor")
      PROVE  base[<<"vendor", v, "physical-count">>] \in 1 .. counts("vendor")[v]
  <2> DEFINE same == {d \in found : machine.cards[d].vendor = v}
             parents == {machine.cards[e].parent : e \in same}
  <2>1. counts("vendor") = CountsOf(machine, "vendor", found)
    BY <1>2
  <2>2. PICK c \in found : v = machine.cards[c].vendor
    BY <2>1 DEF CountsOf, KeyOf
  <2>3. counts("vendor")[v] = Cardinality(same)
    BY <2>1 DEF CountsOf, KeyOf
  <2>4. base[<<"vendor", v, "physical-count">>] = Cardinality(parents)
    BY <2>2 DEF Published
  <2>5. IsFiniteSet(same)
    BY <1>1, FS_Subset
  <2>6. IsFiniteSet(parents) /\ Cardinality(parents) <= Cardinality(same)
    <3> DEFINE parent == [e \in same |-> machine.cards[e].parent]
    <3>1. DOMAIN parent = same /\ parents = {parent[e] : e \in same}
      OBVIOUS
    <3> HIDE DEF parent, parents, same
    <3> QED
      BY <2>5, <3>1, ImageOfFinite
  <2>7. machine.cards[c].parent \in parents
    BY <2>2
  <2> HIDE DEF same, parents
  <2>8. Cardinality(parents) \in Nat /\ Cardinality(same) \in Nat /\ Cardinality(parents) # 0
    BY <2>5, <2>6, <2>7, FS_CardinalityType, FS_EmptySet
  <2> HIDE DEF counts
  <2> QED
    BY <2>3, <2>4, <2>6, <2>8
<1> QED
  BY <1>2, <1>5, <1>6, <1>7, <1>8 DEF LabelsAddUp

(* Whatever the machine, and whatever became of it: the labels of a node   *)
(* agree with each other.                                                  *)
THEOREM NodeLabelsAddUp == Spec => []LabelsAddUp
<1>1. World /\ BaseInv => LabelsAddUp
  <2>1. ASSUME World, BaseInv, Running PROVE LabelsAddUp
    <3>1. PICK D, rack, H :
            Published(machine, base, found, D, rack, H) /\ IsDomains(machine, D, found)
      BY <2>1 DEF BaseInv, IsBase
    <3> QED
      BY <2>1, <3>1, BaseAddsUp
  <2>2. ~Running => LabelsAddUp
    BY DEF LabelsAddUp
  <2> QED
    BY <2>1, <2>2
<1> QED
  BY <1>1, BaseInvariant, PTL
=============================================================================
