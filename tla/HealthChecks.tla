---------------------------- MODULE HealthChecks ----------------------------
(***************************************************************************)
(* The preflight checks of src/preflight/health.rs, in the order of        *)
(* default_registry.  A condition is what sysfs and procfs show now:       *)
(*                                                                         *)
(*   of a card: driver, render (it has a render node), temp in degrees and *)
(*     vram, the sizes [total, used] in GiB;                               *)
(*   of the host: memory, the MemAvailable in GiB, and mounts, the free    *)
(*     GiB of every real file system.                                      *)
(*                                                                         *)
(* What cannot be read is Missing.                                         *)
(***************************************************************************)
EXTENDS Naturals, FiniteSetsExt

CONSTANT Missing

Registry ==
  <<"sensor.readable", "drm.render_node_present", "driver.loaded",
    "temperature.below_throttle", "memory.floor", "host.memory.available",
    "host.disk.free", "placeholder.always_pass">>
NodeLocal == {"host.memory.available", "host.disk.free"}

AcceptedDrivers ==
  [amd |-> {"amdgpu"}, nvidia |-> {"nvidia"}, intel |-> {"i915", "xe"}, other |-> {}]

Throttle == 95  \* degrees
MemoryFloor == 1
HostMemoryFloor == 24
HostDiskFloor == 200

DriverLoaded(vendor, driver) ==
  CASE driver = Missing -> "fail"
    [] driver \in AcceptedDrivers[vendor] -> "pass"
    [] OTHER -> "warn"

\* Mutant: the thresholds themselves still pass.
TemperatureBelowThrottleLax(temp) ==
  CASE temp = Missing -> "skip"
    [] temp # Missing /\ temp > Throttle -> "fail"
    [] temp # Missing /\ temp \in Throttle - 9 .. Throttle -> "warn"
    [] OTHER -> "pass"
TemperatureBelowThrottle(temp) ==
  CASE temp = Missing -> "skip"
    [] temp # Missing /\ temp >= Throttle -> "fail"
    [] temp # Missing /\ temp \in Throttle - 10 .. Throttle - 1 -> "warn"
    [] OTHER -> "pass"

AtLeast(value, floor) == IF value < floor THEN "fail" ELSE "pass"

(* A used size that cannot be read counts as 0; more used than there is    *)
(* leaves nothing.                                                         *)
FreeVram(vram) ==
  LET used == IF vram.used = Missing THEN 0 ELSE vram.used
  IN IF used > vram.total THEN 0 ELSE vram.total - used

VramFloor(coverage, vram) ==
  IF coverage = "identification-only" \/ vram = Missing THEN "skip"
  ELSE AtLeast(FreeVram(vram), MemoryFloor)

(* One check of one card.                                                  *)
CardCheck(check, vendor, coverage, now) ==
  CASE check = "sensor.readable"            -> IF coverage = "failed" THEN "fail" ELSE "pass"
    [] check = "drm.render_node_present"    -> IF now.render THEN "pass" ELSE "fail"
    [] check = "driver.loaded"              -> DriverLoaded(vendor, now.driver)
    [] check = "temperature.below_throttle" -> TemperatureBelowThrottle(now.temp)
    [] check = "memory.floor"               -> VramFloor(coverage, now.vram)
    [] check = "placeholder.always_pass"    -> "pass"

(* One check of the host; of the mounts, the one with most free space.     *)
HostCheck(check, now) ==
  CASE check = "host.memory.available" ->
         IF now.memory = Missing THEN "skip" ELSE AtLeast(now.memory, HostMemoryFloor)
    [] check = "host.disk.free" ->
         IF now.mounts = {} THEN "skip" ELSE AtLeast(Max(now.mounts), HostDiskFloor)

(* aggregate and label_value: failures and warnings both degrade the node; *)
(* a node on which every check was skipped is unknown.                     *)
\* Mutant: a warning does not degrade.
AggregateFailOnly(outcomes) ==
  IF "fail" \in outcomes THEN "degraded" ELSE IF "pass" \in outcomes THEN "true" ELSE "unknown"
Aggregate(outcomes) ==
  IF outcomes \cap {"fail", "warn"} # {} THEN "degraded"
  ELSE IF "pass" \in outcomes THEN "true" ELSE "unknown"
=============================================================================
