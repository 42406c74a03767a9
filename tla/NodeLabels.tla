----------------------------- MODULE NodeLabels -----------------------------
(***************************************************************************)
(* How a node gets its labels: the daemon's start (src/lifecycle.rs), its  *)
(* preflight loop (src/telemetry/preflight.rs) and the labeler that the    *)
(* loop calls (src/k8s/labeler.rs).                                        *)
(*                                                                         *)
(* The daemon finds out once, at its start, what cards and which rack it   *)
(* has.  Every cycle runs the checks, adds the verdict to those labels,    *)
(* reads the node and sends one merge patch, up to three times.  A call    *)
(* may be refused, or carried out and its answer lost, or still be on its  *)
(* way when the daemon has given up on it; the daemon may be killed at any *)
(* step.  Meanwhile cards and health change, others write their own keys,  *)
(* and the Node object may be deleted and registered anew.                 *)
(*                                                                         *)
(* A card model has one key (accel.lunnova.dev/model.<model>.count); the   *)
(* inference and training verdicts are always equal and share a key; the   *)
(* time of the last check, new in every patch, is left out.                *)
(***************************************************************************)
EXTENDS MergePatch, Naturals

CONSTANTS
  Models,      \* models of accelerator cards, each standing for its label key
  Foreign,     \* a label key of another owner
  MaxFaults,   \* bound: failed calls and kills of the daemon
  MaxChanges   \* bound: changes of hardware, health or the Node by others

Verdicts == {"true", "degraded", "unknown"}
Values == Verdicts \cup {"some"}
Empty == [k \in {} |-> "some"]

ASSUME KeysAssumption ==
  /\ Models \cup {"rack", "ready", "failed"} \subseteq ManagedKeys
  /\ Foreign \notin ManagedKeys
  /\ Null \notin Values
ASSUME LabelBoundsAssumption == MaxFaults \in Nat /\ MaxChanges \in Nat

VARIABLES
  node,     \* labels and annotations of the Node object
  cards,    \* the card models in the machine
  health,   \* statuses that the checks would find now ("fail" also for Warn)
  pc,       \* where the daemon stands
  active,   \* the labeler has a client (LabelerState::Active)
  base,     \* label_base, built at start
  desired,  \* what the running cycle wants
  body,     \* the merge patch of the running cycle
  attempt,  \* how often it has been sent
  late,     \* patches given up on that the API server may still carry out
  fresh,    \* history: since the node was read nobody else wrote a managed key
  faults,   \* faults used, of MaxFaults
  changes   \* changes used, of MaxChanges

daemonVars == <<pc, active, base, desired, body, attempt>>
worldVars  == <<cards, health, changes>>
vars == <<node, cards, health, pc, active, base, desired, body, attempt, late, fresh,
          faults, changes>>

MaxAttempts == 3

IsDoc(doc) ==
  /\ DOMAIN doc \subseteq ManagedKeys \cup {Foreign}
  /\ \A k \in DOMAIN doc : doc[k] \in Values
IsPatch(patch) ==
  /\ DOMAIN patch \subseteq ManagedKeys
  /\ \A k \in DOMAIN patch : patch[k] \in Values \cup {Null}

TypeOK ==
  /\ IsDoc(node) /\ cards \subseteq Models /\ health \subseteq {"pass", "fail"}
  /\ pc \in {"down", "sleep", "get", "patch"} /\ active \in BOOLEAN
  /\ IsPatch(base) /\ IsPatch(desired) /\ IsPatch(body)
  /\ attempt \in 0 .. MaxAttempts /\ \A p \in late : IsPatch(p)
  /\ fresh \in BOOLEAN
  /\ faults \in 0 .. MaxFaults /\ changes \in 0 .. MaxChanges

-----------------------------------------------------------------------------
(* What the daemon wants on the node.                                      *)

(* The label_base of a machine with these cards; the rack is a label only  *)
(* if a switch was heard while the daemon started.                         *)
Base(found, heard) ==
  [k \in found \cup (IF heard THEN {"rack"} ELSE {}) |-> "some"]

(* Some check failed or warned, or else some check passed.                 *)
Aggregate(outcomes) ==
  IF "fail" \in outcomes THEN "degraded"
  ELSE IF "pass" \in outcomes THEN "true" ELSE "unknown"

(* The placeholder check passes for every card.                            *)
Outcomes(found, observed) == observed \cup (IF found = {} THEN {} ELSE {"pass"})

WithVerdict(labels, outcomes) ==
  [k \in DOMAIN labels \cup {"ready"} \cup (IF "fail" \in outcomes THEN {"failed"} ELSE {}) |->
     CASE k = "ready"  -> Aggregate(outcomes)
       [] k = "failed" -> "some"
       [] OTHER        -> labels[k]]

(* The cards a daemon checks are those it found at its start.              *)
FoundIn(labels) == DOMAIN labels \cap Models
Intended == WithVerdict(base, Outcomes(FoundIn(base), health))

-----------------------------------------------------------------------------
Init ==
  /\ node = [k \in {Foreign} |-> "some"]
  /\ cards = Models /\ health = {"pass"}
  /\ pc = "down" /\ active = FALSE
  /\ base = Empty /\ desired = Empty /\ body = Empty /\ attempt = 0
  /\ late = {} /\ fresh = FALSE
  /\ faults = 0 /\ changes = 0

Fault == faults < MaxFaults /\ faults' = faults + 1

(* Discovery, then the client.  LLDP may hear no switch; a client that     *)
(* cannot be built leaves this daemon's labeler disabled for good.         *)
Start ==
  /\ pc = "down" /\ pc' = "sleep"
  /\ \E heard, client \in BOOLEAN :
       /\ base' = Base(cards, heard) /\ active' = client
       /\ IF heard /\ client THEN UNCHANGED faults ELSE Fault
  /\ UNCHANGED <<node, worldVars, desired, body, attempt, late, fresh>>

(* The timer is up: the checks run, and the labeler is called.             *)
\* Mutant: the labeler is not called when a cycle wants what the last did.
RunChecksIfChanged ==
  /\ pc = "sleep" /\ desired' = Intended
  /\ pc' = IF active /\ desired # Intended THEN "get" ELSE "sleep"
  /\ UNCHANGED <<node, worldVars, active, base, body, attempt, late, fresh, faults>>
RunChecks ==
  /\ pc = "sleep" /\ desired' = Intended
  /\ pc' = IF active THEN "get" ELSE "sleep"
  /\ UNCHANGED <<node, worldVars, active, base, body, attempt, late, fresh, faults>>

(* The end of a cycle.                                                     *)
Sleep ==
  /\ pc' = "sleep" /\ body' = Empty /\ attempt' = 0 /\ fresh' = FALSE

Get ==
  /\ pc = "get" /\ pc' = "patch"
  /\ body' = MergedSection(node, desired) /\ attempt' = 1 /\ fresh' = TRUE
  /\ UNCHANGED <<node, worldVars, active, base, desired, late, faults>>

GetFails ==
  /\ pc = "get" /\ Fault /\ Sleep
  /\ UNCHANGED <<node, worldVars, active, base, desired, late>>

PatchApplied ==
  /\ pc = "patch" /\ node' = Merge(node, body) /\ Sleep
  /\ UNCHANGED <<worldVars, active, base, desired, late, faults>>

(* An error comes back: the patch was refused, or carried out, or is still *)
(* on its way.  The same body is sent again, or given up after the third.  *)
PatchFails ==
  /\ pc = "patch" /\ Fault
  /\ \/ UNCHANGED <<node, late>>
     \/ node' = Merge(node, body) /\ UNCHANGED late
     \/ late' = late \cup {body} /\ UNCHANGED node
  /\ \/ attempt < MaxAttempts /\ attempt' = attempt + 1 /\ UNCHANGED <<pc, body, fresh>>
     \/ attempt = MaxAttempts /\ Sleep
  /\ UNCHANGED <<worldVars, active, base, desired>>

(* The daemon is killed (a rollout, a failure); a patch it has sent may    *)
(* still be carried out.                                                   *)
Kill ==
  /\ pc # "down" /\ Fault /\ pc' = "down"
  /\ late' \in {late} \cup (IF pc = "patch" THEN {late \cup {body}} ELSE {})
  /\ active' = FALSE /\ base' = Empty /\ desired' = Empty
  /\ body' = Empty /\ attempt' = 0 /\ fresh' = FALSE
  /\ UNCHANGED <<node, worldVars>>

Daemon == Start \/ RunChecks \/ Get \/ GetFails \/ PatchApplied \/ PatchFails

-----------------------------------------------------------------------------
(* A patch given up on reaches the API server, or never does.              *)
LatePatch ==
  \E p \in late :
    /\ late' = late \ {p}
    /\ \/ node' = Merge(node, p) /\ fresh' = (fresh /\ p = body)
       \/ UNCHANGED <<node, fresh>>
    /\ UNCHANGED <<worldVars, daemonVars, faults>>

Change == changes < MaxChanges /\ changes' = changes + 1

HardwareChange ==
  /\ Change /\ cards' \in (SUBSET Models) \ {cards}
  /\ UNCHANGED <<node, health, daemonVars, late, fresh, faults>>

HealthChange ==
  /\ Change /\ health' \in (SUBSET {"pass", "fail"}) \ {health}
  /\ UNCHANGED <<node, cards, daemonVars, late, fresh, faults>>

(* Somebody adds or removes a key: their own, or by hand one of the        *)
(* daemon's.                                                               *)
OthersWrite ==
  /\ Change
  /\ \E k \in ManagedKeys \cup {Foreign} :
       /\ \/ k \in DOMAIN node /\ node' = [o \in DOMAIN node \ {k} |-> node[o]]
          \/ /\ k \notin DOMAIN node
             /\ node' = [o \in DOMAIN node \cup {k} |-> IF o = k THEN "some" ELSE node[o]]
       /\ fresh' = (fresh /\ k = Foreign)
  /\ UNCHANGED <<cards, health, daemonVars, late, faults>>

(* The Node object is deleted; the kubelet registers a bare one.           *)
NodeReregistered ==
  /\ Change /\ node' = Empty
  /\ UNCHANGED <<cards, health, daemonVars, late, fresh, faults>>

Next ==
  \/ Daemon \/ Kill \/ LatePatch
  \/ HardwareChange \/ HealthChange \/ OthersWrite \/ NodeReregistered

(* The daemon runs while it can and is started again when it was killed.   *)
Spec == Init /\ [][Next]_vars /\ WF_vars(Daemon)

-----------------------------------------------------------------------------
(* Whatever patches of whatever age reach the API server, and however      *)
(* often: only others change the keys of others.                           *)
ForeignKept == [][changes' = changes => SameForeign(node, node')]_vars

(* Unless an older patch or somebody's hand touches managed keys after the *)
(* node was read, sending the body leaves exactly those that the cycle     *)
(* wants: also when an earlier attempt was carried out and its answer      *)
(* lost, and when others wrote their keys or the Node was replaced.        *)
RetryExact == pc = "patch" /\ fresh => Exact(Merge(node, body), desired)

(* A daemon that stays up with a client ends up having made the managed    *)
(* keys what it intends, and they stay so: keys of cards found by an       *)
(* earlier daemon, of an earlier verdict, of late patches and of somebody's*)
(* hand disappear.                                                         *)
Converges == <>[]active => <>[]Exact(node, Intended)

(* "this matters when the hardware on a node changes (a card is            *)
(* hot-removed, a model is replaced) and we need stale labels to           *)
(* disappear": when a daemon stays up, the keys of card models on the node *)
(* end up being those of the cards in the machine.                         *)
LabelsFollowHardware == <>[]active => <>[](DOMAIN node \cap Models = cards)

(* What the first two rest on.  A body has the keys and values wanted and  *)
(* nulls for the rest; while it is fresh it names every managed key of the *)
(* node.                                                                   *)
BodyShape ==
  pc = "patch" =>
    /\ DOMAIN desired \subseteq DOMAIN body
    /\ \A k \in DOMAIN body : body[k] = IF k \in DOMAIN desired THEN desired[k] ELSE Null
    /\ fresh => DOMAIN node \cap ManagedKeys \subseteq DOMAIN body
NoNulls == \A k \in DOMAIN base : base[k] # Null
NothingNull == NoNulls /\ \A k \in DOMAIN desired : desired[k] # Null
LabelInv == TypeOK /\ BodyShape /\ NothingNull
=============================================================================
