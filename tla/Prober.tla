------------------------------- MODULE Prober -------------------------------
(***************************************************************************)
(* The RoCE prober: src/prober/reconcile.rs with the pod and annotation    *)
(* calls it makes (pods.rs, annotations.rs) and the loop that drives it    *)
(* (mod.rs).                                                               *)
(*                                                                         *)
(* A controller runs reconcile cycles one after the other.  A cycle        *)
(* deletes old probe pods, lists the nodes, and for every rack that is due *)
(* takes a semaphore permit and spawns a task; it ends when all its tasks  *)
(* have ended.  A task creates a server pod, waits for its IP, creates a   *)
(* client pod, waits for it to end, reads its record, stamps the nodes     *)
(* and deletes the pods.  Every call to the API server is one step, and    *)
(* may fail; kubelets, node labels and time move in between; the process   *)
(* may be killed at any step and started again.                            *)
(*                                                                         *)
(* A stamp is kept as its timestamp, the part the prober reads back.  The  *)
(* verdict and the measurements it carries decide no step of the prober.   *)
(*                                                                         *)
(* probe_pair and probe_loopback take the same steps: a loopback task has  *)
(* server = client and one patch where a pair task has two.                *)
(***************************************************************************)
EXTENDS PairPick, FiniteSets

CONSTANTS
  Nodes,          \* node names: natural numbers, ordered as the names are
  Racks,          \* rack label values: natural numbers, ordered likewise
  PodIds,         \* names the API server can generate; their number is the quota
  NoRack,         \* home of a node that eligible() drops
  NoPod,          \* "no pod of this role"
  HomeAtStart,    \* the rack of every node when the prober is first started
  MaxConcurrent,  \* max_concurrent_pairs
  Cadence,        \* cadence_secs, in ticks of the clock
  MaxAge,         \* test_duration_secs * 4 + 600, in ticks of the clock
  MaxClock,       \* bound: the clock stops here
  MaxFaults,      \* bound: failed API calls, evicted pods and crashes
  MaxMoves        \* bound: changes of a node's eligibility or rack

ASSUME NodesAssumption == Nodes \subseteq Nat /\ IsFiniteSet(Nodes)
ASSUME RacksAssumption == Racks \subseteq Nat /\ IsFiniteSet(Racks) /\ NoRack \notin Racks
ASSUME PodsAssumption == NoPod \notin PodIds
ASSUME HomeAssumption == HomeAtStart \in [Nodes -> Racks \cup {NoRack}]
ASSUME BoundsAssumption ==
  /\ MaxConcurrent \in Nat /\ Cadence \in Nat /\ MaxAge \in Nat
  /\ MaxClock \in Nat /\ MaxFaults \in Nat /\ MaxMoves \in Nat

VARIABLES
  clock,    \* seconds since the epoch, in ticks
  home,     \* home[n]: rack under which eligible() returns n, or NoRack
  rackAt,   \* rackAt[n]: last-rack-at of node n
  loopAt,   \* loopAt[n]: last-loopback-at of node n
  phase,    \* phase[p]: what the API server says of pod p
  age,      \* age[p]: ticks since p was created, up to MaxAge + 1
  leaked,   \* history: pods that exist and that no task will delete
  cycle,    \* where the controller stands in run_once
  queue,    \* queue[r]: the pair picked for rack r and not yet spawned, as an Option
  permits,  \* free permits of the cycle's semaphore
  pc,       \* pc[r]: where the task spawned for rack r stands
  pair,     \* pair[r]: its <<server node, client node>>
  spod,     \* spod[r]: its server pod, NoPod before creation and after deletion
  cpod,     \* cpod[r]: its client pod
  now,      \* now[r]: the timestamp both patches of patch_pair carry
  faults,   \* faults used, of MaxFaults
  moves     \* label changes used, of MaxMoves

annVars  == <<rackAt, loopAt>>
podVars  == <<phase, age, leaked>>
loopVars == <<cycle, queue>>
taskVars == <<pc, pair, spod, cpod, now>>
envVars  == <<clock, home, moves>>
vars == <<clock, home, rackAt, loopAt, phase, age, leaked, cycle, queue, permits,
          pc, pair, spod, cpod, now, faults, moves>>

(* What the prober can tell pods apart by: the CNI has given no IP yet, it *)
(* has, the pod ended in phase Succeeded.  A pod that fails stays "noIp"   *)
(* or "hasIp": the prober, seeing it, does what it does at the deadline.   *)
Phases == {"absent", "noIp", "hasIp", "succeeded"}

Steps == {"none", "createServer", "awaitIp", "createClient", "awaitEnd", "readRecord",
          "stampServer", "stampClient", "dropClient", "dropServer",
          "abortServer", "abortClient"}
NoPair == <<>>
EmptyQueue == [r \in Racks |-> {}]

Live == {r \in Racks : pc[r] # "none"}
Held == (UNION {{spod[r], cpod[r]} : r \in Live}) \ {NoPod}
Existing == {p \in PodIds : phase[p] # "absent"}
FreeIds == {p \in PodIds : phase[p] = "absent"} \ Held

\* Mutant: the rack label is not compared.
MembersAnywhere(r) == {n \in Nodes : home[n] # NoRack}
Members(r) == {n \in Nodes : home[n] = r}
Cutoff == clock - Cadence

(* What the loop of run_once finds to do for rack r: a pair if the rack    *)
(* has two members, else a loopback.                                       *)
Picks(r) == PickPair(Members(r), rackAt, Cutoff)
              \cup PickLoopback(Members(r), loopAt, Cutoff)

TypeOK ==
  /\ clock \in Nat
  /\ home \in [Nodes -> Racks \cup {NoRack}]
  /\ rackAt \in [Nodes -> Nat \cup {Never}] /\ loopAt \in [Nodes -> Nat \cup {Never}]
  /\ phase \in [PodIds -> Phases] /\ age \in [PodIds -> 0 .. MaxAge + 1]
  /\ leaked \subseteq PodIds
  /\ cycle \in {"down", "idle", "list", "dispatch", "join"}
  /\ queue \in [Racks -> SUBSET (Nodes \X Nodes)]
  /\ permits \in 0 .. MaxConcurrent
  /\ pc \in [Racks -> Steps]
  /\ pair \in [Racks -> (Nodes \X Nodes) \cup {NoPair}]
  /\ spod \in [Racks -> PodIds \cup {NoPod}] /\ cpod \in [Racks -> PodIds \cup {NoPod}]
  /\ now \in [Racks -> Nat]
  /\ faults \in 0 .. MaxFaults /\ moves \in 0 .. MaxMoves

(* No cycle has run: the nodes are labelled, never probed, and no pod of   *)
(* the prober exists.                                                      *)
NoTasks ==
  /\ pc = [r \in Racks |-> "none"]
  /\ pair = [r \in Racks |-> NoPair]
  /\ spod = [r \in Racks |-> NoPod] /\ cpod = [r \in Racks |-> NoPod]
  /\ now = [r \in Racks |-> 0]

Init ==
  /\ clock = 0 /\ home = HomeAtStart
  /\ rackAt = [n \in Nodes |-> Never] /\ loopAt = [n \in Nodes |-> Never]
  /\ phase = [p \in PodIds |-> "absent"] /\ age = [p \in PodIds |-> 0] /\ leaked = {}
  /\ cycle = "idle" /\ queue = EmptyQueue /\ permits = MaxConcurrent
  /\ NoTasks
  /\ faults = 0 /\ moves = 0

-----------------------------------------------------------------------------
(* Calls to the API server.                                                *)

Fault == faults < MaxFaults /\ faults' = faults + 1

PodCreated(p) ==
  /\ phase' = [phase EXCEPT ![p] = "noIp"]
  /\ age' = [age EXCEPT ![p] = 0]

(* Create returns an error: refused (always, when the quota is used up),   *)
(* or carried out and its answer lost.                                     *)
CreateFailed ==
  \/ FreeIds = {} /\ UNCHANGED <<podVars, faults>>
  \/ Fault /\ UNCHANGED podVars
  \/ /\ Fault
     /\ \E p \in FreeIds : PodCreated(p) /\ leaked' = leaked \cup {p}

PodGone(S) ==
  /\ phase' = [p \in PodIds |-> IF p \in S THEN "absent" ELSE phase[p]]
  /\ age' = [p \in PodIds |-> IF p \in S THEN 0 ELSE age[p]]

(* Delete returns, and its caller forgets the name.  The error of a failed *)
(* delete is logged and dropped.                                           *)
PodDeleted(p) ==
  \/ PodGone({p}) /\ UNCHANGED <<leaked, faults>>
  \/ /\ Fault /\ phase[p] # "absent"
     /\ leaked' = leaked \cup {p}
     /\ UNCHANGED <<phase, age>>

(* Patch returns; its error is logged and dropped.                         *)
Patched(at, n, t) ==
  \/ at' = [at EXCEPT ![n] = t] /\ UNCHANGED faults
  \/ Fault /\ UNCHANGED at

-----------------------------------------------------------------------------
(* The controller: run and run_once.                                       *)

(* The ticker fires; cleanup_orphans deletes every probe pod older than    *)
(* MaxAge.  The list call may fail (nothing is deleted), and so may any of *)
(* the deletes.                                                            *)
\* Mutant: only pods that ended are taken for orphans.
StaleEnded == {p \in Existing : age[p] > MaxAge /\ phase[p] = "succeeded"}
Stale == {p \in Existing : age[p] > MaxAge}

StartCycle ==
  /\ cycle = "idle" /\ cycle' = "list"
  /\ \E kept \in SUBSET Stale :
       /\ IF kept = {} THEN UNCHANGED faults ELSE Fault
       /\ PodGone(Stale \ kept) /\ leaked' = leaked \ (Stale \ kept)
  /\ UNCHANGED <<envVars, annVars, queue, permits, taskVars>>

(* Nodes are listed and grouped.  The picks depend on nothing that changes *)
(* later in the cycle, so they are all made here.                          *)
ListNodes ==
  /\ cycle = "list" /\ cycle' = "dispatch"
  /\ queue' = [r \in Racks |-> Picks(r)]
  /\ permits' = MaxConcurrent
  /\ UNCHANGED <<envVars, annVars, podVars, taskVars, faults>>

ListNodesFails ==
  /\ cycle = "list" /\ cycle' = "idle"
  /\ Fault
  /\ UNCHANGED <<envVars, annVars, podVars, queue, permits, taskVars>>

(* The loop reaches rack r, the first still queued in BTreeMap order, and  *)
(* a permit is free (acquire_owned blocks the loop until one is).          *)
\* Mutant: the task is spawned without waiting for a permit.
DispatchUnlimited(r) ==
  /\ cycle = "dispatch"
  /\ \A o \in Racks : queue[o] # {} => r <= o
  /\ \E sc \in queue[r] : pair' = [pair EXCEPT ![r] = sc]
  /\ queue' = [queue EXCEPT ![r] = {}]
  /\ permits' = permits - 1
  /\ pc' = [pc EXCEPT ![r] = "createServer"]
  /\ UNCHANGED <<envVars, annVars, podVars, cycle, spod, cpod, now, faults>>
Dispatch(r) ==
  /\ cycle = "dispatch" /\ permits > 0
  /\ \A o \in Racks : queue[o] # {} => r <= o
  /\ \E sc \in queue[r] : pair' = [pair EXCEPT ![r] = sc]
  /\ queue' = [queue EXCEPT ![r] = {}]
  /\ permits' = permits - 1
  /\ pc' = [pc EXCEPT ![r] = "createServer"]
  /\ UNCHANGED <<envVars, annVars, podVars, cycle, spod, cpod, now, faults>>

AllDispatched ==
  /\ cycle = "dispatch" /\ queue = EmptyQueue /\ cycle' = "join"
  /\ UNCHANGED <<envVars, annVars, podVars, queue, permits, taskVars, faults>>

\* Mutant: the join handles are dropped instead of awaited.
JoinWithoutWaiting ==
  /\ cycle = "join" /\ cycle' = "idle"
  /\ UNCHANGED <<envVars, annVars, podVars, queue, permits, taskVars, faults>>
Join ==
  /\ cycle = "join" /\ Live = {} /\ cycle' = "idle"
  /\ UNCHANGED <<envVars, annVars, podVars, queue, permits, taskVars, faults>>

(* The process is killed (SIGTERM has no handler, so a rollout does it     *)
(* too) and every task with it; the Deployment starts a new one.           *)
Crash ==
  /\ cycle # "down" /\ cycle' = "down"
  /\ Fault
  /\ leaked' = leaked \cup (Held \cap Existing)
  /\ queue' = EmptyQueue /\ permits' = MaxConcurrent
  /\ pc' = [r \in Racks |-> "none"] /\ pair' = [r \in Racks |-> NoPair]
  /\ spod' = [r \in Racks |-> NoPod] /\ cpod' = [r \in Racks |-> NoPod]
  /\ now' = [r \in Racks |-> 0]
  /\ UNCHANGED <<envVars, annVars, phase, age>>

Boot ==
  /\ cycle = "down" /\ cycle' = "idle"
  /\ UNCHANGED <<envVars, annVars, podVars, queue, permits, taskVars, faults>>

-----------------------------------------------------------------------------
(* The task of rack r: probe_pair, or probe_loopback.                      *)

Goto(r, step) == pc' = [pc EXCEPT ![r] = step]
IsLoopback(r) == pair[r][1] = pair[r][2]

(* The task returns; its permit is dropped with it.                        *)
EndTask(r) ==
  /\ Goto(r, "none") /\ pair' = [pair EXCEPT ![r] = NoPair]
  /\ now' = [now EXCEPT ![r] = 0]
  /\ permits' = permits + 1

CreateServer(r) ==
  /\ pc[r] = "createServer" /\ Goto(r, "awaitIp")
  /\ \E p \in FreeIds : PodCreated(p) /\ spod' = [spod EXCEPT ![r] = p]
  /\ UNCHANGED <<envVars, annVars, leaked, loopVars, permits, pair, cpod, now, faults>>

CreateServerFails(r) ==
  /\ pc[r] = "createServer" /\ Goto(r, "stampServer")
  /\ CreateFailed
  /\ UNCHANGED <<envVars, annVars, loopVars, permits, pair, spod, cpod, now>>

ServerHasIp(r) ==
  /\ pc[r] = "awaitIp" /\ phase[spod[r]] \in {"hasIp", "succeeded"} /\ Goto(r, "createClient")
  /\ UNCHANGED <<envVars, annVars, podVars, loopVars, permits, pair, spod, cpod, now, faults>>

(* The pod is gone or ended without an IP, or the deadline passed, which   *)
(* is looked at before the pod and so may pass whatever its state.         *)
\* Mutant: no deadline; the wait ends only when the pod is gone.
ServerHasNoIpNoDeadline(r) ==
  /\ pc[r] = "awaitIp" /\ phase[spod[r]] = "absent" /\ Goto(r, "abortServer")
  /\ UNCHANGED <<envVars, annVars, podVars, loopVars, permits, pair, spod, cpod, now, faults>>
ServerHasNoIp(r) ==
  /\ pc[r] = "awaitIp" /\ Goto(r, "abortServer")
  /\ UNCHANGED <<envVars, annVars, podVars, loopVars, permits, pair, spod, cpod, now, faults>>

CreateClient(r) ==
  /\ pc[r] = "createClient" /\ Goto(r, "awaitEnd")
  /\ \E p \in FreeIds : PodCreated(p) /\ cpod' = [cpod EXCEPT ![r] = p]
  /\ UNCHANGED <<envVars, annVars, leaked, loopVars, permits, pair, spod, now, faults>>

CreateClientFails(r) ==
  /\ pc[r] = "createClient" /\ Goto(r, "abortServer")
  /\ CreateFailed
  /\ UNCHANGED <<envVars, annVars, loopVars, permits, pair, spod, cpod, now>>

ClientSucceeded(r) ==
  /\ pc[r] = "awaitEnd" /\ phase[cpod[r]] = "succeeded" /\ Goto(r, "readRecord")
  /\ UNCHANGED <<envVars, annVars, podVars, loopVars, permits, pair, spod, cpod, now, faults>>

(* The pod failed; or the deadline passed, here too looked at first.       *)
ClientFailed(r) ==
  /\ pc[r] = "awaitEnd" /\ Goto(r, "stampServer")
  /\ UNCHANGED <<envVars, annVars, podVars, loopVars, permits, pair, spod, cpod, now, faults>>

ClientDisappeared(r) ==
  /\ pc[r] = "awaitEnd" /\ phase[cpod[r]] = "absent"
  /\ Goto(r, "abortServer")
  /\ UNCHANGED <<envVars, annVars, podVars, loopVars, permits, pair, spod, cpod, now, faults>>

(* The log is fetched and parsed; what it says, or that it cannot be read, *)
(* only decides the verdict.                                               *)
ReadRecord(r) ==
  /\ pc[r] = "readRecord" /\ Goto(r, "stampServer")
  /\ UNCHANGED <<envVars, annVars, podVars, loopVars, permits, pair, spod, cpod, now, faults>>

(* After the patches: an aborted task has no server pod any more.          *)
\* Mutants: an early return keeps its permit; a return without cleanup.
AfterStampsPermitKept(r) ==
  IF spod[r] = NoPod
  THEN Goto(r, "none") /\ pair' = [pair EXCEPT ![r] = NoPair] /\ UNCHANGED <<permits, now>>
  ELSE Goto(r, "dropClient") /\ UNCHANGED <<permits, pair, now>>
AfterStampsNoCleanup(r) == EndTask(r)
AfterStamps(r) ==
  IF spod[r] = NoPod
  THEN EndTask(r)
  ELSE Goto(r, "dropClient") /\ UNCHANGED <<permits, pair, now>>

(* patch_pair reads the clock once and patches the server node first;      *)
(* patch_loopback patches the only node.                                   *)
StampServer(r) ==
  /\ pc[r] = "stampServer"
  /\ \/ /\ IsLoopback(r)
        /\ Patched(loopAt, pair[r][1], clock) /\ AfterStamps(r)
        /\ UNCHANGED rackAt
     \/ /\ ~IsLoopback(r)
        /\ Patched(rackAt, pair[r][1], clock) /\ Goto(r, "stampClient")
        /\ now' = [now EXCEPT ![r] = clock]
        /\ UNCHANGED <<loopAt, permits, pair>>
  /\ UNCHANGED <<envVars, podVars, loopVars, spod, cpod>>

StampClient(r) ==
  /\ pc[r] = "stampClient"
  /\ Patched(rackAt, pair[r][2], now[r]) /\ AfterStamps(r)
  /\ UNCHANGED <<envVars, loopAt, podVars, loopVars, spod, cpod>>

(* cleanup: after a verdict, the client pod first, then the server pod.    *)
DropClient(r) ==
  /\ pc[r] = "dropClient" /\ Goto(r, "dropServer")
  /\ PodDeleted(cpod[r]) /\ cpod' = [cpod EXCEPT ![r] = NoPod]
  /\ UNCHANGED <<envVars, annVars, loopVars, permits, pair, spod, now>>

DropServer(r) ==
  /\ pc[r] = "dropServer" /\ EndTask(r)
  /\ PodDeleted(spod[r]) /\ spod' = [spod EXCEPT ![r] = NoPod]
  /\ UNCHANGED <<envVars, annVars, loopVars, cpod>>

(* The early returns: the server pod first, then the client pod if there   *)
(* is one, and only then the patches.                                      *)
AbortServer(r) ==
  /\ pc[r] = "abortServer"
  /\ Goto(r, IF cpod[r] = NoPod THEN "stampServer" ELSE "abortClient")
  /\ PodDeleted(spod[r]) /\ spod' = [spod EXCEPT ![r] = NoPod]
  /\ UNCHANGED <<envVars, annVars, loopVars, permits, pair, cpod, now>>

AbortClient(r) ==
  /\ pc[r] = "abortClient" /\ Goto(r, "stampServer")
  /\ PodDeleted(cpod[r]) /\ cpod' = [cpod EXCEPT ![r] = NoPod]
  /\ UNCHANGED <<envVars, annVars, loopVars, permits, pair, spod, now>>

Task(r) ==
  \/ CreateServer(r) \/ CreateServerFails(r) \/ ServerHasIp(r) \/ ServerHasNoIp(r)
  \/ CreateClient(r) \/ CreateClientFails(r)
  \/ ClientSucceeded(r) \/ ClientFailed(r) \/ ClientDisappeared(r)
  \/ ReadRecord(r) \/ StampServer(r) \/ StampClient(r)
  \/ DropClient(r) \/ DropServer(r) \/ AbortServer(r) \/ AbortClient(r)

-----------------------------------------------------------------------------
(* The environment: kubelets, whoever evicts pods, node labels, time.      *)

Kubelet(p) ==
  /\ \/ phase[p] = "noIp" /\ phase' = [phase EXCEPT ![p] = "hasIp"]
     \/ phase[p] = "hasIp" /\ phase' = [phase EXCEPT ![p] = "succeeded"]
  /\ UNCHANGED <<envVars, annVars, age, leaked, loopVars, permits, taskVars, faults>>

Evict(p) ==
  /\ phase[p] # "absent" /\ PodGone({p}) /\ leaked' = leaked \ {p}
  /\ Fault
  /\ UNCHANGED <<envVars, annVars, loopVars, permits, taskVars>>

(* A node becomes ready or unready, or the daemon relabels it.             *)
Relabel(n) ==
  /\ moves < MaxMoves /\ moves' = moves + 1
  /\ \E h \in (Racks \cup {NoRack}) \ {home[n]} : home' = [home EXCEPT ![n] = h]
  /\ UNCHANGED <<clock, annVars, podVars, loopVars, permits, taskVars, faults>>

(* Past MaxClock only the pods age.                                        *)
Tick ==
  /\ \/ clock < MaxClock /\ clock' = clock + 1
     \/ clock = MaxClock /\ UNCHANGED clock /\ \E p \in Existing : age[p] <= MaxAge
  /\ age' = [p \in PodIds |-> IF p \in Existing /\ age[p] <= MaxAge THEN age[p] + 1 ELSE age[p]]
  /\ UNCHANGED <<home, moves, annVars, phase, leaked, loopVars, permits, taskVars, faults>>

Next ==
  \/ StartCycle \/ ListNodes \/ ListNodesFails \/ AllDispatched \/ Join \/ Crash \/ Boot
  \/ \E r \in Racks : Dispatch(r) \/ Task(r)
  \/ \E p \in PodIds : Kubelet(p) \/ Evict(p)
  \/ \E n \in Nodes : Relabel(n)
  \/ Tick

Spec == Init /\ [][Next]_vars

Controller ==
  \/ StartCycle \/ ListNodes \/ ListNodesFails \/ AllDispatched \/ Join \/ Boot
  \/ \E r \in Racks : Dispatch(r)

(* The controller and its tasks run while they can, a dead one is started  *)
(* again by its Deployment, and time passes.  Nothing is asked of kubelets *)
(* (every wait has a deadline), and no call is asked to succeed: MaxFaults *)
(* says that failures end some day.                                        *)
FairSpec ==
  /\ Spec
  /\ WF_vars(Controller) /\ WF_vars(Tick)
  /\ \A r \in Racks : WF_vars(Task(r))

-----------------------------------------------------------------------------
(* Safety.                                                                 *)

NodesOf(sc) == {sc[1], sc[2]}

(* Every permit of the cycle's semaphore is free or is one running task's: *)
(* none is lost on an early return, and at most MaxConcurrent probes load  *)
(* the fabric.                                                             *)
PermitsConserved == permits + Cardinality(Live) = MaxConcurrent

(* No node takes part in two probes at once, whatever their racks: a       *)
(* second probe would share the link that the first one measures.          *)
OneProbePerNode ==
  \A r, s \in Live : r # s => NodesOf(pair[r]) \cap NodesOf(pair[s]) = {}

(* Whatever path a task takes, a pod it created is one that it still names *)
(* and will delete, or one whose delete failed, whose create got no answer *)
(* or whose prober died; and no pod is both.                               *)
NoStrandedPod ==
  /\ Existing \subseteq Held \cup leaked
  /\ leaked \subseteq Existing /\ leaked \cap Held = {}

(* When cleanup_orphans runs, and until nodes are listed, no task runs: it *)
(* can hit no pod of a running probe, and no pick overlooks a stamp that a *)
(* task of the cycle before has yet to write.                              *)
QuietBetweenCycles == cycle \in {"down", "idle", "list"} => Live = {}

(* A probe starts only when, by the annotations the nodes carry at that    *)
(* moment (not those listed at the start of the cycle), one of its nodes   *)
(* was last probed longer ago than the cadence, or never.                  *)
StartsDue(r) ==
  LET s == pair'[r][1]
      c == pair'[r][2]
  IN  IF s = c
      THEN Due(loopAt, s, Cutoff)
      ELSE Due(rackAt, s, Cutoff) \/ Due(rackAt, c, Cutoff)
ProbesOnlyWhenDue ==
  [][\A r \in Racks : pc[r] = "none" /\ pc'[r] # "none" => StartsDue(r)]_vars

(* No patch puts back an older timestamp, although patch_pair writes to    *)
(* its second node a time read before it patched the first: least recently *)
(* probed stays what the annotations say.                                  *)
StampsAdvance ==
  [][\A n \in Nodes : rackAt[n] <= rackAt'[n] /\ loopAt[n] <= loopAt'[n]]_vars

(* What the above rests on.  A rack still queued has no task yet.          *)
QueuedNotStarted == \A r \in Racks : queue[r] # {} => pc[r] = "none"

(* A running task has its two nodes.                                       *)
PairsPicked == \A r \in Live : pair[r] \in Nodes \X Nodes

(* The pods that a task names at each of its steps; an aborted task stamps *)
(* with no pod left, one with a verdict stamps while it has both.          *)
PodsByStep ==
  \A r \in Racks :
    /\ pc[r] \in {"none", "createServer", "abortClient"} => spod[r] = NoPod
    /\ pc[r] \in {"none", "createServer", "awaitIp", "createClient", "dropServer"} => cpod[r] = NoPod
    /\ pc[r] \in {"awaitIp", "createClient", "awaitEnd", "readRecord", "dropClient",
                  "dropServer", "abortServer"} => spod[r] # NoPod
    /\ pc[r] \in {"awaitEnd", "readRecord", "dropClient", "abortClient"} => cpod[r] # NoPod
    /\ pc[r] \in {"stampServer", "stampClient"} => (spod[r] = NoPod <=> cpod[r] = NoPod)

(* No pod is named twice.                                                  *)
PodsNamedOnce ==
  \A r, s \in Racks :
    /\ spod[r] # NoPod => spod[r] # cpod[s] /\ (spod[r] = spod[s] => r = s)
    /\ cpod[r] # NoPod /\ cpod[r] = cpod[s] => r = s

(* The nodes of every queued pair and of every running task are apart.     *)
Claimed(r) == (IF pc[r] = "none" THEN {} ELSE NodesOf(pair[r])) \cup UNION {NodesOf(sc) : sc \in queue[r]}
ClaimsApart == \A r, s \in Racks : r # s => Claimed(r) \cap Claimed(s) = {}

(* A queued pair stays due: nobody stamps its nodes before its turn.       *)
QueuedDue ==
  \A r \in Racks : \A sc \in queue[r] :
    IF sc[1] = sc[2]
    THEN Due(loopAt, sc[1], Cutoff)
    ELSE Due(rackAt, sc[1], Cutoff) \/ Due(rackAt, sc[2], Cutoff)

(* No stamp is from the future, and a pair task's second stamp is not      *)
(* older than the one it replaces.                                         *)
StampsPast ==
  /\ \A n \in Nodes : rackAt[n] <= clock /\ loopAt[n] <= clock
  /\ \A r \in Racks : pc[r] = "stampClient" => rackAt[pair[r][2]] <= now[r] /\ now[r] <= clock

IInv ==
  /\ TypeOK /\ PermitsConserved /\ QuietBetweenCycles /\ QueuedNotStarted
  /\ PairsPicked /\ PodsByStep /\ PodsNamedOnce /\ NoStrandedPod
  /\ ClaimsApart /\ QueuedDue /\ StampsPast

(* The cycles implement rounds of disjoint claims (ProbeRounds): a round   *)
(* is open from the listing of the nodes to the join.                      *)
Rounds == INSTANCE ProbeRounds WITH
  Limit  <- MaxConcurrent,
  open   <- cycle \in {"dispatch", "join"},
  claims <- {NodesOf(pair[r]) : r \in Live}
ImplementsRounds == Rounds!Spec

-----------------------------------------------------------------------------
(* Liveness, of FairSpec.                                                  *)

(* Every cycle ends, with tasks waiting for permits, pods that never get   *)
(* an IP or never end, failing calls and restarts.                         *)
CycleEnds == (cycle # "idle") ~> (cycle = "idle")

(* A pod that its task could not delete, or that a dead prober left, is    *)
(* deleted some day by cleanup_orphans.                                    *)
LeaksReclaimed == \A p \in PodIds : (p \in leaked) ~> (p \notin leaked)

(* Every eligible node gets a stamp: no rack is starved by those before it *)
(* in the queue, no node of a rack by its neighbours.                      *)
EveryNodeProbed ==
  \A n \in Nodes : (home[n] # NoRack) ~>
                      (home[n] = NoRack \/ rackAt[n] # Never \/ loopAt[n] # Never)
=============================================================================
