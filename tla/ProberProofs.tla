---------------------------- MODULE ProberProofs ----------------------------
(***************************************************************************)
(* Theorems about the prober, for every set of nodes, racks and pods and   *)
(* every bound.                                                            *)
(***************************************************************************)
EXTENDS Prober, FiniteSetTheorems, TLAPS

(* The part of IInv about types and permits.                               *)
PermitInv ==
  TypeOK /\ PermitsConserved /\ QuietBetweenCycles /\ QueuedNotStarted
  /\ PairsPicked /\ PodsByStep

USE NodesAssumption, RacksAssumption, PodsAssumption, HomeAssumption, BoundsAssumption

-----------------------------------------------------------------------------
(* What the helpers of the actions do.                                     *)

(* The pickers choose among the members of a rack.                         *)
LEMMA PicksAreNodes == \A r \in Racks : Picks(r) \subseteq Nodes \X Nodes
  BY DEF Picks, PickPair, PickLoopback, Members

(* A failed create and a delete keep the types of what they touch.         *)
LEMMA CreateFailedType ==
  TypeOK /\ CreateFailed =>
    /\ phase' \in [PodIds -> Phases] /\ age' \in [PodIds -> 0 .. MaxAge + 1]
    /\ leaked' \subseteq PodIds /\ faults' \in 0 .. MaxFaults
<1> SUFFICES ASSUME TypeOK, CreateFailed
             PROVE  /\ phase' \in [PodIds -> Phases] /\ age' \in [PodIds -> 0 .. MaxAge + 1]
                    /\ leaked' \subseteq PodIds /\ faults' \in 0 .. MaxFaults
  OBVIOUS
<1>1. CASE UNCHANGED podVars /\ (UNCHANGED faults \/ Fault)
  BY <1>1 DEF TypeOK, podVars, Fault
<1>2. CASE Fault /\ \E p \in FreeIds : PodCreated(p) /\ leaked' = leaked \cup {p}
  <2> PICK p \in FreeIds : PodCreated(p) /\ leaked' = leaked \cup {p}
    BY <1>2
  <2>1. p \in PodIds
    BY DEF FreeIds
  <2> QED
    BY <1>2, <2>1 DEF TypeOK, PodCreated, Phases, Fault
<1> QED
  BY <1>1, <1>2 DEF CreateFailed, podVars

LEMMA PodCreatedType ==
  ASSUME TypeOK, NEW p \in FreeIds, PodCreated(p)
  PROVE  p \in PodIds /\ phase' \in [PodIds -> Phases] /\ age' \in [PodIds -> 0 .. MaxAge + 1]
<1>1. p \in PodIds
  BY DEF FreeIds
<1> QED
  BY <1>1 DEF TypeOK, PodCreated, Phases

LEMMA PodGoneType ==
  ASSUME TypeOK, NEW S, PodGone(S)
  PROVE  phase' \in [PodIds -> Phases] /\ age' \in [PodIds -> 0 .. MaxAge + 1]
  BY DEF TypeOK, PodGone, Phases

LEMMA PodDeletedType ==
  ASSUME TypeOK, NEW p \in PodIds \cup {NoPod}, PodDeleted(p)
  PROVE  /\ phase' \in [PodIds -> Phases] /\ age' \in [PodIds -> 0 .. MaxAge + 1]
         /\ p # NoPod => leaked' \subseteq PodIds
         /\ faults' \in 0 .. MaxFaults
<1>1. CASE PodGone({p}) /\ UNCHANGED <<leaked, faults>>
  BY <1>1, PodGoneType DEF TypeOK
<1>2. CASE Fault /\ phase[p] # "absent" /\ leaked' = leaked \cup {p} /\ UNCHANGED <<phase, age>>
  BY <1>2 DEF TypeOK, Fault
<1> QED
  BY <1>1, <1>2 DEF PodDeleted

LEMMA PatchedType ==
  ASSUME TypeOK, NEW n \in Nodes, NEW t \in Nat
  PROVE  /\ Patched(rackAt, n, t) => rackAt' \in [Nodes -> Nat \cup {Never}] /\ faults' \in 0 .. MaxFaults
         /\ Patched(loopAt, n, t) => loopAt' \in [Nodes -> Nat \cup {Never}] /\ faults' \in 0 .. MaxFaults
  BY DEF TypeOK, Patched, Fault

-----------------------------------------------------------------------------
(* A step of task r as the controller sees it: the task goes on, or it     *)
(* ends and its permit is free again.                                      *)
TaskMoves(r, step) ==
  /\ pc[r] # "none" /\ pc' = [pc EXCEPT ![r] = step]
  /\ \/ step # "none" /\ UNCHANGED <<pair, permits>>
     \/ step = "none" /\ pair' = [pair EXCEPT ![r] = NoPair] /\ permits' = permits + 1
  /\ UNCHANGED <<clock, home, moves, cycle, queue>>

LEMMA TaskSummary ==
  ASSUME NEW r \in Racks, Task(r)
  PROVE  \E step \in Steps : TaskMoves(r, step)
<1> USE DEF TaskMoves, Steps, Goto, envVars, loopVars
<1>1. CASE CreateServer(r)
  BY <1>1 DEF CreateServer
<1>2. CASE CreateServerFails(r)
  BY <1>2 DEF CreateServerFails
<1>3. CASE ServerHasIp(r)
  BY <1>3 DEF ServerHasIp
<1>4. CASE ServerHasNoIp(r)
  BY <1>4 DEF ServerHasNoIp
<1>5. CASE CreateClient(r)
  BY <1>5 DEF CreateClient
<1>6. CASE CreateClientFails(r)
  BY <1>6 DEF CreateClientFails
<1>7. CASE ClientSucceeded(r)
  BY <1>7 DEF ClientSucceeded
<1>8. CASE ClientFailed(r)
  BY <1>8 DEF ClientFailed
<1>9. CASE ClientDisappeared(r)
  BY <1>9 DEF ClientDisappeared
<1>10. CASE ReadRecord(r)
  BY <1>10 DEF ReadRecord
<1>11. CASE StampServer(r)
  BY <1>11 DEF StampServer, AfterStamps, EndTask
<1>12. CASE StampClient(r)
  BY <1>12 DEF StampClient, AfterStamps, EndTask
<1>13. CASE DropClient(r)
  BY <1>13 DEF DropClient
<1>14. CASE DropServer(r)
  BY <1>14 DEF DropServer, EndTask
<1>15. CASE AbortServer(r)
  BY <1>15 DEF AbortServer
<1>16. CASE AbortClient(r)
  BY <1>16 DEF AbortClient
<1> QED
  BY <1>1, <1>2, <1>3, <1>4, <1>5, <1>6, <1>7, <1>8, <1>9, <1>10, <1>11, <1>12,
     <1>13, <1>14, <1>15, <1>16 DEF Task

(* Counting the live tasks.                                                *)
LEMMA LiveFinite == IsFiniteSet(Live) /\ Cardinality(Live) \in Nat
  BY FS_Subset, FS_CardinalityType DEF Live

LEMMA LiveGrows ==
  ASSUME pc \in [Racks -> Steps], NEW r \in Racks, pc[r] = "none",
         NEW step, step # "none", pc' = [pc EXCEPT ![r] = step]
  PROVE  Cardinality(Live') = Cardinality(Live) + 1
<1>1. Live' = Live \cup {r} /\ r \notin Live
  BY DEF Live
<1> QED
  BY <1>1, LiveFinite, FS_AddElement

LEMMA LiveShrinks ==
  ASSUME pc \in [Racks -> Steps], NEW r \in Racks, pc[r] # "none",
         pc' = [pc EXCEPT ![r] = "none"]
  PROVE  Cardinality(Live') = Cardinality(Live) - 1
<1>1. Live' = Live \ {r} /\ r \in Live
  BY DEF Live
<1> QED
  BY <1>1, LiveFinite, FS_RemoveElement

(* A task's step keeps the count, and leaves to the types of pc, pair and  *)
(* permits, to the queue and to the cycle nothing to spoil.                *)
LEMMA TaskKeepsPermits ==
  ASSUME PermitInv, NEW r \in Racks, Task(r)
  PROVE  /\ PermitsConserved' /\ QuietBetweenCycles' /\ QueuedNotStarted' /\ PairsPicked'
         /\ clock' \in Nat /\ home' \in [Nodes -> Racks \cup {NoRack}]
         /\ moves' \in 0 .. MaxMoves
         /\ cycle' \in {"down", "idle", "list", "dispatch", "join"}
         /\ queue' \in [Racks -> SUBSET (Nodes \X Nodes)]
         /\ permits' \in 0 .. MaxConcurrent /\ pc' \in [Racks -> Steps]
         /\ pair' \in [Racks -> (Nodes \X Nodes) \cup {NoPair}]
<1> PICK step \in Steps : TaskMoves(r, step)
  BY TaskSummary
<1> USE DEF TaskMoves, PermitInv, TypeOK
<1>1. PermitsConserved' /\ permits' \in 0 .. MaxConcurrent
  <2>1. CASE step # "none"
    <3>1. Live' = Live
      BY <2>1 DEF Live
    <3> QED
      BY <2>1, <3>1 DEF PermitsConserved
  <2>2. CASE step = "none"
    <3>1. Cardinality(Live') = Cardinality(Live) - 1
      BY <2>2, LiveShrinks
    <3>2. Cardinality(Live') \in Nat
      <4>1. IsFiniteSet(Live')
        BY FS_Subset DEF Live
      <4> QED
        BY <4>1, FS_CardinalityType
    <3> QED
      BY <2>2, <3>1, <3>2, LiveFinite DEF PermitsConserved
  <2> QED
    BY <2>1, <2>2
<1>2. QuietBetweenCycles' /\ QueuedNotStarted'
  BY DEF QuietBetweenCycles, QueuedNotStarted, Live
<1>3. clock' \in Nat /\ home' \in [Nodes -> Racks \cup {NoRack}] /\ moves' \in 0 .. MaxMoves
      /\ cycle' \in {"down", "idle", "list", "dispatch", "join"}
      /\ queue' \in [Racks -> SUBSET (Nodes \X Nodes)]
      /\ pc' \in [Racks -> Steps]
  OBVIOUS
<1>4. pair' \in [Racks -> (Nodes \X Nodes) \cup {NoPair}]
  OBVIOUS
<1>5. PairsPicked'
  BY DEF PairsPicked, Live
<1> QED
  BY <1>1, <1>2, <1>3, <1>4, <1>5

(* The pods and the stamps after a step of a task.                         *)
LEMMA TaskTypes ==
  ASSUME PermitInv, NEW r \in Racks, Task(r)
  PROVE  /\ rackAt' \in [Nodes -> Nat \cup {Never}] /\ loopAt' \in [Nodes -> Nat \cup {Never}]
         /\ phase' \in [PodIds -> Phases] /\ age' \in [PodIds -> 0 .. MaxAge + 1]
         /\ leaked' \subseteq PodIds
         /\ spod' \in [Racks -> PodIds \cup {NoPod}] /\ cpod' \in [Racks -> PodIds \cup {NoPod}]
         /\ now' \in [Racks -> Nat]
         /\ faults' \in 0 .. MaxFaults
<1> USE DEF PermitInv, annVars, podVars
<1> DEFINE Q ==
         /\ rackAt' \in [Nodes -> Nat \cup {Never}] /\ loopAt' \in [Nodes -> Nat \cup {Never}]
         /\ phase' \in [PodIds -> Phases] /\ age' \in [PodIds -> 0 .. MaxAge + 1]
         /\ leaked' \subseteq PodIds
         /\ spod' \in [Racks -> PodIds \cup {NoPod}] /\ cpod' \in [Racks -> PodIds \cup {NoPod}]
         /\ now' \in [Racks -> Nat]
         /\ faults' \in 0 .. MaxFaults
<1>1. CASE CreateServer(r) \/ CreateClient(r)
  <2> PICK p \in FreeIds : PodCreated(p) /\ \/ spod' = [spod EXCEPT ![r] = p] /\ UNCHANGED cpod
                                            \/ cpod' = [cpod EXCEPT ![r] = p] /\ UNCHANGED spod
    BY <1>1 DEF CreateServer, CreateClient
  <2> QED
    BY <1>1, PodCreatedType DEF CreateServer, CreateClient, TypeOK
<1>2. CASE CreateServerFails(r) \/ CreateClientFails(r)
  BY <1>2, CreateFailedType DEF CreateServerFails, CreateClientFails, TypeOK
<1>3. CASE ServerHasIp(r) \/ ServerHasNoIp(r)
           \/ ClientSucceeded(r) \/ ClientFailed(r) \/ ClientDisappeared(r) \/ ReadRecord(r)
  BY <1>3 DEF ServerHasIp, ServerHasNoIp, ClientSucceeded, ClientFailed, ClientDisappeared,
              ReadRecord, TypeOK
<1>4. CASE StampServer(r) \/ StampClient(r)
  <2>1. pair[r][1] \in Nodes /\ pair[r][2] \in Nodes /\ clock \in Nat /\ now[r] \in Nat
    BY <1>4 DEF StampServer, StampClient, PairsPicked, Live, TypeOK
  <2>2. now' \in [Racks -> Nat]
    BY <1>4, <2>1 DEF StampServer, StampClient, AfterStamps, EndTask, TypeOK
  <2> QED
    BY <1>4, <2>1, <2>2, PatchedType DEF StampServer, StampClient, TypeOK
<1>5. CASE DropClient(r) \/ AbortClient(r)
  <2>1. cpod[r] \in PodIds
    BY <1>5 DEF DropClient, AbortClient, PodsByStep, TypeOK
  <2> QED
    BY <1>5, <2>1, PodDeletedType DEF DropClient, AbortClient, TypeOK
<1>6. CASE DropServer(r) \/ AbortServer(r)
  <2>1. spod[r] \in PodIds
    BY <1>6 DEF DropServer, AbortServer, PodsByStep, TypeOK
  <2> QED
    BY <1>6, <2>1, PodDeletedType DEF DropServer, AbortServer, EndTask, TypeOK
<1> QED
  BY <1>1, <1>2, <1>3, <1>4, <1>5, <1>6 DEF Task

(* The pods named after a step of a task.                                  *)
LEMMA TaskPodsByStep ==
  ASSUME PermitInv, NEW r \in Racks, Task(r)
  PROVE  PodsByStep'
<1> USE DEF PermitInv, PodsByStep, TypeOK, Steps, Goto
<1>1. CASE CreateServer(r) \/ CreateClient(r)
  <2>1. \A p \in FreeIds : p # NoPod
    BY DEF FreeIds
  <2> QED
    BY <1>1, <2>1 DEF CreateServer, CreateClient
<1>2. CASE CreateServerFails(r) \/ CreateClientFails(r)
  BY <1>2 DEF CreateServerFails, CreateClientFails
<1>3. CASE ServerHasIp(r) \/ ServerHasNoIp(r)
           \/ ClientSucceeded(r) \/ ClientFailed(r) \/ ClientDisappeared(r) \/ ReadRecord(r)
  BY <1>3 DEF ServerHasIp, ServerHasNoIp, ClientSucceeded, ClientFailed, ClientDisappeared,
              ReadRecord
<1>4. CASE StampServer(r) \/ StampClient(r)
  BY <1>4 DEF StampServer, StampClient, AfterStamps, EndTask
<1>5. CASE DropClient(r) \/ AbortClient(r)
  BY <1>5 DEF DropClient, AbortClient
<1>6. CASE DropServer(r) \/ AbortServer(r)
  BY <1>6 DEF DropServer, AbortServer, EndTask
<1> QED
  BY <1>1, <1>2, <1>3, <1>4, <1>5, <1>6 DEF Task

-----------------------------------------------------------------------------
(* PermitInv is inductive.                                                 *)

LEMMA PermitInit == Init => PermitInv
<1> SUFFICES ASSUME Init PROVE PermitInv
  OBVIOUS
<1> USE DEF Init, NoTasks, EmptyQueue
<1>1. TypeOK
  BY DEF TypeOK, Steps, Phases
<1>2. Live = {}
  BY DEF Live
<1>3. PermitsConserved
  BY <1>2, FS_EmptySet DEF PermitsConserved
<1> QED
  BY <1>1, <1>2, <1>3 DEF PermitInv, QuietBetweenCycles, QueuedNotStarted, PairsPicked, PodsByStep

(* The steps of run and run_once.                                          *)
LEMMA ControllerKeepsPermits ==
  ASSUME PermitInv, Controller \/ Crash
  PROVE  PermitInv'
<1> USE DEF PermitInv, envVars, annVars, podVars, loopVars, taskVars
<1>1. CASE StartCycle \/ ListNodesFails \/ AllDispatched \/ Join \/ Boot
  <2>1. Live' = Live
    BY <1>1 DEF StartCycle, ListNodesFails, AllDispatched, Join, Boot, Live
  <2>2. TypeOK'
    <3>1. CASE StartCycle
      <4> PICK kept \in SUBSET Stale :
                 /\ UNCHANGED faults \/ Fault
                 /\ PodGone(Stale \ kept) /\ leaked' = leaked \ (Stale \ kept)
        BY <3>1 DEF StartCycle
      <4>1. phase' \in [PodIds -> Phases] /\ age' \in [PodIds -> 0 .. MaxAge + 1]
        BY PodGoneType
      <4> QED
        BY <3>1, <4>1 DEF StartCycle, TypeOK, Fault
    <3>2. CASE ListNodesFails \/ AllDispatched \/ Join \/ Boot
      BY <3>2 DEF ListNodesFails, AllDispatched, Join, Boot, TypeOK, Fault
    <3> QED
      BY <1>1, <3>1, <3>2
  <2> QED
    BY <1>1, <2>1, <2>2
       DEF StartCycle, ListNodesFails, AllDispatched, Join, Boot, PermitsConserved,
           QuietBetweenCycles, QueuedNotStarted, PairsPicked, PodsByStep
<1>2. CASE ListNodes
  <2>1. Live = {} /\ Live' = {}
    BY <1>2 DEF ListNodes, QuietBetweenCycles, Live
  <2>2. PermitsConserved'
    BY <1>2, <2>1, FS_EmptySet DEF ListNodes, PermitsConserved
  <2>3. queue' \in [Racks -> SUBSET (Nodes \X Nodes)]
    BY <1>2, PicksAreNodes DEF ListNodes
  <2>4. TypeOK'
    BY <1>2, <2>3 DEF ListNodes, TypeOK
  <2> QED
    BY <1>2, <2>1, <2>2, <2>4
       DEF ListNodes, QuietBetweenCycles, QueuedNotStarted, PairsPicked, PodsByStep, Live
<1>3. CASE \E r \in Racks : Dispatch(r)
  <2> PICK r \in Racks : Dispatch(r)
    BY <1>3
  <2> PICK sc \in queue[r] : pair' = [pair EXCEPT ![r] = sc]
    BY DEF Dispatch
  <2> USE DEF Dispatch
  <2>1. sc \in Nodes \X Nodes /\ pc[r] = "none"
    BY DEF TypeOK, QueuedNotStarted
  <2>2. Cardinality(Live') = Cardinality(Live) + 1
    BY <2>1, LiveGrows DEF TypeOK
  <2>3. PermitsConserved'
    BY <2>2, LiveFinite DEF PermitsConserved, TypeOK
  <2>4. TypeOK'
    BY <2>1 DEF TypeOK, Steps
  <2>5. QuietBetweenCycles' /\ QueuedNotStarted'
    BY DEF QuietBetweenCycles, QueuedNotStarted, TypeOK
  <2>6. PairsPicked'
    BY <2>1 DEF PairsPicked, Live, TypeOK
  <2>7. PodsByStep'
    BY <2>1 DEF PodsByStep, TypeOK
  <2> QED
    BY <2>3, <2>4, <2>5, <2>6, <2>7
<1>4. CASE Crash
  <2> USE <1>4 DEF Crash
  <2>1. Live' = {}
    BY DEF Live
  <2>2. TypeOK'
    BY DEF TypeOK, Fault, Existing, EmptyQueue, Steps
  <2>3. PermitsConserved'
    BY <2>1, FS_EmptySet DEF PermitsConserved
  <2> QED
    BY <2>1, <2>2, <2>3 DEF QuietBetweenCycles, QueuedNotStarted, PairsPicked, PodsByStep
<1> QED
  BY <1>1, <1>2, <1>3, <1>4 DEF Controller

(* What moves around the prober.                                           *)
Environment ==
  \/ \E p \in PodIds : Kubelet(p) \/ Evict(p)
  \/ \E n \in Nodes : Relabel(n)
  \/ Tick

LEMMA EnvironmentKeepsPermits ==
  ASSUME PermitInv, Environment \/ UNCHANGED vars
  PROVE  PermitInv'
<1> USE DEF PermitInv, envVars, annVars, podVars, loopVars, taskVars
<1>1. UNCHANGED <<cycle, queue, permits, pc, pair, spod, cpod, now>>
  BY DEF Environment, Kubelet, Evict, Relabel, Tick, vars
<1>2. TypeOK'
  <2>1. CASE \E p \in PodIds : Kubelet(p)
    BY <1>1, <2>1 DEF Kubelet, TypeOK, Phases
  <2>2. CASE \E p \in PodIds : Evict(p)
    BY <1>1, <2>2, PodGoneType DEF Evict, TypeOK, Fault
  <2>3. CASE \E n \in Nodes : Relabel(n)
    BY <1>1, <2>3 DEF Relabel, TypeOK
  <2>4. CASE Tick
    BY <1>1, <2>4 DEF Tick, TypeOK
  <2>5. CASE UNCHANGED vars
    BY <2>5 DEF vars, TypeOK
  <2> QED
    BY <2>1, <2>2, <2>3, <2>4, <2>5 DEF Environment
<1> QED
  BY <1>1, <1>2
     DEF Live, PermitsConserved, QuietBetweenCycles, QueuedNotStarted, PairsPicked, PodsByStep

LEMMA PermitNext == PermitInv /\ [Next]_vars => PermitInv'
<1> SUFFICES ASSUME PermitInv, [Next]_vars PROVE PermitInv'
  OBVIOUS
<1>1. CASE Controller \/ Crash
  BY <1>1, ControllerKeepsPermits
<1>2. CASE \E r \in Racks : Task(r)
  <2> PICK r \in Racks : Task(r)
    BY <1>2
  <2> QED
    BY TaskKeepsPermits, TaskTypes, TaskPodsByStep DEF PermitInv, TypeOK
<1>3. CASE Environment \/ UNCHANGED vars
  BY <1>3, EnvironmentKeepsPermits
<1> QED
  BY <1>1, <1>2, <1>3 DEF Next, Controller, Environment

(* Types, permits and what the tasks name, at every moment.                *)
THEOREM PermitInvariant == Spec => []PermitInv
<1> QED
  BY PermitInit, PermitNext, PTL DEF Spec

(* At every moment every permit is free or is one running task's: none is  *)
(* lost on an early return of probe_pair or probe_loopback, and never more *)
(* than max_concurrent_pairs probes run.                                   *)
THEOREM PermitsAreConserved == Spec => [](TypeOK /\ PermitsConserved)
<1>1. PermitInv => TypeOK /\ PermitsConserved
  BY DEF PermitInv
<1> QED
  BY <1>1, PermitInvariant, PTL

(* run_once joins its tasks before it returns, so none runs while the      *)
(* orphans of the next cycle are deleted and its nodes are listed, nor     *)
(* when the process is started again.                                      *)
THEOREM CyclesAreQuiet == Spec => []QuietBetweenCycles
<1>1. PermitInv => QuietBetweenCycles
  BY DEF PermitInv
<1> QED
  BY <1>1, PermitInvariant, PTL

-----------------------------------------------------------------------------
(* No pod is lost.  Every step of a task gives one pod to one task, takes  *)
(* one from it, or leaves behind one that nobody named.                    *)

PodInv == PermitInv /\ PodsNamedOnce /\ NoStrandedPod

(* Only live tasks name pods.                                              *)
Named == {p \in PodIds : \E r \in Racks : spod[r] = p \/ cpod[r] = p}

LEMMA HeldIsNamed == PermitInv => Held = Named
<1> SUFFICES ASSUME PermitInv PROVE Held = Named
  OBVIOUS
<1>1. \A r \in Racks : pc[r] = "none" => spod[r] = NoPod /\ cpod[r] = NoPod
  BY DEF PermitInv, PodsByStep
<1>2. \A r \in Racks : spod[r] \in PodIds \cup {NoPod} /\ cpod[r] \in PodIds \cup {NoPod}
  BY DEF PermitInv, TypeOK
<1>3. NoPod \notin PodIds
  OBVIOUS
<1>4. Held \subseteq Named
  <2> SUFFICES ASSUME NEW p \in Held PROVE p \in Named
    OBVIOUS
  <2> PICK r \in Live : p \in {spod[r], cpod[r]}
    BY DEF Held
  <2> QED
    BY <1>2 DEF Held, Named, Live
<1>5. Named \subseteq Held
  BY <1>1, <1>3 DEF Held, Named, Live
<1> QED
  BY <1>4, <1>5

NamesKept == UNCHANGED <<spod, cpod>>
Names(r, p) ==
  \/ spod[r] = NoPod /\ spod' = [spod EXCEPT ![r] = p] /\ UNCHANGED cpod
  \/ cpod[r] = NoPod /\ cpod' = [cpod EXCEPT ![r] = p] /\ UNCHANGED spod
Forgets(r, p) ==
  \/ spod[r] = p /\ spod' = [spod EXCEPT ![r] = NoPod] /\ UNCHANGED cpod
  \/ cpod[r] = p /\ cpod' = [cpod EXCEPT ![r] = NoPod] /\ UNCHANGED spod

PodStep(r) ==
  \/ NamesKept /\ UNCHANGED <<Existing, leaked>>
  \/ \E p \in FreeIds : NamesKept /\ Existing' = Existing \cup {p} /\ leaked' = leaked \cup {p}
  \/ \E p \in FreeIds : Names(r, p) /\ Existing' = Existing \cup {p} /\ leaked' = leaked
  \/ \E p \in PodIds : Forgets(r, p) /\ Existing' = Existing \ {p} /\ leaked' = leaked
  \/ \E p \in Existing : Forgets(r, p) /\ Existing' = Existing /\ leaked' = leaked \cup {p}

LEMMA PodDeletedEffect ==
  ASSUME TypeOK, NEW p \in PodIds, PodDeleted(p)
  PROVE  \/ Existing' = Existing \ {p} /\ leaked' = leaked
         \/ p \in Existing /\ Existing' = Existing /\ leaked' = leaked \cup {p}
<1>1. CASE PodGone({p}) /\ UNCHANGED <<leaked, faults>>
  BY <1>1 DEF PodGone, Existing, TypeOK
<1>2. CASE phase[p] # "absent" /\ leaked' = leaked \cup {p} /\ UNCHANGED <<phase, age>>
  BY <1>2 DEF Existing
<1> QED
  BY <1>1, <1>2 DEF PodDeleted

LEMMA PodCreatedEffect ==
  ASSUME TypeOK, NEW p \in FreeIds, PodCreated(p)
  PROVE  Existing' = Existing \cup {p}
  BY DEF PodCreated, Existing, FreeIds, TypeOK

LEMMA TaskPodStep ==
  ASSUME PermitInv, NEW r \in Racks, Task(r)
  PROVE  PodStep(r)
<1> USE DEF PermitInv, podVars
<1>1. CASE CreateServer(r)
  <2> PICK p \in FreeIds : PodCreated(p) /\ spod' = [spod EXCEPT ![r] = p]
    BY <1>1 DEF CreateServer
  <2>1. Names(r, p)
    BY <1>1 DEF CreateServer, PodsByStep, Names
  <2> QED
    BY <1>1, <2>1, PodCreatedEffect DEF CreateServer, PodStep
<1>2. CASE CreateClient(r)
  <2> PICK p \in FreeIds : PodCreated(p) /\ cpod' = [cpod EXCEPT ![r] = p]
    BY <1>2 DEF CreateClient
  <2>1. Names(r, p)
    BY <1>2 DEF CreateClient, PodsByStep, Names
  <2> QED
    BY <1>2, <2>1, PodCreatedEffect DEF CreateClient, PodStep
<1>3. CASE CreateServerFails(r) \/ CreateClientFails(r)
  <2>1. NamesKept /\ CreateFailed
    BY <1>3 DEF CreateServerFails, CreateClientFails, NamesKept
  <2>2. CASE UNCHANGED podVars
    BY <2>1, <2>2 DEF PodStep, Existing
  <2>3. CASE \E p \in FreeIds : PodCreated(p) /\ leaked' = leaked \cup {p}
    BY <2>1, <2>3, PodCreatedEffect DEF PodStep
  <2> QED
    BY <2>1, <2>2, <2>3 DEF CreateFailed
<1>4. CASE ServerHasIp(r) \/ ServerHasNoIp(r)
           \/ ClientSucceeded(r) \/ ClientFailed(r) \/ ClientDisappeared(r) \/ ReadRecord(r)
           \/ StampServer(r) \/ StampClient(r)
  BY <1>4 DEF ServerHasIp, ServerHasNoIp, ClientSucceeded, ClientFailed, ClientDisappeared,
              ReadRecord, StampServer, StampClient, PodStep, NamesKept, Existing
<1>5. CASE DropClient(r) \/ AbortClient(r)
  <2>1. cpod[r] \in PodIds /\ PodDeleted(cpod[r]) /\ Forgets(r, cpod[r])
    BY <1>5 DEF DropClient, AbortClient, PodsByStep, TypeOK, Forgets
  <2> QED
    BY <2>1, PodDeletedEffect DEF PodStep
<1>6. CASE DropServer(r) \/ AbortServer(r)
  <2>1. spod[r] \in PodIds /\ PodDeleted(spod[r]) /\ Forgets(r, spod[r])
    BY <1>6 DEF DropServer, AbortServer, PodsByStep, TypeOK, Forgets
  <2> QED
    BY <2>1, PodDeletedEffect DEF PodStep
<1> QED
  BY <1>1, <1>2, <1>3, <1>4, <1>5, <1>6 DEF Task

LEMMA TaskKeepsPods ==
  ASSUME PodInv, PermitInv', NEW r \in Racks, Task(r)
  PROVE  PodsNamedOnce' /\ NoStrandedPod'
<1>1. Held = Named /\ Held' = Named'
  <2>1. (PermitInv => Held = Named)'
    BY HeldIsNamed, PTL
  <2> QED
    BY <2>1, HeldIsNamed DEF PodInv
<1>2. PodStep(r) /\ TypeOK
  BY TaskPodStep DEF PodInv, PermitInv
<1> USE DEF PodInv, PodsNamedOnce, NoStrandedPod
<1>3. CASE NamesKept /\ UNCHANGED <<Existing, leaked>>
  BY <1>1, <1>3 DEF NamesKept, Named
<1>4. CASE \E p \in FreeIds : NamesKept /\ Existing' = Existing \cup {p} /\ leaked' = leaked \cup {p}
  BY <1>1, <1>4 DEF NamesKept, Named, FreeIds
<1>5. CASE \E p \in FreeIds : Names(r, p) /\ Existing' = Existing \cup {p} /\ leaked' = leaked
  <2> PICK p \in FreeIds : Names(r, p) /\ Existing' = Existing \cup {p} /\ leaked' = leaked
    BY <1>5
  <2>1. p \in PodIds /\ p \notin Named /\ p \notin Existing /\ p # NoPod
    BY <1>1 DEF FreeIds, Existing
  <2>2. Named' = Named \cup {p}
    BY <1>2, <2>1 DEF Named, Names, TypeOK
  <2>3. \A q \in Racks : spod[q] # p /\ cpod[q] # p
    BY <2>1 DEF Named
  <2>4. PodsNamedOnce'
    BY <1>2, <2>1, <2>3 DEF Names, TypeOK
  <2> QED
    BY <1>1, <2>1, <2>2, <2>4
<1>6. ASSUME NEW p \in PodIds, Forgets(r, p)
      PROVE  PodsNamedOnce' /\ Named' = Named \ {p} /\ p \in Named
  <2>1. p # NoPod
    OBVIOUS
  <2>2. p \in Named
    BY <1>6 DEF Forgets, Named
  <2>3. PodsNamedOnce'
    BY <1>2, <1>6 DEF Forgets, TypeOK
  <2>4. Named' = Named \ {p}
    BY <1>2, <1>6, <2>1 DEF Forgets, Named, TypeOK
  <2> QED
    BY <2>2, <2>3, <2>4
<1>7. CASE \E p \in PodIds : Forgets(r, p) /\ Existing' = Existing \ {p} /\ leaked' = leaked
  BY <1>1, <1>6, <1>7
<1>8. CASE \E p \in Existing : Forgets(r, p) /\ Existing' = Existing /\ leaked' = leaked \cup {p}
  BY <1>1, <1>6, <1>8 DEF Existing
<1> QED
  BY <1>2, <1>3, <1>4, <1>5, <1>7, <1>8 DEF PodStep

LEMMA PodInit == Init => PodInv
<1> SUFFICES ASSUME Init PROVE PodInv
  OBVIOUS
<1>1. Existing = {} /\ leaked = {}
  BY DEF Init, Existing
<1> QED
  BY <1>1, PermitInit DEF PodInv, PodsNamedOnce, NoStrandedPod, Init, NoTasks

LEMMA OthersKeepPods ==
  ASSUME PodInv, PermitInv', Controller \/ Crash \/ Environment \/ UNCHANGED vars
  PROVE  PodsNamedOnce' /\ NoStrandedPod'
<1>1. Held = Named /\ Held' = Named'
  <2>1. (PermitInv => Held = Named)'
    BY HeldIsNamed, PTL
  <2> QED
    BY <2>1, HeldIsNamed DEF PodInv
<1> USE DEF PodInv, PodsNamedOnce, NoStrandedPod, envVars, annVars, podVars, taskVars
<1>2. CASE StartCycle
  <2> PICK kept \in SUBSET Stale :
             PodGone(Stale \ kept) /\ leaked' = leaked \ (Stale \ kept)
    BY <1>2 DEF StartCycle
  <2>1. NamesKept /\ Named' = Named
    BY <1>2 DEF StartCycle, NamesKept, Named
  <2>2. Named = {}
    BY <1>1, <1>2 DEF StartCycle, PermitInv, QuietBetweenCycles, Held
  <2>3. Existing' = Existing \ (Stale \ kept)
    BY DEF PodGone, Existing, Stale
  <2> QED
    BY <1>1, <2>1, <2>2, <2>3 DEF NamesKept
<1>3. CASE ListNodes \/ ListNodesFails \/ AllDispatched \/ Join \/ Boot \/ \E r \in Racks : Dispatch(r)
  <2>1. UNCHANGED <<spod, cpod, phase, leaked>>
    BY <1>3 DEF ListNodes, ListNodesFails, AllDispatched, Join, Boot, Dispatch
  <2> QED
    BY <1>1, <2>1 DEF Named, Existing
<1>4. CASE Crash
  <2>1. Named' = {} /\ leaked' = leaked \cup (Held \cap Existing) /\ Existing' = Existing
    BY <1>4 DEF Crash, Named, Existing
  <2> QED
    BY <1>1, <1>4, <2>1 DEF Crash
<1>5. CASE \E p \in PodIds : Evict(p)
  <2> PICK p \in PodIds : Evict(p)
    BY <1>5
  <2>1. UNCHANGED <<spod, cpod>> /\ Existing' = Existing \ {p} /\ leaked' = leaked \ {p}
    BY DEF Evict, PodGone, Existing
  <2> QED
    BY <1>1, <2>1 DEF Named
<1>6. CASE (\E p \in PodIds : Kubelet(p)) \/ (\E n \in Nodes : Relabel(n)) \/ Tick \/ UNCHANGED vars
  <2>1. UNCHANGED <<spod, cpod, leaked>> /\ Existing' = Existing
    BY <1>6 DEF Kubelet, Relabel, Tick, vars, Existing, PermitInv, TypeOK
  <2> QED
    BY <1>1, <2>1 DEF Named
<1> QED
  BY <1>2, <1>3, <1>4, <1>5, <1>6 DEF Controller, Environment

(* And every pod accounted for.                                            *)
THEOREM PodInvariant == Spec => []PodInv
<1>1. PodInv /\ PermitInv' /\ [Next]_vars => PodInv'
  BY TaskKeepsPods, OthersKeepPods DEF PodInv, Next, Controller, Environment
<1> QED
  BY <1>1, PodInit, PermitInvariant, PTL DEF Spec

(* Whatever step a task fails at and whenever the prober dies, a pod that  *)
(* exists is named by one live task, which will delete it, or is known to  *)
(* be left to cleanup_orphans; no pod is both.                             *)
THEOREM NoPodIsStranded == Spec => []NoStrandedPod
<1>1. PodInv => NoStrandedPod
  BY DEF PodInv
<1> QED
  BY <1>1, PodInvariant, PTL

-----------------------------------------------------------------------------
(* No node is probed twice at once: the racks of one listing are disjoint, *)
(* and what a rack has claimed only shrinks until the next.                *)

ClaimInv == PermitInv /\ ClaimsApart

LEMMA TaskKeepsClaims ==
  ASSUME ClaimInv, NEW r \in Racks, Task(r)
  PROVE  ClaimsApart'
<1> PICK step \in Steps : TaskMoves(r, step)
  BY TaskSummary
<1>1. \A q \in Racks : Claimed(q)' \subseteq Claimed(q)
  BY DEF TaskMoves, Claimed, NodesOf, ClaimInv, PermitInv, TypeOK
<1> QED
  BY <1>1 DEF ClaimInv, ClaimsApart

LEMMA OthersKeepClaims ==
  ASSUME ClaimInv, Controller \/ Crash \/ Environment \/ UNCHANGED vars
  PROVE  ClaimsApart'
<1> USE DEF ClaimInv, ClaimsApart, PermitInv, TypeOK
<1>1. CASE ListNodes
  <2>1. \A r \in Racks : pc'[r] = "none"
    BY <1>1 DEF ListNodes, QuietBetweenCycles, Live, taskVars
  <2>2. \A r \in Racks : \A sc \in Picks(r) : NodesOf(sc) \subseteq Members(r)
    BY DEF Picks, PickPair, PickLoopback, NodesOf
  <2>3. \A r \in Racks : Claimed(r)' \subseteq Members(r)
    BY <1>1, <2>1, <2>2 DEF ListNodes, Claimed
  <2> QED
    BY <2>3 DEF Members
<1>2. CASE \E r \in Racks : Dispatch(r)
  <2> PICK r \in Racks : Dispatch(r)
    BY <1>2
  <2> PICK sc \in queue[r] : pair' = [pair EXCEPT ![r] = sc]
    BY DEF Dispatch
  <2>1. Claimed(r)' \subseteq Claimed(r)
    BY DEF Dispatch, Claimed
  <2>2. \A q \in Racks \ {r} : Claimed(q)' = Claimed(q)
    BY DEF Dispatch, Claimed
  <2> QED
    BY <2>1, <2>2
<1>3. CASE Crash
  <2>1. \A r \in Racks : Claimed(r)' = {}
    BY <1>3 DEF Crash, Claimed, EmptyQueue
  <2> QED
    BY <2>1
<1>4. CASE StartCycle \/ ListNodesFails \/ AllDispatched \/ Join \/ Boot \/ Environment \/ UNCHANGED vars
  <2>1. UNCHANGED <<pc, pair, queue>>
    BY <1>4 DEF StartCycle, ListNodesFails, AllDispatched, Join, Boot, Environment, Kubelet,
                Evict, Relabel, Tick, vars, taskVars, loopVars
  <2> QED
    BY <2>1 DEF Claimed
<1> QED
  BY <1>1, <1>2, <1>3, <1>4 DEF Controller

LEMMA ClaimInit == Init => ClaimsApart
  BY DEF Init, NoTasks, EmptyQueue, ClaimsApart, Claimed

(* The nodes of queued pairs and of running tasks are apart.               *)
THEOREM ClaimInvariant == Spec => []ClaimInv
<1>1. ClaimInv /\ [Next]_vars => ClaimsApart'
  BY TaskKeepsClaims, OthersKeepClaims DEF ClaimInv, Next, Controller, Environment
<1> QED
  BY <1>1, ClaimInit, PermitInvariant, PTL DEF Spec, ClaimInv

(* No node takes part in two running probes, also when it is relabelled    *)
(* while its rack is being probed.                                         *)
THEOREM OneProbeAtATime == Spec => []OneProbePerNode
<1>1. ClaimInv => OneProbePerNode
  BY DEF ClaimInv, ClaimsApart, Claimed, OneProbePerNode, Live
<1> QED
  BY <1>1, ClaimInvariant, PTL

-----------------------------------------------------------------------------
(* Stamps and cadence.                                                     *)

ClockInv == ClaimInv /\ QueuedDue /\ StampsPast

(* What a step of a task does to the stamps.                               *)
StampStep(r) ==
  /\ \A n \in Nodes :
       /\ rackAt[n] <= rackAt'[n] /\ rackAt'[n] <= clock
       /\ loopAt[n] <= loopAt'[n] /\ loopAt'[n] <= clock
  /\ \A n \in Nodes \ NodesOf(pair[r]) : rackAt'[n] = rackAt[n] /\ loopAt'[n] = loopAt[n]
  /\ pc'[r] = "stampClient" =>
       pair' = pair /\ rackAt'[pair[r][2]] <= now'[r] /\ now'[r] <= clock
  /\ \A s \in Racks \ {r} : now'[s] = now[s]

LEMMA StampTypes ==
  ClockInv =>
    /\ rackAt \in [Nodes -> Int] /\ loopAt \in [Nodes -> Int] /\ clock \in Int
    /\ now \in [Racks -> Int]
  BY DEF ClockInv, ClaimInv, PermitInv, TypeOK, Never

LEMMA TaskStampStep ==
  ASSUME ClockInv, NEW r \in Racks, Task(r)
  PROVE  StampStep(r)
<1>t. /\ rackAt \in [Nodes -> Int] /\ loopAt \in [Nodes -> Int] /\ clock \in Int
      /\ now \in [Racks -> Int] /\ r \in Racks
  BY StampTypes
<1> DEFINE KeepsNow == pc'[r] # "stampClient" /\ \A s \in Racks \ {r} : now'[s] = now[s]
<1>p. StampsPast
  BY DEF ClockInv
<1>pp. ASSUME pc[r] # "none" PROVE pair[r] \in Nodes \X Nodes
  BY <1>pp DEF ClockInv, ClaimInv, PermitInv, PairsPicked, Live
<1>pc. pc \in [Racks -> Steps]
  BY DEF ClockInv, ClaimInv, PermitInv, TypeOK
<1>1. CASE rackAt' = rackAt /\ loopAt' = loopAt /\ KeepsNow
  BY <1>p, <1>t, <1>1 DEF StampStep, StampsPast
<1>2. CASE StampServer(r)
  <2>1. pair[r] \in Nodes \X Nodes /\ pair[r][1] \in Nodes /\ pair[r][2] \in Nodes
    BY <1>2, <1>pp DEF StampServer
  <2>2. CASE IsLoopback(r)
    <3>1. Patched(loopAt, pair[r][1], clock) /\ rackAt' = rackAt /\ AfterStamps(r)
      BY <1>2, <2>2 DEF StampServer
    <3>2. \A m \in Nodes : /\ loopAt[m] <= loopAt'[m]
                           /\ loopAt'[m] = loopAt[m] \/ (m = pair[r][1] /\ loopAt'[m] = clock)
      BY <1>p, <1>t, <2>1, <3>1 DEF Patched, StampsPast
    <3>3. KeepsNow
      BY <1>t, <1>pc, <3>1 DEF AfterStamps, EndTask, Goto
    <3> QED
      BY <1>p, <1>t, <3>1, <3>2, <3>3 DEF StampStep, StampsPast, NodesOf
  <2>3. CASE ~IsLoopback(r)
    <3>1. /\ Patched(rackAt, pair[r][1], clock) /\ loopAt' = loopAt
          /\ pair' = pair /\ now' = [now EXCEPT ![r] = clock]
      BY <1>2, <2>3 DEF StampServer
    <3>2. \A m \in Nodes : /\ rackAt[m] <= rackAt'[m]
                           /\ rackAt'[m] = rackAt[m] \/ (m = pair[r][1] /\ rackAt'[m] = clock)
      BY <1>p, <1>t, <2>1, <3>1 DEF Patched, StampsPast
    <3>3. \A m \in Nodes : rackAt'[m] \in Int /\ rackAt'[m] <= clock
      <4> TAKE m \in Nodes
      <4>1. rackAt[m] \in Int /\ rackAt[m] <= clock
        BY <1>p, <1>t DEF StampsPast
      <4> QED
        BY <1>t, <3>2, <4>1
    <3>4. now'[r] = clock /\ \A s \in Racks \ {r} : now'[s] = now[s]
      BY <1>t, <3>1
    <3>5. rackAt'[pair[r][2]] <= now'[r] /\ now'[r] <= clock
      <4>1. rackAt'[pair[r][2]] <= clock
        BY <2>1, <3>3
      <4>2. clock <= clock
        BY <1>t
      <4> QED
        BY <3>4, <4>1, <4>2
    <3> QED
      BY <1>p, <1>t, <3>1, <3>2, <3>3, <3>4, <3>5 DEF StampStep, StampsPast, NodesOf
  <2> QED
    BY <2>2, <2>3
<1>3. CASE StampClient(r)
  <2>1. pair[r] \in Nodes \X Nodes /\ pair[r][2] \in Nodes
    BY <1>3, <1>pp DEF StampClient
  <2>2. Patched(rackAt, pair[r][2], now[r]) /\ AfterStamps(r) /\ loopAt' = loopAt
    BY <1>3 DEF StampClient
  <2>3. KeepsNow
    BY <1>t, <1>pc, <2>2 DEF AfterStamps, EndTask, Goto
  <2>4. rackAt[pair[r][2]] <= now[r] /\ now[r] <= clock
    BY <1>3, <1>p DEF StampClient, StampsPast
  <2>5. \A m \in Nodes : /\ rackAt[m] <= rackAt'[m]
                         /\ rackAt'[m] = rackAt[m] \/ (m = pair[r][2] /\ rackAt'[m] = now[r])
    BY <1>t, <2>1, <2>2, <2>4 DEF Patched
  <2> QED
    BY <1>p, <1>t, <2>2, <2>3, <2>4, <2>5 DEF StampStep, StampsPast, NodesOf
<1>4. CASE \/ CreateServer(r) \/ CreateServerFails(r) \/ ServerHasIp(r) \/ ServerHasNoIp(r)
           \/ CreateClient(r) \/ CreateClientFails(r)
           \/ ClientSucceeded(r) \/ ClientFailed(r) \/ ClientDisappeared(r) \/ ReadRecord(r)
           \/ DropClient(r) \/ DropServer(r) \/ AbortServer(r) \/ AbortClient(r)
  <2>1. rackAt' = rackAt /\ loopAt' = loopAt /\ KeepsNow
    BY <1>4, <1>t, <1>pc DEF CreateServer, CreateServerFails, ServerHasIp, ServerHasNoIp, CreateClient,
                CreateClientFails, ClientSucceeded, ClientFailed, ClientDisappeared, ReadRecord,
                DropClient, DropServer, AbortServer, AbortClient, EndTask, Goto, annVars
  <2> QED
    BY <1>1, <2>1
<1> QED
  BY <1>2, <1>3, <1>4 DEF Task

LEMMA TaskKeepsClock ==
  ASSUME ClockInv, NEW r \in Racks, Task(r)
  PROVE  QueuedDue' /\ StampsPast'
<1> PICK step \in Steps : TaskMoves(r, step)
  BY TaskSummary
<1> USE DEF ClockInv, ClaimInv, PermitInv, TypeOK
<1>1. StampStep(r)
  BY TaskStampStep
<1>2. QueuedDue'
  <2> SUFFICES ASSUME NEW q \in Racks, NEW sc \in queue[q]
               PROVE  (IF sc[1] = sc[2]
                       THEN Due(loopAt, sc[1], Cutoff)
                       ELSE Due(rackAt, sc[1], Cutoff) \/ Due(rackAt, sc[2], Cutoff))'
    BY DEF TaskMoves, QueuedDue
  <2>1. q # r
    BY DEF QueuedNotStarted, TaskMoves
  <2>2. sc \in Nodes \X Nodes
    OBVIOUS
  <2>3. NodesOf(sc) \subseteq Claimed(q) /\ NodesOf(pair[r]) \subseteq Claimed(r)
    BY DEF Claimed, TaskMoves
  <2>4. NodesOf(sc) \cap NodesOf(pair[r]) = {}
    BY <2>1, <2>3 DEF ClaimsApart
  <2>5. \A n \in {sc[1], sc[2]} : rackAt'[n] = rackAt[n] /\ loopAt'[n] = loopAt[n]
    BY <1>1, <2>2, <2>4 DEF StampStep, NodesOf
  <2> QED
    BY <2>5 DEF QueuedDue, Due, Cutoff, TaskMoves
<1>3. StampsPast'
  <2>1. \A n \in Nodes : rackAt'[n] <= clock' /\ loopAt'[n] <= clock'
    BY <1>1 DEF StampStep, TaskMoves
  <2>2. ASSUME NEW q \in Racks, pc'[q] = "stampClient"
        PROVE  rackAt'[pair'[q][2]] <= now'[q] /\ now'[q] <= clock'
    <3>1. CASE q = r
      BY <1>1, <2>2, <3>1 DEF StampStep, TaskMoves
    <3>2. CASE q # r
      <4>1. pc[q] = "stampClient" /\ pair'[q] = pair[q] /\ now'[q] = now[q] /\ clock' = clock
        BY <1>1, <2>2, <3>2 DEF StampStep, TaskMoves
      <4>2. pair[q] \in Nodes \X Nodes
        BY <4>1 DEF PairsPicked, Live
      <4>3. pair[q][2] \notin NodesOf(pair[r])
        <5>1. NodesOf(pair[q]) \subseteq Claimed(q) /\ NodesOf(pair[r]) \subseteq Claimed(r)
          BY <4>1 DEF Claimed, TaskMoves
        <5> QED
          BY <3>2, <5>1 DEF ClaimsApart, NodesOf
      <4> QED
        BY <1>1, <4>1, <4>2, <4>3 DEF StampStep, StampsPast
    <3> QED
      BY <3>1, <3>2
  <2> QED
    BY <2>1, <2>2 DEF StampsPast
<1> QED
  BY <1>2, <1>3

LEMMA OthersKeepClock ==
  ASSUME ClockInv, PermitInv', Controller \/ Crash \/ Environment \/ UNCHANGED vars
  PROVE  QueuedDue' /\ StampsPast' /\ rackAt' = rackAt /\ loopAt' = loopAt
<1>t. /\ rackAt \in [Nodes -> Int] /\ loopAt \in [Nodes -> Int] /\ clock \in Int
      /\ now \in [Racks -> Int] /\ Cadence \in Int
  BY StampTypes
<1>q. /\ QueuedDue /\ StampsPast /\ queue \in [Racks -> SUBSET (Nodes \X Nodes)]
      /\ PairsPicked /\ pc \in [Racks -> Steps]
  BY DEF ClockInv, ClaimInv, PermitInv, TypeOK
<1> USE DEF envVars, annVars, podVars, loopVars, taskVars
<1>1. CASE ListNodes
  <2>1. UNCHANGED <<rackAt, loopAt, clock, pc, pair, now>> /\ queue' = [r \in Racks |-> Picks(r)]
    BY <1>1 DEF ListNodes
  <2>2. \A r \in Racks : \A sc \in Picks(r) :
          IF sc[1] = sc[2]
          THEN Due(loopAt, sc[1], Cutoff)
          ELSE Due(rackAt, sc[1], Cutoff) \/ Due(rackAt, sc[2], Cutoff)
    <3> SUFFICES ASSUME NEW r \in Racks, NEW sc \in Picks(r)
                 PROVE  IF sc[1] = sc[2]
                        THEN Due(loopAt, sc[1], Cutoff)
                        ELSE Due(rackAt, sc[1], Cutoff) \/ Due(rackAt, sc[2], Cutoff)
      OBVIOUS
    <3>1. CASE sc \in PickPair(Members(r), rackAt, Cutoff)
      <4>1. sc[2] # sc[1]
        BY <3>1 DEF PickPair, Oldest
      <4> QED
        BY <3>1, <4>1 DEF PickPair
    <3>2. CASE sc \in PickLoopback(Members(r), loopAt, Cutoff)
      <4>1. sc[2] = sc[1]
        BY <3>2 DEF PickLoopback
      <4> QED
        BY <3>2, <4>1 DEF PickLoopback
    <3> QED
      BY <3>1, <3>2 DEF Picks
  <2> QED
    BY <1>q, <2>1, <2>2 DEF QueuedDue, StampsPast, Due, Cutoff
<1>2. CASE \E r \in Racks : Dispatch(r)
  <2> PICK r \in Racks : Dispatch(r)
    BY <1>2
  <2>1. /\ UNCHANGED <<rackAt, loopAt, clock, now>> /\ queue' = [queue EXCEPT ![r] = {}]
        /\ \A s \in Racks \ {r} : pair'[s] = pair[s] /\ pc'[s] = pc[s]
        /\ pc'[r] = "createServer"
    BY <1>q DEF Dispatch, ClockInv, ClaimInv, PermitInv, TypeOK
  <2> QED
    BY <1>q, <2>1 DEF QueuedDue, StampsPast, Due, Cutoff
<1>3. CASE Crash
  BY <1>3, <1>q DEF Crash, EmptyQueue, QueuedDue, StampsPast
<1>4. CASE \/ StartCycle \/ ListNodesFails \/ AllDispatched \/ Join \/ Boot \/ UNCHANGED vars
           \/ \E p \in PodIds : Kubelet(p) \/ Evict(p)
           \/ \E n \in Nodes : Relabel(n)
  <2>1. UNCHANGED <<rackAt, loopAt, clock, queue, pc, pair, now>>
    BY <1>4 DEF StartCycle, ListNodesFails, AllDispatched, Join, Boot, vars, Kubelet, Evict, Relabel
  <2> QED
    BY <1>q, <2>1 DEF QueuedDue, StampsPast, Due, Cutoff
<1>5. CASE Tick
  <2>1. UNCHANGED <<rackAt, loopAt, queue, pc, pair, now>> /\ clock' \in {clock, clock + 1}
    BY <1>5 DEF Tick
  <2>2. \A r \in Racks : \A sc \in queue[r] : sc[1] \in Nodes /\ sc[2] \in Nodes
    BY <1>q
  <2>3. \A n \in Nodes :
          /\ Due(rackAt, n, Cutoff) => Due(rackAt, n, Cutoff)'
          /\ Due(loopAt, n, Cutoff) => Due(loopAt, n, Cutoff)'
    BY <1>t, <2>1 DEF Due, Cutoff
  <2>4. QueuedDue'
    BY <1>q, <2>1, <2>2, <2>3 DEF QueuedDue
  <2>5. StampsPast'
    BY <1>t, <1>q, <2>1 DEF StampsPast
  <2> QED
    BY <2>1, <2>4, <2>5
<1> QED
  BY <1>1, <1>2, <1>3, <1>4, <1>5 DEF Controller, Environment

LEMMA ClockInit == Init => QueuedDue /\ StampsPast
  BY DEF Init, NoTasks, EmptyQueue, QueuedDue, StampsPast, Never

(* Queued pairs stay due and no stamp is from the future.                  *)
THEOREM ClockInvariant == Spec => []ClockInv
<1>1. ClockInv /\ PermitInv' /\ [Next]_vars => QueuedDue' /\ StampsPast'
  BY TaskKeepsClock, OthersKeepClock DEF Next, Controller, Environment
<1> QED
  BY <1>1, ClockInit, ClaimInvariant, PTL DEF Spec, ClockInv, ClaimInv

(* A probe starts only if, by the stamps its nodes carry at that moment,   *)
(* one of them was last probed before the cutoff of the cadence.           *)
THEOREM CadenceIsKept == Spec => ProbesOnlyWhenDue
<1>1. ASSUME ClockInv, [Next]_vars, NEW r \in Racks, pc[r] = "none", pc'[r] # "none"
      PROVE  StartsDue(r)
  <2>1. pc \in [Racks -> Steps] /\ pair \in [Racks -> (Nodes \X Nodes) \cup {NoPair}]
    BY <1>1 DEF ClockInv, ClaimInv, PermitInv, TypeOK
  <2>2. Dispatch(r)
    <3>1. ~(\E q \in Racks : Task(q))
      <4> SUFFICES ASSUME NEW q \in Racks, Task(q) PROVE FALSE
        OBVIOUS
      <4> PICK step \in Steps : TaskMoves(q, step)
        BY TaskSummary
      <4> QED
        BY <1>1, <2>1 DEF TaskMoves
    <3>2. (\E q \in Racks : Dispatch(q)) \/ pc' = pc \/ Crash
      BY <1>1, <3>1 DEF Next, StartCycle, ListNodes, ListNodesFails, AllDispatched, Join, Boot,
                Kubelet, Evict, Relabel, Tick, vars, taskVars
    <3>3. ASSUME NEW q \in Racks, Dispatch(q) PROVE q = r
      BY <1>1, <2>1, <3>3 DEF Dispatch
    <3> QED
      BY <1>1, <3>2, <3>3 DEF Crash
  <2>3. PICK sc \in queue[r] : pair' = [pair EXCEPT ![r] = sc]
    BY <2>2 DEF Dispatch
  <2>4. pair'[r] = sc
    BY <2>1, <2>3
  <2> QED
    BY <1>1, <2>3, <2>4 DEF StartsDue, ClockInv, QueuedDue
<1>2. ClockInv /\ [Next]_vars =>
        [\A r \in Racks : pc[r] = "none" /\ pc'[r] # "none" => StartsDue(r)]_vars
  BY <1>1
<1> QED
  BY <1>2, ClockInvariant, PTL DEF Spec, ProbesOnlyWhenDue

(* No patch puts an older time on a node than the one it carries.          *)
THEOREM StampsOnlyAdvance == Spec => StampsAdvance
<1>1. ASSUME ClockInv, PermitInv', [Next]_vars
      PROVE  \A n \in Nodes : rackAt[n] <= rackAt'[n] /\ loopAt[n] <= loopAt'[n]
  <2>1. CASE \E r \in Racks : Task(r)
    BY <1>1, <2>1, TaskStampStep DEF StampStep
  <2>2. CASE Controller \/ Crash \/ Environment \/ UNCHANGED vars
    <3>1. rackAt' = rackAt /\ loopAt' = loopAt
      BY <1>1, <2>2, OthersKeepClock
    <3> QED
      BY <1>1, <3>1, StampTypes
  <2> QED
    BY <1>1, <2>1, <2>2 DEF Next, Controller, Environment
<1> QED
  BY <1>1, ClockInvariant, PermitInvariant, PTL DEF Spec, StampsAdvance

-----------------------------------------------------------------------------
(* The whole inductive invariant, as MCProberSerial checks it.             *)
THEOREM InductiveInvariant == Spec => []IInv
<1>1. ClockInv /\ PodInv => IInv
  BY DEF ClockInv, ClaimInv, PodInv, PermitInv, IInv
<1> QED
  BY <1>1, ClockInvariant, PodInvariant, PTL

-----------------------------------------------------------------------------
(* The reconcile loop implements the rounds of ProbeRounds.  A round opens *)
(* when the nodes have been listed; a task claims its nodes when it is     *)
(* spawned and gives them back when it ends.                               *)

(* The claims and the open flag of ProbeRounds, as the instance has them.  *)
Claims == {NodesOf(pair[r]) : r \in Live}
IsOpen == cycle \in {"dispatch", "join"}

(* FiniteSets is reached twice, here and through the instance.             *)
LEMMA SameCardinality == \A S : Rounds!Cardinality(S) = Cardinality(S)
  BY DEF Cardinality, Rounds!Cardinality, IsFiniteSet, Rounds!IsFiniteSet

(* There are no more claims than tasks.                                    *)
LEMMA FewClaims == IsFiniteSet(Claims) /\ Cardinality(Claims) <= Cardinality(Live)
<1> DEFINE f == [r \in Live |-> NodesOf(pair[r])]
<1>1. f \in Surjection(Live, Claims)
  BY DEF Surjection, Claims
<1> QED
  BY <1>1, LiveFinite, FS_Surjection

LEMMA RoundsInit == Init => Rounds!Init
<1> SUFFICES ASSUME Init PROVE Rounds!Init
  OBVIOUS
<1>1. Live = {}
  BY DEF Init, NoTasks, Live
<1> QED
  BY <1>1 DEF Init, Rounds!Init

(* The task of rack r is spawned: it claims nodes that nobody has.         *)
LEMMA DispatchClaims ==
  ASSUME ClaimInv, NEW r \in Racks, Dispatch(r)
  PROVE  \E S \in SUBSET Nodes : Rounds!Claim(S)
<1> USE DEF ClaimInv, PermitInv, TypeOK
<1> PICK sc \in queue[r] : pair' = [pair EXCEPT ![r] = sc]
  BY DEF Dispatch
<1>1. NodesOf(sc) \subseteq Nodes /\ NodesOf(sc) # {}
  BY DEF NodesOf
<1>2. r \notin Live /\ Live' = Live \cup {r}
  BY DEF QueuedNotStarted, Live, Dispatch
<1>3. Cardinality(Claims) < MaxConcurrent
  <2>1. Cardinality(Live) < MaxConcurrent
    BY LiveFinite DEF PermitsConserved, Dispatch
  <2>2. Cardinality(Claims) \in Nat
    BY FewClaims, FS_CardinalityType
  <2> QED
    BY <2>1, <2>2, FewClaims, LiveFinite
<1>4. NodesOf(sc) \cap UNION Claims = {}
  <2>1. \A q \in Live : NodesOf(pair[q]) \subseteq Claimed(q) /\ q # r
    BY <1>2 DEF Live, Claimed
  <2>2. NodesOf(sc) \subseteq Claimed(r)
    BY DEF Claimed
  <2>3. \A q \in Live : NodesOf(sc) \cap NodesOf(pair[q]) = {}
    BY <2>1, <2>2 DEF ClaimsApart, Live
  <2> QED
    BY <2>3 DEF Claims
<1>5. Claims' = Claims \cup {NodesOf(sc)}
  <2>1. \A q \in Live : pair'[q] = pair[q]
    BY <1>2 DEF Live
  <2>2. pair'[r] = sc
    OBVIOUS
  <2> QED
    BY <1>2, <2>1, <2>2 DEF Claims, NodesOf
<1>6. IsOpen /\ UNCHANGED IsOpen
  BY DEF Dispatch, IsOpen
<1>7. Rounds!Claim(NodesOf(sc))
  BY <1>1, <1>3, <1>4, <1>5, <1>6, SameCardinality DEF Rounds!Claim, Claims, IsOpen
<1> QED
  BY <1>1, <1>7

(* A task's step gives its claim back or changes no claim.                 *)
LEMMA TaskReleases ==
  ASSUME ClaimInv, NEW r \in Racks, Task(r)
  PROVE  (\E S \in SUBSET Nodes : Rounds!Release(S)) \/ UNCHANGED <<IsOpen, Claims>>
<1> USE DEF ClaimInv, PermitInv, TypeOK
<1> PICK step \in Steps : TaskMoves(r, step)
  BY TaskSummary
<1>1. CASE step # "none"
  <2>1. Live' = Live /\ pair' = pair /\ cycle' = cycle
    BY <1>1 DEF TaskMoves, Live
  <2> QED
    BY <2>1 DEF Claims, IsOpen
<1>2. CASE step = "none"
  <2>1. Live' = Live \ {r} /\ r \in Live /\ cycle' = cycle
    BY <1>2 DEF TaskMoves, Live
  <2>2. pair[r] \in Nodes \X Nodes
    BY <2>1 DEF PairsPicked
  <2>3. NodesOf(pair[r]) \in SUBSET Nodes /\ NodesOf(pair[r]) \in Claims
    BY <2>1, <2>2 DEF NodesOf, Claims
  <2>4. \A q \in Live \ {r} : pair'[q] = pair[q] /\ NodesOf(pair[q]) # NodesOf(pair[r])
    <3> SUFFICES ASSUME NEW q \in Live \ {r}
                 PROVE  pair'[q] = pair[q] /\ NodesOf(pair[q]) # NodesOf(pair[r])
      OBVIOUS
    <3>1. pair'[q] = pair[q]
      BY <1>2 DEF TaskMoves, Live
    <3>2. NodesOf(pair[q]) \subseteq Claimed(q) /\ NodesOf(pair[r]) \subseteq Claimed(r)
      BY <2>1 DEF Claimed, Live
    <3>3. NodesOf(pair[q]) \cap NodesOf(pair[r]) = {}
      BY <2>1, <3>2 DEF ClaimsApart, Live
    <3> QED
      BY <3>1, <3>3 DEF NodesOf
  <2>5. Claims' = {NodesOf(pair[q]) : q \in Live \ {r}}
    BY <2>1, <2>4 DEF Claims, NodesOf
  <2>6. {NodesOf(pair[q]) : q \in Live \ {r}} = Claims \ {NodesOf(pair[r])}
    BY <2>4 DEF Claims
  <2> QED
    BY <2>1, <2>3, <2>5, <2>6 DEF Rounds!Release, Claims
<1> QED
  BY <1>1, <1>2

(* The other steps open a round, close it, drop it, or do not show.        *)
LEMMA OthersRound ==
  ASSUME ClaimInv, Environment \/ Crash \/ UNCHANGED vars
                   \/ StartCycle \/ ListNodes \/ ListNodesFails \/ AllDispatched \/ Join \/ Boot
  PROVE  Rounds!Open \/ Rounds!Close \/ Rounds!Die \/ UNCHANGED <<IsOpen, Claims>>
<1> USE DEF envVars, annVars, podVars, loopVars, taskVars
<1>1. CASE ListNodes
  BY <1>1 DEF ListNodes, Rounds!Open, Live, NodesOf
<1>2. CASE Join
  BY <1>2 DEF Join, Rounds!Close, Live, NodesOf
<1>3. CASE Crash
  BY <1>3 DEF Crash, Rounds!Die, Live
<1>4. CASE Environment \/ UNCHANGED vars \/ StartCycle \/ ListNodesFails \/ AllDispatched \/ Boot
  <2>1. UNCHANGED <<pc, pair>>
    BY <1>4 DEF Environment, Kubelet, Evict, Relabel, Tick, vars, StartCycle, ListNodesFails,
                AllDispatched, Boot
  <2>2. \/ UNCHANGED cycle
        \/ cycle \notin {"dispatch", "join"} /\ cycle' \notin {"dispatch", "join"}
        \/ cycle \in {"dispatch", "join"} /\ cycle' \in {"dispatch", "join"}
    BY <1>4 DEF Environment, Kubelet, Evict, Relabel, Tick, vars, StartCycle, ListNodesFails,
                AllDispatched, Boot
  <2> QED
    BY <2>1, <2>2 DEF Claims, Live, NodesOf, IsOpen
<1> QED
  BY <1>1, <1>2, <1>3, <1>4

(* The cycles of the prober are rounds of disjoint claims, at most         *)
(* max_concurrent_pairs at a time, all given back when a round closes.     *)
THEOREM CyclesAreRounds == Spec => ImplementsRounds
<1>1. ClaimInv /\ [Next]_vars => [Rounds!Next]_<<IsOpen, Claims>>
  BY DispatchClaims, TaskReleases, OthersRound DEF Next, Environment, Rounds!Next
<1>2. <<IsOpen, Claims>> = Rounds!rvars
  BY DEF IsOpen, Claims, Rounds!rvars
<1>3. ClaimInv /\ [Next]_vars => [Rounds!Next]_(Rounds!rvars)
  BY <1>1, <1>2 DEF IsOpen, Claims, Rounds!rvars
<1> QED
  BY <1>3, RoundsInit, ClaimInvariant, PTL DEF Spec, ImplementsRounds, Rounds!Spec
=============================================================================
