---------------------------- MODULE ConsoleProofs ----------------------------
(***************************************************************************)
(* What holds of the admin console at every moment, for any number of      *)
(* changes of the nodes and of renderings under way.                       *)
(***************************************************************************)
EXTENDS Console, TLAPS

USE ConsoleBoundsAssumption

(* TypeOK is not inductive: a view draws the list of a rendering as soon   *)
(* as the fleet is there too, so what has arrived has to be a list.        *)
Rendering ==
  {r \in [view : Views, cluster : Lists \cup {Failed, Waiting}, here : BOOLEAN, fleet : BOOLEAN] :
     r.here => r.cluster \in Lists}

(* TypeOK by who changes what: the world, the server and its kubelet, the  *)
(* banner and the views of the page.                                       *)
WorldOK ==
  /\ kube \in {"up", "down", "hung"} /\ mutel \in {"up", "down", "hung"}
  /\ revision \in Revisions
PodOK == client \in BOOLEAN /\ serving \in BOOLEAN /\ strikes \in 0 .. FailureThreshold - 1
BannerOK == polled \in BOOLEAN /\ healths \subseteq {"ok", "bad"} /\ banner \in BOOLEAN
ViewsOK ==
  /\ renders \subseteq Rendering /\ active \in Views
  /\ table \in [Views -> Lists \cup {Failed, Nothing}]
  /\ cache \in Lists \cup {Nothing} /\ fresh \in BOOLEAN
Types == WorldOK /\ PodOK /\ BannerOK /\ ViewsOK

LEMMA ListsApart == {Nothing, Failed, Waiting} \cap Lists = {}
BY DEF Lists, Revisions, Nothing, Empty, Failed, Waiting

LEMMA TypesAreTypeOK == Types => TypeOK
BY DEF Types, WorldOK, PodOK, BannerOK, ViewsOK, Rendering, TypeOK

LEMMA TypesInit == Init => Types
<1> SUFFICES ASSUME Init PROVE Types
  OBVIOUS
<1>1. WorldOK
  BY DEF Init, WorldOK, Revisions
<1>2. PodOK
  <2>1. strikes \in 0 .. FailureThreshold - 1
    BY DEF Init, FailureThreshold
  <2> QED
    BY <2>1 DEF Init, PodOK
<1>3. BannerOK /\ ViewsOK
  BY DEF Init, BannerOK, ViewsOK, Views
<1> QED
  BY <1>1, <1>2, <1>3 DEF Types

LEMMA WorldSteps == Types /\ (KubeChanges \/ MutelChanges \/ NodesChange) => Types'
<1> SUFFICES ASSUME Types, KubeChanges \/ MutelChanges \/ NodesChange PROVE Types'
  OBVIOUS
<1>1. UNCHANGED <<pod, page>>
  BY DEF KubeChanges, MutelChanges, NodesChange
<1>2. WorldOK'
  BY DEF Types, WorldOK, KubeChanges, MutelChanges, NodesChange, Revisions
<1>3. PodOK' /\ BannerOK' /\ ViewsOK'
  BY <1>1 DEF Types, PodOK, BannerOK, ViewsOK, pod, page
<1> QED
  BY <1>2, <1>3 DEF Types

(* A rendering of whose list is waited for ends in an error, or goes on.   *)
LEMMA RestartSteps == Types /\ Restart => Types'
<1> SUFFICES ASSUME Types, Restart PROVE Types'
  OBVIOUS
<1>1. UNCHANGED <<world, banner, active, table, cache, fresh>>
  BY DEF Restart
<1>2. client' \in BOOLEAN /\ serving' = FALSE /\ polled' = FALSE /\ strikes' = 0
  BY DEF Restart
<1>3. PodOK'
  <2>1. strikes' \in 0 .. FailureThreshold - 1
    BY <1>2 DEF FailureThreshold
  <2> QED
    BY <1>2, <2>1 DEF PodOK
<1>4. BannerOK'
  BY <1>1, <1>2 DEF Restart, Types, BannerOK
<1>5. ASSUME NEW r \in renders
      PROVE  (IF r.cluster = Waiting THEN [r EXCEPT !.cluster = Failed] ELSE r) \in Rendering
  BY ListsApart DEF Types, ViewsOK, Rendering
<1>6. renders' \subseteq Rendering
  BY <1>5 DEF Restart
<1>7. WorldOK' /\ ViewsOK'
  BY <1>1, <1>6 DEF Types, WorldOK, ViewsOK, world
<1> QED
  BY <1>3, <1>4, <1>7 DEF Types

LEMMA KubeletSteps == Types /\ (ReadinessProbe \/ LivenessPasses \/ LivenessFails) => Types'
<1> SUFFICES ASSUME Types, ReadinessProbe \/ LivenessPasses \/ LivenessFails PROVE Types'
  OBVIOUS
<1>1. UNCHANGED <<world, page, client>>
  BY DEF ReadinessProbe, LivenessPasses, LivenessFails
<1>2. serving' \in BOOLEAN
  BY DEF ReadinessProbe, LivenessPasses, LivenessFails, HealthRoute, Prompt, Types, PodOK
<1>3. strikes' \in 0 .. FailureThreshold - 1
  BY DEF ReadinessProbe, LivenessPasses, LivenessFails, FailureThreshold, Types, PodOK
<1>4. PodOK'
  BY <1>1, <1>2, <1>3 DEF Types, PodOK
<1>5. WorldOK' /\ BannerOK' /\ ViewsOK'
  BY <1>1 DEF Types, WorldOK, BannerOK, ViewsOK, world, page
<1> QED
  BY <1>4, <1>5 DEF Types

LEMMA BannerSteps == Types /\ (HealthAnswer \/ Poll \/ HealthArrives) => Types'
<1> SUFFICES ASSUME Types, HealthAnswer \/ Poll \/ HealthArrives PROVE Types'
  OBVIOUS
<1>1. UNCHANGED <<world, pod, renders, active, table, cache, fresh>>
  BY DEF HealthAnswer, Poll, HealthArrives
<1>2. BannerOK'
  BY DEF HealthAnswer, Poll, HealthArrives, Types, BannerOK
<1>3. WorldOK' /\ PodOK' /\ ViewsOK'
  BY <1>1 DEF Types, WorldOK, PodOK, ViewsOK, world, pod
<1> QED
  BY <1>2, <1>3 DEF Types

(* What is drawn is a list or an error.                                    *)
LEMMA ProgressTypes ==
  ASSUME Types, NEW r \in renders, NEW next \in Rendering, Progress(r, next)
  PROVE  renders' \subseteq Rendering /\ table' \in [Views -> Lists \cup {Failed, Nothing}]
BY DEF Types, ViewsOK, Progress, Rendering

LEMMA ClusterAnswerSteps == ASSUME Types, NEW view \in Views, ClusterAnswer(view) PROVE Types'
<1>1. PICK r \in renders :
        /\ r.cluster = Waiting
        /\ renders' = (renders \ {r}) \cup {[r EXCEPT !.cluster = ClusterRoute]}
  BY DEF ClusterAnswer
<1>2. ClusterRoute \in Lists \cup {Failed}
  BY DEF ClusterRoute, Lists, Types, WorldOK
<1>3. r \in Rendering /\ ~r.here
  BY <1>1, ListsApart DEF Types, ViewsOK, Rendering
<1>4. [r EXCEPT !.cluster = ClusterRoute] \in Rendering
  BY <1>2, <1>3 DEF Rendering
<1>5. ViewsOK'
  BY <1>1, <1>4 DEF ClusterAnswer, Types, ViewsOK
<1>6. UNCHANGED <<world, pod, polled, healths, banner>>
  BY DEF ClusterAnswer
<1> QED
  BY <1>5, <1>6 DEF Types, WorldOK, PodOK, BannerOK, world, pod

LEMMA ClusterArrivesSteps == ASSUME Types, NEW view \in Views, ClusterArrives(view) PROVE Types'
<1>1. PICK r \in renders :
        /\ ~r.here /\ r.cluster # Waiting
        /\ IF r.cluster = Failed
             THEN Abandon(r) /\ UNCHANGED <<cache, fresh>>
             ELSE Progress(r, [r EXCEPT !.here = TRUE]) /\ cache' = r.cluster /\ fresh' = TRUE
        /\ UNCHANGED <<world, pod, polled, healths, banner, active>>
  BY DEF ClusterArrives
<1>2. r \in Rendering
  BY DEF Types, ViewsOK
<1>3. ASSUME r.cluster = Failed PROVE ViewsOK'
  BY <1>1, <1>3 DEF Abandon, Types, ViewsOK
<1>4. ASSUME r.cluster # Failed PROVE ViewsOK'
  <2>1. r.cluster \in Lists
    BY <1>1, <1>2, <1>4 DEF Rendering
  <2>2. [r EXCEPT !.here = TRUE] \in Rendering
    BY <1>2, <2>1 DEF Rendering
  <2>3. renders' \subseteq Rendering /\ table' \in [Views -> Lists \cup {Failed, Nothing}]
    BY <1>1, <1>4, <2>2, ProgressTypes
  <2> QED
    BY <1>1, <1>4, <2>1, <2>3 DEF Types, ViewsOK
<1> QED
  BY <1>1, <1>3, <1>4 DEF Types, WorldOK, PodOK, BannerOK, world, pod

LEMMA FleetArrivesSteps == ASSUME Types, NEW view \in Views, FleetArrives(view) PROVE Types'
<1>1. PICK r \in renders : Progress(r, [r EXCEPT !.fleet = TRUE])
  BY DEF FleetArrives
<1>2. [r EXCEPT !.fleet = TRUE] \in Rendering
  BY DEF Types, ViewsOK, Rendering
<1>3. renders' \subseteq Rendering /\ table' \in [Views -> Lists \cup {Failed, Nothing}]
  BY <1>1, <1>2, ProgressTypes
<1>4. UNCHANGED <<world, pod, polled, healths, banner, active, cache, fresh>>
  BY DEF FleetArrives
<1> QED
  BY <1>3, <1>4 DEF Types, WorldOK, PodOK, BannerOK, ViewsOK, world, pod

LEMMA RenderSteps ==
  ASSUME Types, NEW view \in Views, NEW force \in BOOLEAN, Render(view, force), active' \in Views
  PROVE  Types'
<1>1. LoadCluster(view, force) \subseteq Rendering
  <2>1. cache # Nothing => Cached(view) \in Rendering
    BY DEF Cached, Rendering, Types, ViewsOK
  <2>2. Unanswered(view) \subseteq Rendering
    BY DEF Unanswered, Rendering
  <2> QED
    BY <2>1, <2>2 DEF LoadCluster
<1>2. renders' \subseteq Rendering
  BY <1>1 DEF Render, Types, ViewsOK
<1>3. UNCHANGED <<world, pod, polled, healths, banner, table, cache, fresh>>
  BY DEF Render
<1> QED
  BY <1>2, <1>3 DEF Types, WorldOK, PodOK, BannerOK, ViewsOK, world, pod

LEMMA CacheAgesSteps == Types /\ CacheAges => Types'
BY DEF CacheAges, Types, WorldOK, PodOK, BannerOK, ViewsOK, world, pod

LEMMA TypesStep == Types /\ [Next]_vars => Types'
<1>1. Types /\ (Refresh \/ Switch) => Types'
  BY RenderSteps DEF Refresh, Switch, Types, ViewsOK
<1>2. Types /\ UNCHANGED vars => Types'
  BY DEF vars, Types, WorldOK, PodOK, BannerOK, ViewsOK, world, pod, page
<1> QED
  BY <1>1, <1>2, WorldSteps, RestartSteps, KubeletSteps, BannerSteps, ClusterAnswerSteps,
     ClusterArrivesSteps, FleetArrivesSteps, CacheAgesSteps DEF Next, LivenessProbe

-----------------------------------------------------------------------------
(* In whatever order answers arrive and wherever a restart falls: a view   *)
(* is drawn from a list or an error, never from a request that has not     *)
(* been answered, and the cache never has an error.                        *)
THEOREM OnlyAnswersAreDrawn == Spec => []TypeOK
BY TypesInit, TypesStep, TypesAreTypeOK, PTL DEF Spec

(* The safety that NeverPunished rests on: while neither dependency hangs, *)
(* however often they refuse, the health route answers and the kubelet     *)
(* never restarts the server, whose client thus stays what it is.          *)
THEOREM RefusalsNeverRestart ==
  Spec => ([](kube # "hung" /\ mutel # "hung") => [](strikes = 0) /\ [][client' = client]_vars)
<1> DEFINE P == kube # "hung" /\ mutel # "hung"
<1>1. P => HealthRoute
  BY DEF HealthRoute, Prompt
<1>2. strikes = 0 /\ P /\ [Next]_vars => (strikes = 0)'
  BY <1>1
  DEF Next, vars, world, pod, page, HealthAnswer, ClusterAnswer, ReadinessProbe, LivenessProbe,
      LivenessPasses, LivenessFails, Restart, Poll, HealthArrives, ClusterArrives, FleetArrives,
      Refresh, Switch, Render, CacheAges, KubeChanges, MutelChanges, NodesChange
<1>3. P /\ [Next]_vars => [client' = client]_vars
  BY <1>1
  DEF Next, vars, world, pod, page, HealthAnswer, ClusterAnswer, ReadinessProbe, LivenessProbe,
      LivenessPasses, LivenessFails, Restart, Poll, HealthArrives, ClusterArrives, FleetArrives,
      Refresh, Switch, Render, CacheAges, KubeChanges, MutelChanges, NodesChange
<1>4. Init => strikes = 0
  BY DEF Init
<1> HIDE DEF P
<1>5. Spec => ([]P => [](strikes = 0) /\ [][client' = client]_vars)
  BY <1>2, <1>3, <1>4, PTL DEF Spec
<1> QED
  BY <1>5 DEF P
=============================================================================
