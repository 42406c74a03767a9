------------------------------ MODULE Console ------------------------------
(***************************************************************************)
(* The admin console: the server (src/admin), the page in the browser      *)
(* (src/static/admin/js) and the kubelet that probes the server            *)
(* (manifests/admin.yaml).                                                 *)
(*                                                                         *)
(* The server lists the nodes from the API server and asks mutel, the      *)
(* store of metrics, for the rest.  Each of the two answers, refuses, or   *)
(* hangs; a call to mutel is given up after five seconds, one to the API   *)
(* server never.  The page polls /api/health every five seconds and        *)
(* fetches nodes and fleet metrics when the user asks, for the one of its  *)
(* two views of them that is active; answers arrive in any order and the   *)
(* last to arrive is shown.                                                *)
(*                                                                         *)
(* A list of nodes is its revision.  Answers on their way that are equal   *)
(* are one.                                                                *)
(***************************************************************************)
EXTENDS Naturals, FiniteSets

CONSTANTS
  MaxRevision,  \* bound: changes of the nodes
  MaxRenders    \* bound: renderings of a view under way at a time

ASSUME ConsoleBoundsAssumption == MaxRevision \in Nat /\ MaxRenders \in Nat \ {0}

VARIABLES
  kube,      \* the API server: "up", "down" (it refuses) or "hung"
  mutel,     \* likewise
  revision,  \* of the nodes, as the API server has them
  client,    \* the server has a kube client (AppState::kube)
  serving,   \* the pod is ready: a Service sends requests to it
  strikes,   \* liveness probes failed in a row
  polled,    \* an /api/health request has not been answered yet
  healths,   \* answers to such requests that are on their way
  renders,   \* renderings under way
  banner,    \* the page shows the banner
  active,    \* activeView
  table,     \* what each view shows: a revision, Empty, Failed or Nothing
  cache,     \* clusterCache
  fresh      \* it is at most ten seconds old by clusterFetchedAt

world == <<kube, mutel, revision>>
pod   == <<client, serving, strikes>>
page  == <<polled, healths, renders, banner, active, table, cache, fresh>>
vars  == <<world, pod, page>>

Revisions == 0 .. MaxRevision
Nothing == MaxRevision + 1  \* nothing yet
Empty   == MaxRevision + 2  \* no nodes, which a server without a client says
Failed  == MaxRevision + 3  \* an error
Waiting == MaxRevision + 4  \* the request has not been answered
Lists == Revisions \cup {Empty}
Views == {"cluster", "topology"}
FailureThreshold == 3

TypeOK ==
  /\ kube \in {"up", "down", "hung"} /\ mutel \in {"up", "down", "hung"}
  /\ revision \in Revisions
  /\ client \in BOOLEAN /\ serving \in BOOLEAN /\ strikes \in 0 .. FailureThreshold - 1
  /\ polled \in BOOLEAN /\ healths \subseteq {"ok", "bad"}
  /\ renders \subseteq [view : Views, cluster : Lists \cup {Failed, Waiting},
                         here : BOOLEAN, fleet : BOOLEAN]
  /\ banner \in BOOLEAN /\ active \in Views
  /\ table \in [Views -> Lists \cup {Failed, Nothing}] /\ cache \in Lists \cup {Nothing}
  /\ fresh \in BOOLEAN

Init ==
  /\ kube \in {"up", "down", "hung"} /\ mutel \in {"up", "down", "hung"}
  /\ revision = 0 /\ client \in BOOLEAN /\ serving = FALSE /\ strikes = 0
  /\ polled = FALSE /\ healths = {} /\ renders = {}
  /\ banner = FALSE /\ active = "cluster" /\ table = [v \in Views |-> Nothing]
  /\ cache = Nothing /\ fresh = FALSE

-----------------------------------------------------------------------------
(* The server.                                                             *)

(* /api/health lists one node, then pings mutel.  It answers at once unless*)
(* one of them hangs; its status is 200 whatever it found.                 *)
Prompt == (client => kube # "hung") /\ mutel # "hung"
Healthy == client /\ kube = "up" /\ mutel = "up"
\* Mutant: a dependency that is down makes it a 502, as in the other routes.
HealthRouteStrict == Prompt /\ Healthy
HealthRoute == Prompt

HealthAnswer ==
  /\ polled /\ (client => kube # "hung") /\ polled' = FALSE
  /\ healths' = healths \cup {IF Healthy THEN "ok" ELSE "bad"}
  /\ UNCHANGED <<world, pod, renders, banner, active, table, cache, fresh>>

(* /api/cluster: the nodes, none without a client, or a 502.               *)
ClusterRoute ==
  IF ~client THEN Empty ELSE IF kube = "up" THEN revision ELSE Failed

ClusterAnswer(view) ==
  /\ client => kube # "hung"
  /\ \E r \in renders :
       /\ r.view = view /\ r.cluster = Waiting
       /\ renders' = (renders \ {r}) \cup {[r EXCEPT !.cluster = ClusterRoute]}
  /\ UNCHANGED <<world, pod, polled, healths, banner, active, table, cache, fresh>>

-----------------------------------------------------------------------------
(* The kubelet.  A pod that is not ready gets no requests; one that fails  *)
(* three liveness probes in a row is restarted, and its requests end in    *)
(* errors.                                                                 *)
ReadinessProbe ==
  /\ serving' = HealthRoute
  /\ UNCHANGED <<world, client, strikes, page>>

LivenessPasses ==
  /\ HealthRoute /\ strikes' = 0
  /\ UNCHANGED <<world, client, serving, page>>

LivenessFails ==
  /\ ~HealthRoute /\ strikes < FailureThreshold - 1 /\ strikes' = strikes + 1
  /\ UNCHANGED <<world, client, serving, page>>

Restart ==
  /\ ~HealthRoute /\ strikes = FailureThreshold - 1
  /\ client' \in BOOLEAN /\ serving' = FALSE /\ strikes' = 0
  /\ polled' = FALSE /\ healths' = healths \cup (IF polled THEN {"bad"} ELSE {})
  /\ renders' = {IF r.cluster = Waiting THEN [r EXCEPT !.cluster = Failed] ELSE r : r \in renders}
  /\ UNCHANGED <<world, banner, active, table, cache, fresh>>

LivenessProbe == LivenessPasses \/ LivenessFails \/ Restart

-----------------------------------------------------------------------------
(* The page: /api/health.  Requests come through kubectl port-forward,     *)
(* whether the pod is ready or not; or through something that asks the     *)
(* Service, which refuses them while it is not.                            *)
Poll ==
  /\ \/ polled' = TRUE /\ UNCHANGED healths
     \/ ~serving /\ healths' = healths \cup {"bad"} /\ UNCHANGED polled
  /\ UNCHANGED <<world, pod, renders, banner, active, table, cache, fresh>>

(* An error is shown like a bad answer.                                    *)
\* Mutant: the banner, once shown, stays.
HealthArrivesSticky ==
  \E h \in healths :
    /\ healths' = healths \ {h} /\ banner' = (banner \/ h = "bad")
    /\ UNCHANGED <<world, pod, polled, renders, active, table, cache, fresh>>
HealthArrives ==
  \E h \in healths :
    /\ healths' = healths \ {h} /\ banner' = (h = "bad")
    /\ UNCHANGED <<world, pod, polled, renders, active, table, cache, fresh>>

-----------------------------------------------------------------------------
(* The page: nodes and fleet.                                              *)

(* loadCluster answers from the cache, or sends a request; loadFleet, with *)
(* a cache of its own, runs beside it.                                     *)
Unanswered(view) ==
  [view : {view}, cluster : {Waiting} \cup (IF serving THEN {} ELSE {Failed}),
   here : {FALSE}, fleet : {FALSE}]
Cached(view) == [view |-> view, cluster |-> cache, here |-> TRUE, fleet |-> FALSE]
\* Mutant: the cache is used however old it is, and even on a refresh.
LoadClusterCached(view, force) ==
  IF cache # Nothing THEN {Cached(view)} ELSE Unanswered(view)
LoadCluster(view, force) ==
  IF ~force /\ cache # Nothing /\ fresh THEN {Cached(view)} ELSE Unanswered(view)

Render(view, force) ==
  /\ Cardinality(renders) < MaxRenders
  /\ \E r \in LoadCluster(view, force) : renders' = renders \cup {r}
  /\ UNCHANGED <<world, pod, polled, healths, banner, table, cache, fresh>>

(* The refresh button.  renderTopology takes no notice of it: it draws     *)
(* from the cache while that is fresh.                                     *)
Refresh == Render(active, active = "cluster") /\ UNCHANGED active

(* Another view is activated, or the active one again.                     *)
Switch == active' \in Views /\ Render(active', FALSE)

(* A part of a rendering has arrived; when both have, the view is drawn.   *)
Progress(r, next) ==
  IF next.here /\ next.fleet
    THEN renders' = renders \ {r} /\ table' = [table EXCEPT ![r.view] = next.cluster]
    ELSE renders' = (renders \ {r}) \cup {next} /\ UNCHANGED table

(* An error in place of the list ends the rendering.                       *)
Abandon(r) == renders' = renders \ {r} /\ table' = [table EXCEPT ![r.view] = Failed]

(* The list is cached when it arrives, whenever it was answered.           *)
\* Mutant: whatever arrives is cached, an error too.
ClusterArrivesErrorsCached(view) ==
  \E r \in renders :
    /\ r.view = view /\ ~r.here /\ r.cluster # Waiting
    /\ IF r.cluster = Failed THEN Abandon(r) ELSE Progress(r, [r EXCEPT !.here = TRUE])
    /\ cache' = r.cluster /\ fresh' = TRUE
    /\ UNCHANGED <<world, pod, polled, healths, banner, active>>
ClusterArrives(view) ==
  \E r \in renders :
    /\ r.view = view /\ ~r.here /\ r.cluster # Waiting
    /\ IF r.cluster = Failed
         THEN Abandon(r) /\ UNCHANGED <<cache, fresh>>
         ELSE Progress(r, [r EXCEPT !.here = TRUE]) /\ cache' = r.cluster /\ fresh' = TRUE
    /\ UNCHANGED <<world, pod, polled, healths, banner, active>>

(* The fleet arrives: numbers, or the stub that stands for any failure.    *)
FleetArrives(view) ==
  \E r \in renders :
    /\ r.view = view /\ ~r.fleet /\ Progress(r, [r EXCEPT !.fleet = TRUE])
    /\ UNCHANGED <<world, pod, polled, healths, banner, active, cache, fresh>>

CacheAges ==
  /\ fresh /\ fresh' = FALSE
  /\ UNCHANGED <<world, pod, polled, healths, renders, banner, active, table, cache>>

-----------------------------------------------------------------------------
KubeChanges ==
  /\ kube' \in {"up", "down", "hung"} \ {kube}
  /\ UNCHANGED <<mutel, revision, pod, page>>
MutelChanges ==
  /\ mutel' \in {"up", "down", "hung"} \ {mutel}
  /\ UNCHANGED <<kube, revision, pod, page>>
NodesChange ==
  /\ revision < MaxRevision /\ revision' = revision + 1
  /\ UNCHANGED <<kube, mutel, pod, page>>

Next ==
  \/ HealthAnswer \/ ReadinessProbe \/ LivenessProbe \/ Poll \/ HealthArrives
  \/ \E view \in Views : ClusterAnswer(view) \/ ClusterArrives(view) \/ FleetArrives(view)
  \/ Refresh \/ Switch \/ CacheAges
  \/ KubeChanges \/ MutelChanges \/ NodesChange

(* Requests are answered unless a dependency hangs, and answers arrive, of *)
(* either view; the kubelet goes on probing and the page polling, and a    *)
(* cache that nothing is put into gets old.                                *)
Spec ==
  /\ Init /\ [][Next]_vars
  /\ WF_vars(HealthAnswer) /\ WF_vars(ReadinessProbe) /\ WF_vars(LivenessProbe)
  /\ WF_vars(Poll) /\ WF_vars(HealthArrives) /\ WF_vars(CacheAges)
  /\ \A view \in Views :
       /\ WF_vars(ClusterAnswer(view)) /\ WF_vars(ClusterArrives(view))
       /\ WF_vars(FleetArrives(view))

-----------------------------------------------------------------------------
(* The banner ends up telling the truth, whatever older answers were on    *)
(* their way: it comes up while something stays down or hangs, and goes    *)
(* away for good when everything stays up.                                 *)
BannerFollows ==
  /\ <>[](Prompt /\ ~Healthy) => <>[]banner
  /\ <>[](~Prompt) => <>[]banner
  /\ <>[]Healthy => <>[]~banner

(* Refusing is no reason to restart a server or to take it out of service: *)
(* however long its dependencies hung before, and however often they go on *)
(* to refuse, once they hang no more the kubelet counts no failure and the *)
(* server is and stays in service.                                         *)
NeverPunished ==
  <>[](kube # "hung" /\ mutel # "hung") => <>[](serving /\ strikes = 0)

(* With the API server up and mutel in whatever state but hanging, a user  *)
(* who keeps pressing refresh on a view ends up looking at the nodes as    *)
(* they are, on either view: neither mutel's failures nor older answers nor*)
(* the cache, which the topology draws from even then, keep them away.     *)
TableCatchesUp ==
  <>[](kube = "up" /\ mutel # "hung" /\ client)
    => \A view \in Views :
         []<><<Refresh /\ active = view>>_vars => <>[](table[view] = revision)

=============================================================================
