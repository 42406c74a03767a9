----------------------------- MODULE MCConsole -----------------------------
(***************************************************************************)
(* Console for TLC, by the two halves of the page: the banner and the      *)
(* views share only the world and the pod, and no property is about both,  *)
(* so while one of them is watched the other rests.                        *)
(***************************************************************************)
EXTENDS Console

VARIABLE watched  \* "banner", then perhaps "views"

MCInit == Init /\ watched = "banner"

BannerStep ==
  /\ watched = "banner" /\ Next
  /\ UNCHANGED <<revision, renders, active, table, cache, fresh, watched>>

(* The banner is up, and it is right: mutel refuses, and goes on to.  A    *)
(* view takes no notice of how mutel fares but for the restarts it causes  *)
(* when it hangs, and an API server that hangs causes those as well.  The  *)
(* server has found its cluster, or not, for good.                         *)
Turn ==
  /\ watched = "banner" /\ banner /\ mutel = "down" /\ ~polled /\ healths = {}
  /\ watched' = "views" /\ UNCHANGED vars

ViewsStep ==
  /\ watched = "views" /\ Next
  /\ UNCHANGED <<mutel, client, polled, healths, banner, watched>>

MCNext == BannerStep \/ Turn \/ ViewsStep

(* The fairness of Spec, for the half that is watched.                     *)
MCSpec ==
  /\ MCInit /\ [][MCNext]_<<vars, watched>>
  /\ WF_vars(ReadinessProbe) /\ WF_vars(LivenessProbe)
  /\ WF_vars(watched = "banner" /\ HealthAnswer)
  /\ WF_vars(watched = "banner" /\ Poll)
  /\ WF_vars(watched = "banner" /\ HealthArrives)
  /\ WF_vars(watched = "views" /\ CacheAges)
  /\ \A view \in Views :
       /\ WF_vars(watched = "views" /\ ClusterAnswer(view))
       /\ WF_vars(watched = "views" /\ ClusterArrives(view))
       /\ WF_vars(watched = "views" /\ FleetArrives(view))
=============================================================================
