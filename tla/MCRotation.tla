----------------------------- MODULE MCRotation -----------------------------
(***************************************************************************)
(* Rotation for TLC, with what it takes for granted of the stamps: that    *)
(* they compare, as the strings they are, like the times they tell.  So    *)
(* the days go by first, looked at one by one, and the prober is started   *)
(* on the last of them.                                                    *)
(***************************************************************************)
EXTENDS Rotation, RfcTime

MCInit == Init /\ DayInit

MCNext ==
  \/ DayNext /\ UNCHANGED rvars
  \/ day = LastDay /\ Next /\ UNCHANGED day

MCSpec ==
  /\ MCInit /\ [][MCNext]_<<rvars, day>>
  /\ WF_day(DayNext) /\ WF_rvars(day = LastDay /\ Probe)
=============================================================================
