-------------------------------- MODULE Fleet --------------------------------
(***************************************************************************)
(* How the memory of a node becomes a figure of the console: the gauge     *)
(* that every tick of the live loop records (src/telemetry/live.rs), the   *)
(* series it becomes and latest_by_node (src/admin/mutel.rs), which asks   *)
(* for one average per series over a window and adds the series up.        *)
(*                                                                         *)
(* A series belongs to a process and a card, since every process has its   *)
(* own service.instance.id.  It is the sequence of its points in the       *)
(* window, of which the last MaxPoints are kept.                           *)
(***************************************************************************)
EXTENDS Integers, Functions, FiniteSetsExt, SequencesExt

MaxPoints == 2  \* bound: points of a series in the window

NoSeries == [key \in {} |-> <<>>]

(* A gauge once recorded goes on being exported with its last value for as *)
(* long as the process lives, also when its card can no longer be read.    *)
Export(series, process, sizes) ==
  LET recorded == {process} \X DOMAIN sizes
      exported == recorded \cup {key \in DOMAIN series : key[1] = process}
      points(key) == IF key \in DOMAIN series THEN series[key] ELSE <<>>
      value(key) == IF key \in recorded THEN sizes[key[2]] ELSE Last(series[key])
      window(s) == IF Len(s) > MaxPoints THEN Tail(s) ELSE s
  IN [key \in DOMAIN series \cup recorded |->
        IF key \in exported THEN window(Append(points(key), value(key))) ELSE series[key]]

(* The points of a process that ended leave the window.                    *)
Leave(series, process) ==
  [key \in {k \in DOMAIN series : k[1] # process} |-> series[key]]

(* agg=avg with one point asked for: the average of a series over time.   *)
Collapse(s) == FoldFunction(LAMBDA x, y : x + y, 0, s) \div Len(s)

(* NodeRollup::Sum over the series of a node.                              *)
LatestByNode(series) == MapThenSumSet(LAMBDA key : Collapse(series[key]), DOMAIN series)
=============================================================================
