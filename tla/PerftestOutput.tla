--------------------------- MODULE PerftestOutput ---------------------------
(***************************************************************************)
(* Reading the summary row of ib_send_bw (src/probe/perftest.rs).  A line  *)
(* of its output is one of                                                 *)
(*   "header"  the column titles       "row"     a well-formed summary row *)
(*   "rule"    blank, or a rule        "nan"     a row whose figures are   *)
(*   "text"    anything else                     not finite numbers        *)
(***************************************************************************)
EXTENDS Naturals, Sequences

Skipped == {"rule"}
Rows == {"row", "nan"}

(* The first line after i that is neither blank nor a rule is j.           *)
NextLine(lines, i, j) ==
  /\ i < j /\ lines[j] \notin Skipped
  /\ \A k \in i + 1 .. j - 1 : lines[k] \in Skipped

(* The lines parse would accept: rows that stand right after a header.     *)
SummaryRows(lines) ==
  {j \in 1 .. Len(lines) :
     lines[j] \in Rows /\ \E i \in 1 .. j : lines[i] = "header" /\ NextLine(lines, i, j)}

(* parse: the first of them, or "none".  A header without one is passed    *)
(* over for a later header.                                                *)
ParseSummary(lines) ==
  IF SummaryRows(lines) = {} THEN "none"
  ELSE lines[CHOOSE j \in SummaryRows(lines) : \A k \in SummaryRows(lines) : j <= k]
=============================================================================
