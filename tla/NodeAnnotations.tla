--------------------------- MODULE NodeAnnotations ---------------------------
(***************************************************************************)
(* What a probe leaves on a Node and what the console reads from it: the   *)
(* merge patch of src/prober/annotations.rs and the readers of             *)
(* src/admin/k8s.rs.                                                       *)
(*                                                                         *)
(* A key is a pair of a scope, "rack" for the last-rack-* annotations and  *)
(* "loopback" for the last-loopback-* ones, and a name.  The three figures *)
(* (average and peak bandwidth, message rate) are the one name "bw".  A    *)
(* missing value is Null, on both sides.                                   *)
(***************************************************************************)
CONSTANT Null  \* JSON null, and a value that is not there

Patch == INSTANCE MergePatch WITH ManagedKeys <- {}

(* The annotations of a Node that was never probed.                        *)
Bare == [key \in {} |-> Null]

(* A verdict: its kind ("ok", "fail", "timeout"), the device of the client *)
(* and the figures, Null unless a record carries them.                     *)
Ok(device, bw) == [kind |-> "ok", device |-> device, bw |-> bw]
Fail           == [kind |-> "fail", device |-> Null, bw |-> Null]
Timeout        == [kind |-> "timeout", device |-> Null, bw |-> Null]

(* build_body: which names a patch carries, and their values.  A loopback  *)
(* has no partner; an ok verdict leaves a figure it lacks alone; a fail or *)
(* a timeout removes the figures and leaves the device alone.              *)
BodyNames(scope, verdict) ==
  {"at", "verdict", "reason"}
    \cup (IF scope = "rack" THEN {"partner"} ELSE {})
    \cup (IF verdict.kind = "ok" THEN {"device"} ELSE {"bw"})
    \cup (IF verdict.bw # Null THEN {"bw"} ELSE {})

\* Mutant: a fail or a timeout leaves the figures alone.
BuildBodyFiguresKept(scope, partner, now, verdict) ==
  [key \in {scope} \X (BodyNames(scope, verdict) \ (IF verdict.bw = Null THEN {"bw"} ELSE {})) |->
     CASE key[2] = "at"      -> now
       [] key[2] = "partner" -> partner
       [] key[2] = "verdict" -> verdict.kind
       [] key[2] = "reason"  -> IF verdict.kind = "ok" THEN Null ELSE verdict.kind
       [] key[2] = "device"  -> verdict.device
       [] key[2] = "bw"      -> verdict.bw]
BuildBody(scope, partner, now, verdict) ==
  [key \in {scope} \X BodyNames(scope, verdict) |->
     CASE key[2] = "at"      -> now
       [] key[2] = "partner" -> partner
       [] key[2] = "verdict" -> verdict.kind
       [] key[2] = "reason"  -> IF verdict.kind = "ok" THEN Null ELSE verdict.kind
       [] key[2] = "device"  -> verdict.device
       [] key[2] = "bw"      -> verdict.bw]

-----------------------------------------------------------------------------
Value(annotations, key) ==
  IF key \in DOMAIN annotations THEN annotations[key] ELSE Null

(* read_pair and read_loopback, with the device that the page leaves out;  *)
(* Null if nothing is there.                                               *)
Record(annotations, scope) ==
  [name \in {"at", "partner", "verdict", "reason", "bw", "device"} |->
     Value(annotations, <<scope, name>>)]
IsEmpty(record) == \A name \in {"at", "partner", "verdict", "bw"} : record[name] = Null
Read(annotations, scope) ==
  IF IsEmpty(Record(annotations, scope)) THEN Null ELSE Record(annotations, scope)

(* resolve_verdict: which source the console believes; checked: whether    *)
(* the label of the preflight checks is there.                             *)
Source(annotations, checked) ==
  IF ~IsEmpty(Record(annotations, "rack")) THEN "rack"
  ELSE IF ~IsEmpty(Record(annotations, "loopback")) THEN "loopback"
  ELSE IF checked THEN "preflight" ELSE Null
=============================================================================
