-------------------------- MODULE NodeLabelsProofs --------------------------
(***************************************************************************)
(* Proofs about the labeler, for all keys, models and bounds: the          *)
(* invariant LabelInv, that a patch may be sent again, and that the keys   *)
(* of others are left alone.                                               *)
(***************************************************************************)
EXTENDS NodeLabels, TLAPS

(* A patch that names managed keys only leaves those of others alone.      *)
LEMMA MergeKeepsForeign ==
  ASSUME NEW doc, NEW patch, DOMAIN patch \subseteq ManagedKeys
  PROVE  SameForeign(doc, Merge(doc, patch))
  BY DEF SameForeign, Merge, Kept

(* A patch makes a Node of a Node.                                         *)
LEMMA MergeIsDoc ==
  ASSUME NEW doc, NEW patch, IsDoc(doc), IsPatch(patch)
  PROVE  IsDoc(Merge(doc, patch))
  BY DEF IsDoc, IsPatch, Merge, Kept

(* After a patch the only managed keys are those of the document and of    *)
(* the patch.                                                              *)
LEMMA MergeDomain ==
  ASSUME NEW doc, NEW patch, NEW S, DOMAIN doc \cap ManagedKeys \subseteq S,
         DOMAIN patch \subseteq S
  PROVE  DOMAIN Merge(doc, patch) \cap ManagedKeys \subseteq S
  BY DEF Merge, Kept

(* A body of the shape that BodyShape says, merged into a node of which it *)
(* names every managed key, leaves exactly what is wanted.                 *)
LEMMA ShapedBodyIsExact ==
  ASSUME NEW doc, NEW patch, NEW want,
         DOMAIN patch \subseteq ManagedKeys,
         DOMAIN want \subseteq DOMAIN patch,
         \A k \in DOMAIN patch : patch[k] = IF k \in DOMAIN want THEN want[k] ELSE Null,
         \A k \in DOMAIN want : want[k] # Null,
         DOMAIN doc \cap ManagedKeys \subseteq DOMAIN patch
  PROVE  Exact(Merge(doc, patch), want)
  BY DEF Exact, Merge, Kept

(* The labels of a machine, and those with a verdict, are managed keys     *)
(* with values.                                                            *)
LEMMA BaseIsPatch ==
  ASSUME NEW found \in SUBSET Models, NEW heard \in BOOLEAN
  PROVE  /\ IsPatch(Base(found, heard))
         /\ \A k \in DOMAIN Base(found, heard) : Base(found, heard)[k] # Null
  BY KeysAssumption DEF IsPatch, Base, Values

LEMMA VerdictIsPatch ==
  ASSUME NEW labels, NEW outcomes, IsPatch(labels),
         \A k \in DOMAIN labels : labels[k] # Null
  PROVE  /\ IsPatch(WithVerdict(labels, outcomes))
         /\ \A k \in DOMAIN WithVerdict(labels, outcomes) : WithVerdict(labels, outcomes)[k] # Null
  <1> DEFINE w == WithVerdict(labels, outcomes)
  <1>1. Aggregate(outcomes) \in Values
    BY DEF Aggregate, Values, Verdicts
  <1>2. "some" \in Values /\ Null \notin Values
    BY KeysAssumption DEF Values
  <1>3. DOMAIN w = DOMAIN labels \cup {"ready"} \cup (IF "fail" \in outcomes THEN {"failed"} ELSE {})
    BY DEF WithVerdict
  <1>4. DOMAIN w \subseteq ManagedKeys
    BY <1>3, KeysAssumption DEF IsPatch
  <1>5. ASSUME NEW k \in DOMAIN w
        PROVE  w[k] \in Values
    <2>1. CASE k = "ready"
      BY <1>1, <1>3, <2>1 DEF WithVerdict
    <2>2. CASE k = "failed"
      BY <1>2, <1>3, <2>2 DEF WithVerdict
    <2>3. CASE k # "ready" /\ k # "failed"
      <3>1. k \in DOMAIN labels /\ w[k] = labels[k]
        BY <1>3, <2>3 DEF WithVerdict
      <3>2. QED
        BY <3>1 DEF IsPatch
    <2>4. QED
      BY <2>1, <2>2, <2>3
  <1>6. QED
    BY <1>2, <1>4, <1>5 DEF IsPatch

(* The body built from a node.                                             *)
LEMMA SectionShape ==
  ASSUME NEW doc, NEW want, IsPatch(want)
  PROVE  LET b == MergedSection(doc, want)
         IN  /\ IsPatch(b) /\ DOMAIN want \subseteq DOMAIN b
             /\ \A k \in DOMAIN b : b[k] = IF k \in DOMAIN want THEN want[k] ELSE Null
             /\ DOMAIN doc \cap ManagedKeys \subseteq DOMAIN b
  BY DEF MergedSection, IsPatch

LEMMA EmptyIsPatch == IsPatch(Empty) /\ IsDoc(Empty) /\ \A k \in DOMAIN Empty : Empty[k] # Null
  BY DEF IsPatch, IsDoc, Empty

-----------------------------------------------------------------------------
LEMMA LabelInvInit == Init => LabelInv
  <1> SUFFICES ASSUME Init PROVE LabelInv
    OBVIOUS
  <1>1. IsDoc(node)
    BY DEF Init, IsDoc, Values
  <1>2. IsPatch(base) /\ IsPatch(desired) /\ IsPatch(body)
    BY EmptyIsPatch DEF Init
  <1>3. TypeOK
    <2>1. attempt \in 0 .. MaxAttempts /\ faults \in 0 .. MaxFaults /\ changes \in 0 .. MaxChanges
      BY LabelBoundsAssumption DEF Init, MaxAttempts
    <2>2. QED
      BY <1>1, <1>2, <2>1 DEF Init, TypeOK
  <1>4. BodyShape /\ NothingNull
    BY EmptyIsPatch DEF Init, BodyShape, NothingNull, NoNulls
  <1>5. QED
    BY <1>3, <1>4 DEF LabelInv

(* What a cycle leaves behind at its end.                                  *)
LEMMA SleepTypes ==
  ASSUME Sleep
  PROVE  IsPatch(body') /\ attempt' \in 0 .. MaxAttempts /\ fresh' \in BOOLEAN
  <1>1. attempt' = 0 /\ fresh' = FALSE /\ body' = Empty
    BY DEF Sleep
  <1>2. attempt' \in 0 .. MaxAttempts
    BY <1>1 DEF MaxAttempts
  <1>3. fresh' \in BOOLEAN
    BY <1>1
  <1>4. IsPatch(body')
    BY <1>1 DEF IsPatch, Empty
  <1>5. QED
    BY <1>2, <1>3, <1>4

(* A patch that failed or was given up on counts one fault more.           *)
LEMMA FaultInRange == ASSUME TypeOK, Fault PROVE faults' \in 0 .. MaxFaults
  BY LabelBoundsAssumption DEF TypeOK, Fault

LEMMA ChangeInRange == ASSUME TypeOK, Change PROVE changes' \in 0 .. MaxChanges
  BY LabelBoundsAssumption DEF TypeOK, Change

LEMMA LabelInvNext == LabelInv /\ [Next]_vars => LabelInv'
  <1> SUFFICES ASSUME LabelInv, [Next]_vars PROVE LabelInv'
    OBVIOUS
  <1> USE DEF LabelInv
  <1>1. CASE Start
    <2>1. PICK heard \in BOOLEAN, client \in BOOLEAN :
            /\ base' = Base(cards, heard) /\ active' = client
            /\ IF heard /\ client THEN UNCHANGED faults ELSE Fault
      BY <1>1 DEF Start
    <2>2. IsPatch(base') /\ \A k \in DOMAIN base' : base'[k] # Null
      BY <2>1, BaseIsPatch DEF TypeOK
    <2>3. faults' \in 0 .. MaxFaults
      BY <2>1, FaultInRange DEF TypeOK
    <2>4. TypeOK'
      BY <1>1, <2>1, <2>2, <2>3 DEF Start, TypeOK, worldVars
    <2>5. BodyShape' /\ NothingNull'
      BY <1>1, <2>2 DEF Start, BodyShape, NothingNull, NoNulls
    <2>6. QED
      BY <2>4, <2>5
  <1>2. CASE RunChecks
    <2>1. IsPatch(desired') /\ \A k \in DOMAIN desired' : desired'[k] # Null
      BY <1>2, VerdictIsPatch DEF RunChecks, Intended, TypeOK, NothingNull, NoNulls
    <2>2. pc' \in {"get", "sleep"}
      BY <1>2 DEF RunChecks
    <2>3. TypeOK'
      BY <1>2, <2>1, <2>2 DEF RunChecks, TypeOK, worldVars
    <2>4. BodyShape' /\ NothingNull'
      BY <1>2, <2>1, <2>2 DEF RunChecks, BodyShape, NothingNull, NoNulls
    <2>5. QED
      BY <2>3, <2>4
  <1>3. CASE Get
    <2>1. /\ IsPatch(body') /\ DOMAIN desired \subseteq DOMAIN body'
          /\ \A k \in DOMAIN body' : body'[k] = IF k \in DOMAIN desired THEN desired[k] ELSE Null
          /\ DOMAIN node \cap ManagedKeys \subseteq DOMAIN body'
      BY <1>3, SectionShape DEF Get, TypeOK
    <2>2. TypeOK'
      BY <1>3, <2>1 DEF Get, TypeOK, worldVars, MaxAttempts
    <2>3. BodyShape' /\ NothingNull'
      BY <1>3, <2>1 DEF Get, BodyShape, NothingNull, NoNulls
    <2>4. QED
      BY <2>2, <2>3
  <1>4. CASE GetFails
    <2>1. IsPatch(body') /\ attempt' \in 0 .. MaxAttempts /\ fresh' \in BOOLEAN
      BY <1>4, SleepTypes DEF GetFails
    <2>2. TypeOK'
      BY <1>4, <2>1, FaultInRange DEF GetFails, Sleep, TypeOK, worldVars
    <2>3. BodyShape' /\ NothingNull'
      BY <1>4 DEF GetFails, Sleep, BodyShape, NothingNull, NoNulls
    <2>4. QED
      BY <2>2, <2>3
  <1>5. CASE PatchApplied
    <2>1. IsDoc(node')
      BY <1>5, MergeIsDoc DEF PatchApplied, TypeOK
    <2>2. IsPatch(body') /\ attempt' \in 0 .. MaxAttempts /\ fresh' \in BOOLEAN
      BY <1>5, SleepTypes DEF PatchApplied
    <2>3. TypeOK'
      BY <1>5, <2>1, <2>2 DEF PatchApplied, Sleep, TypeOK, worldVars
    <2>4. BodyShape' /\ NothingNull'
      BY <1>5 DEF PatchApplied, Sleep, BodyShape, NothingNull, NoNulls
    <2>5. QED
      BY <2>3, <2>4
  <1>6. CASE PatchFails
    <2>1. node' = node \/ node' = Merge(node, body)
      BY <1>6 DEF PatchFails
    <2>2. IsDoc(node')
      BY <2>1, MergeIsDoc DEF TypeOK
    <2>3. \A p \in late' : IsPatch(p)
      BY <1>6 DEF PatchFails, TypeOK
    <2>4. faults' \in 0 .. MaxFaults
      BY <1>6, FaultInRange DEF PatchFails
    <2>5. NothingNull'
      BY <1>6 DEF PatchFails, NothingNull, NoNulls
    <2>6. CASE attempt < MaxAttempts /\ attempt' = attempt + 1 /\ UNCHANGED <<pc, body, fresh>>
      <3>1. attempt' \in 0 .. MaxAttempts
        BY <2>6 DEF TypeOK, MaxAttempts
      <3>2. TypeOK'
        BY <1>6, <2>2, <2>3, <2>4, <2>6, <3>1 DEF PatchFails, TypeOK, worldVars
      <3>3. fresh /\ pc = "patch" => DOMAIN node' \cap ManagedKeys \subseteq DOMAIN body
        BY <2>1, MergeDomain DEF BodyShape
      <3>4. desired' = desired
        BY <1>6 DEF PatchFails
      <3>5. BodyShape'
        BY <2>6, <3>3, <3>4 DEF BodyShape
      <3>6. QED
        BY <2>5, <3>2, <3>5
    <2>7. CASE attempt = MaxAttempts /\ Sleep
      <3>1. IsPatch(body') /\ attempt' \in 0 .. MaxAttempts /\ fresh' \in BOOLEAN
        BY <2>7, SleepTypes
      <3>2. TypeOK'
        BY <1>6, <2>2, <2>3, <2>4, <2>7, <3>1 DEF PatchFails, Sleep, TypeOK, worldVars
      <3>3. BodyShape'
        BY <2>7 DEF Sleep, BodyShape
      <3>4. QED
        BY <2>5, <3>2, <3>3
    <2>8. QED
      BY <1>6, <2>6, <2>7 DEF PatchFails
  <1>7. CASE Kill
    <2>1. \A p \in late' : IsPatch(p)
      BY <1>7 DEF Kill, TypeOK
    <2>2. IsPatch(base') /\ IsPatch(desired') /\ IsPatch(body') /\ attempt' \in 0 .. MaxAttempts
      BY <1>7, EmptyIsPatch DEF Kill, MaxAttempts
    <2>3. TypeOK'
      BY <1>7, <2>1, <2>2, FaultInRange DEF Kill, TypeOK, worldVars
    <2>4. BodyShape' /\ NothingNull'
      BY <1>7, EmptyIsPatch DEF Kill, BodyShape, NothingNull, NoNulls
    <2>5. QED
      BY <2>3, <2>4
  <1>8. CASE LatePatch
    <2>1. PICK p \in late :
            /\ late' = late \ {p}
            /\ \/ node' = Merge(node, p) /\ fresh' = (fresh /\ p = body)
               \/ UNCHANGED <<node, fresh>>
            /\ UNCHANGED <<worldVars, daemonVars, faults>>
      BY <1>8 DEF LatePatch
    <2>2. IsDoc(node') /\ fresh' \in BOOLEAN
      BY <2>1, MergeIsDoc DEF TypeOK
    <2>3. TypeOK'
      BY <2>1, <2>2 DEF TypeOK, worldVars, daemonVars
    <2>4. pc = "patch" /\ fresh' => DOMAIN node' \cap ManagedKeys \subseteq DOMAIN body
      <3>1. CASE node' = Merge(node, p) /\ fresh' = (fresh /\ p = body)
        BY <3>1, MergeDomain DEF BodyShape
      <3>2. CASE UNCHANGED <<node, fresh>>
        BY <3>2 DEF BodyShape
      <3>3. QED
        BY <2>1, <3>1, <3>2
    <2>5. BodyShape' /\ NothingNull'
      BY <2>1, <2>4 DEF BodyShape, NothingNull, NoNulls, daemonVars
    <2>6. QED
      BY <2>3, <2>5
  <1>9. CASE HardwareChange \/ HealthChange
    <2>1. TypeOK'
      BY <1>9, ChangeInRange DEF HardwareChange, HealthChange, TypeOK, daemonVars
    <2>2. BodyShape' /\ NothingNull'
      BY <1>9 DEF HardwareChange, HealthChange, BodyShape, NothingNull, NoNulls, daemonVars
    <2>3. QED
      BY <2>1, <2>2
  <1>10. CASE OthersWrite
    <2>1. PICK k \in ManagedKeys \cup {Foreign} :
            /\ \/ k \in DOMAIN node /\ node' = [o \in DOMAIN node \ {k} |-> node[o]]
               \/ /\ k \notin DOMAIN node
                  /\ node' = [o \in DOMAIN node \cup {k} |-> IF o = k THEN "some" ELSE node[o]]
            /\ fresh' = (fresh /\ k = Foreign)
      BY <1>10 DEF OthersWrite
    <2>2. IsDoc(node')
      BY <2>1 DEF TypeOK, IsDoc, Values
    <2>3. fresh' \in BOOLEAN
      BY <2>1
    <2>4. TypeOK'
      BY <1>10, <2>2, <2>3, ChangeInRange DEF OthersWrite, TypeOK, daemonVars
    <2>5. pc = "patch" /\ fresh' => DOMAIN node' \cap ManagedKeys \subseteq DOMAIN body
      BY <2>1, KeysAssumption DEF BodyShape
    <2>6. BodyShape' /\ NothingNull'
      BY <1>10, <2>1, <2>5 DEF OthersWrite, BodyShape, NothingNull, NoNulls, daemonVars
    <2>7. QED
      BY <2>4, <2>6
  <1>11. CASE NodeReregistered
    <2>1. TypeOK'
      BY <1>11, ChangeInRange, EmptyIsPatch DEF NodeReregistered, TypeOK, daemonVars
    <2>2. DOMAIN node' = {}
      BY <1>11 DEF NodeReregistered, Empty
    <2>3. BodyShape' /\ NothingNull'
      BY <1>11, <2>2 DEF NodeReregistered, BodyShape, NothingNull, NoNulls, daemonVars
    <2>4. QED
      BY <2>1, <2>3
  <1>12. CASE UNCHANGED vars
    BY <1>12 DEF vars, TypeOK, BodyShape, NothingNull, NoNulls
  <1>13. QED
    BY <1>1, <1>2, <1>3, <1>4, <1>5, <1>6, <1>7, <1>8, <1>9, <1>10, <1>11, <1>12
       DEF Next, Daemon

(* Types, the shape of the body, and no nulls among what is wanted, at     *)
(* every moment.                                                           *)
THEOREM LabelInvariant == Spec => []LabelInv
  BY LabelInvInit, LabelInvNext, PTL DEF Spec

(* Sending the body, once or again, leaves exactly the managed keys that   *)
(* the cycle wants, unless someone else wrote one since the node was read. *)
THEOREM RetriesAreExact == Spec => []RetryExact
  <1>1. LabelInv => RetryExact
    BY ShapedBodyIsExact DEF LabelInv, TypeOK, IsPatch, BodyShape, NothingNull, RetryExact
  <1>2. QED
    BY <1>1, LabelInvariant, PTL

(* No step of a daemon, and no patch of one that comes late, changes a key *)
(* of another owner.                                                       *)
THEOREM OthersAreLeftAlone == Spec => ForeignKept
  <1>1. LabelInv /\ [Next]_vars => [changes' = changes => SameForeign(node, node')]_vars
    <2> SUFFICES ASSUME LabelInv, Next, changes' = changes
                 PROVE  SameForeign(node, node')
      OBVIOUS
    <2>1. ASSUME NEW patch, IsPatch(patch), node' = Merge(node, patch)
          PROVE  SameForeign(node, node')
      BY <2>1, MergeKeepsForeign DEF IsPatch
    <2>2. ASSUME node' = node
          PROVE  SameForeign(node, node')
      BY <2>2 DEF SameForeign
    <2>3. CASE Daemon \/ Kill
      <3>1. node' = node \/ node' = Merge(node, body)
        BY <2>3 DEF Daemon, Start, RunChecks, Get, GetFails, PatchApplied, PatchFails, Kill
      <3>2. QED
        BY <2>1, <2>2, <3>1 DEF LabelInv, TypeOK
    <2>4. CASE LatePatch
      <3>1. node' = node \/ \E p \in late : node' = Merge(node, p)
        BY <2>4 DEF LatePatch
      <3>2. QED
        BY <2>1, <2>2, <3>1 DEF LabelInv, TypeOK
    <2>5. ASSUME Change PROVE FALSE
      BY <2>5, LabelBoundsAssumption DEF Change, LabelInv, TypeOK
    <2>6. QED
      BY <2>3, <2>4, <2>5 DEF Next, HardwareChange, HealthChange, OthersWrite, NodeReregistered
  <1>2. QED
    BY <1>1, LabelInvariant, PTL DEF Spec, ForeignKept
=============================================================================
