-------------------------- MODULE ProbePairProofs --------------------------
(***************************************************************************)
(* A probe is neither called good without a conversation nor bad without a *)
(* cause, and the annotations of a node tell the story of one probe: for   *)
(* any number of nodes, probes and faults.                                 *)
(*                                                                         *)
(* PairInv is proved in layers: types and which pods there are (Stages),   *)
(* then the two ends of the conversation (Ends), on which the first two    *)
(* results rest, then what is written and told, on which the third does.   *)
(***************************************************************************)
EXTENDS ProbePair, Integers, TLAPS

-----------------------------------------------------------------------------
(* Types, and which pods and records there are when.                       *)

LEMMA TypesInit == Init => TypeOK /\ Stages
<1> SUFFICES ASSUME Init PROVE TypeOK /\ Stages
  OBVIOUS
<1>1. verdict \in Verdicts
  BY DEF Init, Verdicts, Fail
<1>2. pair \in Nodes \X Nodes
  BY DEF Init
<1>3. 0 \in 0 .. MaxProbes /\ 0 \in 0 .. MaxFaults
  BY ProbeBoundsAssumption
<1>4. DOMAIN annotations = Nodes /\ DOMAIN truth = Probes
  BY DEF Init
<1>5. TypeOK
  BY <1>1, <1>2, <1>3, <1>4 DEF Init, TypeOK
<1> QED
  BY <1>5 DEF Init, Stages

LEMMA VerdictTypes ==
  /\ Fail \in Verdicts /\ Timeout \in Verdicts
  /\ \A d \in Nodes, bw \in Probes \cup {Null} : Ok(d, bw) \in Verdicts
  /\ Fail.kind = "fail" /\ Fail.bw = Null /\ Timeout.kind = "timeout" /\ Timeout.bw = Null
  /\ \A d, bw : Ok(d, bw).kind = "ok" /\ Ok(d, bw).bw = bw /\ Ok(d, bw).device = d
BY DEF Fail, Timeout, Ok, Verdicts

LEMMA FaultsCounted ==
  ASSUME TypeOK, Fault \/ NoFault
  PROVE  faults' \in 0 .. MaxFaults /\ blame' \in BOOLEAN
<1>1. faults \in 0 .. MaxFaults /\ blame \in BOOLEAN
  BY DEF TypeOK
<1>2. CASE Fault
  BY <1>1, <1>2, ProbeBoundsAssumption DEF Fault
<1>3. CASE NoFault
  BY <1>1, <1>3 DEF NoFault
<1> QED
  BY <1>2, <1>3

LEMMA SettleTypes ==
  ASSUME TypeOK, NEW v \in Verdicts, Settle(v)
  PROVE  /\ verdict' \in Verdicts /\ pc' = "first" /\ deadline' = "ahead"
         /\ DOMAIN truth' = Probes
BY DEF Settle, TypeOK

LEMMA ExitTypes ==
  ASSUME NEW ok \in BOOLEAN, NEW bw \in Probes \cup {Null}, Exits(ok, bw)
  PROVE  /\ client' \in {"succeeded", "failed"}
         /\ record' \in [ok : BOOLEAN, bw : Probes \cup {Null}] /\ record'.bw = bw
BY DEF Exits

LEMMA TypesTask ==
  ASSUME TypeOK, Stages,
         StartProbe \/ CreateClient \/ DeadlinePasses \/ ServerHasNoIp \/ Judge
           \/ ClientTimesOut \/ ClientDisappeared \/ PatchServer \/ PatchClient \/ Sweep \/ Killed
  PROVE  TypeOK' /\ Stages'
<1>0. Fault \/ NoFault => faults' \in 0 .. MaxFaults /\ blame' \in BOOLEAN
  BY FaultsCounted
<1> USE <1>0, ProbeBoundsAssumption, VerdictTypes DEF TypeOK, Stages, SameProbe, DropPods, Probes
<1>1. CASE StartProbe
  <2>0. probe \in 0 .. MaxProbes /\ probe < MaxProbes /\ probe' = probe + 1
    BY <1>1 DEF StartProbe
  <2>00. probe' \in 0 .. MaxProbes /\ probe' > 0
    BY <2>0, ProbeBoundsAssumption
  <2>1. /\ probe' \in 0 .. MaxProbes /\ probe' > 0 /\ pair' \in Nodes \X Nodes
        /\ talked' \in BOOLEAN /\ UNCHANGED <<annotations, ip, client, expired, record>>
    BY <1>1, <2>00 DEF StartProbe
  <2>2. CASE /\ server' = "created" /\ pc' = "ip" /\ blame' = FALSE
             /\ UNCHANGED <<deadline, verdict, truth, faults>>
    BY <1>1, <2>1, <2>2 DEF StartProbe
  <2>3. CASE Fault /\ Settle(Fail) /\ UNCHANGED server
    BY <1>1, <2>1, <2>3, SettleTypes DEF StartProbe
  <2> QED
    BY <1>1, <2>2, <2>3 DEF StartProbe
<1>2. CASE CreateClient
  BY <1>2 DEF CreateClient, Settle
<1>3. CASE ServerHasNoIp
  BY <1>3 DEF ServerHasNoIp, Settle
<1>4. CASE Judge
  <2>1. /\ client \in {"succeeded", "failed"} /\ pc = "client"
        /\ UNCHANGED <<annotations, probe, pair, talked, server, ip, client, expired, record>>
    BY <1>4 DEF Judge, podVars
  <2>2. CASE record # Null /\ record.ok /\ NoFault /\ Settle(Ok(pair[2], record.bw))
    <3>1. Ok(pair[2], record.bw) \in Verdicts
      BY <2>2
    <3> QED
      BY <2>1, <2>2, <3>1, SettleTypes
  <2>3. CASE (Fault \/ NoFault) /\ Settle(Fail)
    BY <2>1, <2>3, SettleTypes
  <2> QED
    BY <1>4, <2>2, <2>3 DEF Judge
<1>5. CASE ClientTimesOut
  BY <1>5 DEF ClientTimesOut, Settle, podVars
<1>6. CASE ClientDisappeared
  BY <1>6 DEF ClientDisappeared, Settle
<1>7. CASE PatchServer
  BY <1>7 DEF PatchServer, Patched, podVars
<1>8. CASE PatchClient
  BY <1>8 DEF PatchClient, Patched, podVars
<1>9. CASE Sweep
  BY <1>9 DEF Sweep
<1>10. CASE Killed
  BY <1>10 DEF Killed
<1>11. CASE DeadlinePasses
  BY <1>11 DEF DeadlinePasses, podVars
<1> QED
  BY <1>1, <1>2, <1>3, <1>4, <1>5, <1>6, <1>7, <1>8, <1>9, <1>10, <1>11

LEMMA TypesPods ==
  ASSUME TypeOK, Stages,
         ServerGetsIp \/ ServerListens \/ ServerFails \/ ClientStarts \/ Connect \/ Refused
           \/ AfterRefusal \/ Wake \/ Expire \/ TalkEnds \/ TalkBreaks \/ ClientFails
  PROVE  TypeOK' /\ Stages'
<1>0. Fault \/ NoFault => faults' \in 0 .. MaxFaults /\ blame' \in BOOLEAN
  BY FaultsCounted
<1> USE <1>0 DEF TypeOK, Stages, Unchanged
<1>1. CASE ServerGetsIp
  BY <1>1 DEF ServerGetsIp
<1>2. CASE ServerListens
  BY <1>2 DEF ServerListens
<1>3. CASE ServerFails
  <2>1. /\ server # "none" /\ server' \in {"failed", "gone"} /\ ip' \in BOOLEAN
        /\ faults' \in 0 .. MaxFaults /\ blame' \in BOOLEAN
    BY <1>3 DEF ServerFails
  <2>2. /\ UNCHANGED <<annotations, probe, pc, pair, deadline, verdict, truth>>
        /\ UNCHANGED <<client, expired, record, talked>>
    BY <1>3 DEF ServerFails
  <2>3. TypeOK'
    BY <2>1, <2>2
  <2>4. Stages'
    BY <2>1, <2>2
  <2> QED
    BY <2>3, <2>4
<1>4. CASE ClientStarts
  BY <1>4 DEF ClientStarts
<1>5. CASE Connect
  BY <1>5 DEF Connect
<1>6. CASE Refused
  BY <1>6 DEF Refused
<1>7. CASE AfterRefusal
  <2>1. CASE expired
    BY <1>7, <2>1, ExitTypes DEF AfterRefusal
  <2>2. CASE ~expired
    BY <1>7, <2>2 DEF AfterRefusal
  <2> QED
    BY <2>1, <2>2
<1>8. CASE Wake
  BY <1>8 DEF Wake
<1>9. CASE Expire
  BY <1>9 DEF Expire
<1>10. CASE TalkEnds
  <2>1. PICK s : /\ Exits(s # "none", IF s = "row" THEN probe ELSE Null)
                 /\ IF s = "none" THEN Fault ELSE NoFault
    BY <1>10 DEF TalkEnds
  <2> DEFINE bw == IF s = "row" THEN probe ELSE Null
  <2>2. /\ client = "talking" /\ server' = "succeeded" /\ talked' = TRUE /\ (Fault \/ NoFault)
        /\ UNCHANGED <<annotations, probe, pc, pair, deadline, verdict, truth, ip, expired>>
    BY <1>10, <2>1 DEF TalkEnds
  <2>3. probe \in Probes
    <3>0. pc # "idle"
      BY <2>2
    <3>1. probe \in 0 .. MaxProbes /\ probe > 0
      BY <3>0
    <3> QED
      BY <3>1, ProbeBoundsAssumption DEF Probes
  <2>30. bw \in Probes \cup {Null} /\ bw \in {Null, probe}
    BY <2>3
  <2>4. (s # "none") \in BOOLEAN
    OBVIOUS
  <2>5. /\ client' \in {"succeeded", "failed"}
        /\ record' \in [ok : BOOLEAN, bw : Probes \cup {Null}] /\ record'.bw = bw
    BY <2>1, <2>30, <2>4, ExitTypes
  <2>6. faults' \in 0 .. MaxFaults /\ blame' \in BOOLEAN
    BY <2>2
  <2>7. TypeOK'
    BY <2>2, <2>5, <2>6
  <2>8. Stages'
    BY <2>2, <2>30, <2>5
  <2> QED
    BY <2>7, <2>8
<1>11. CASE TalkBreaks
  <2>1. CASE server = "talking"
    BY <1>11, <2>1 DEF TalkBreaks, Exits
  <2>2. CASE server # "talking"
    BY <1>11, <2>2 DEF TalkBreaks, Exits
  <2> QED
    BY <2>1, <2>2
<1>12. CASE ClientFails
  BY <1>12 DEF ClientFails
<1> QED
  BY <1>1, <1>2, <1>3, <1>4, <1>5, <1>6, <1>7, <1>8, <1>9, <1>10, <1>11, <1>12

LEMMA TypesNext == TypeOK /\ Stages /\ [Next]_vars => TypeOK' /\ Stages'
<1>1. TypeOK /\ Stages /\ UNCHANGED vars => TypeOK' /\ Stages'
  BY DEF TypeOK, Stages, vars, podVars
<1> QED
  BY <1>1, TypesTask, TypesPods DEF Next, Pods, Task, Finished

-----------------------------------------------------------------------------
(* The two ends of a conversation, and the truth about each probe.         *)
Judged == NoFalseOk /\ NoFalseAlarm

LEMMA EndsInit == Init => Ends /\ Judged
BY DEF Init, Ends, Judged, NoFalseOk, NoFalseAlarm, NoTruth, Fail

(* A verdict of "ok" needs a conversation, any other one somebody to blame *)
(* or the deadline of the wait that ends with it.                          *)
LEMMA SettleKeepsJudged ==
  ASSUME TypeOK, Judged, NEW v, Settle(v), probe' \in Probes,
         IF v.kind = "ok" THEN talked' = TRUE
         ELSE blame' = TRUE \/ (deadline = "passed" /\ v = IF pc = "client" THEN Timeout ELSE Fail)
  PROVE  Judged'
BY DEF Settle, TypeOK, Judged, NoFalseOk, NoFalseAlarm

LEMMA EndsTask ==
  ASSUME TypeOK, Stages, Ends, Judged,
         StartProbe \/ CreateClient \/ DeadlinePasses \/ ServerHasNoIp \/ Judge
           \/ ClientTimesOut \/ ClientDisappeared \/ PatchServer \/ PatchClient \/ Sweep \/ Killed
  PROVE  Ends' /\ Judged'
<1> USE ProbeBoundsAssumption, VerdictTypes, SettleKeepsJudged DEF Stages, Ends, Fault, NoFault, SameProbe, DropPods
<1>0. UNCHANGED truth => Judged'
  BY DEF Judged, NoFalseOk, NoFalseAlarm
<1>00. probe \in 0 .. MaxProbes /\ talked \in BOOLEAN /\ blame \in BOOLEAN /\ probe + 1 > 0
  BY DEF TypeOK
<1>1. CASE StartProbe
  <2>1. probe' \in Probes
    BY <1>1, <1>00 DEF StartProbe, Probes
  <2>2. CASE UNCHANGED truth
    BY <1>1, <1>0, <2>2 DEF StartProbe
  <2>3. CASE Fault /\ Settle(Fail) /\ UNCHANGED server
    BY <1>1, <2>1, <2>3 DEF StartProbe
  <2> QED
    BY <1>1, <2>2, <2>3 DEF StartProbe
<1>2. CASE CreateClient
  <2>1. probe' \in Probes
    BY <1>2, <1>00 DEF CreateClient, Probes
  <2>2. CASE UNCHANGED <<server, ip, expired, record, verdict, truth>>
    BY <1>2, <1>0, <1>00, <2>2 DEF CreateClient
  <2>3. CASE Fault /\ Settle(Fail) /\ DropPods
    BY <1>2, <2>1, <2>3 DEF CreateClient
  <2> QED
    BY <1>2, <2>2, <2>3 DEF CreateClient
<1>3. CASE ServerHasNoIp
  <2>1. probe' \in Probes
    BY <1>3, <1>00 DEF ServerHasNoIp, Probes
  <2> QED
    BY <1>3, <1>00, <2>1 DEF ServerHasNoIp
<1>4. CASE Judge
  <2>1. probe' \in Probes
    BY <1>4, <1>00 DEF Judge, Probes
  <2>2. UNCHANGED <<probe, pair, talked, server, ip, client, expired, record>>
    BY <1>4 DEF Judge, podVars
  <2>3. CASE client = "succeeded" /\ NoFault /\ Settle(Ok(pair[2], record.bw))
    <3>1. talked' = TRUE /\ UNCHANGED blame
      BY <1>00, <2>2, <2>3
    <3>2. Ok(pair[2], record.bw).kind = "ok"
      BY VerdictTypes
    <3>3. Judged'
      BY <2>1, <2>3, <3>1, <3>2, SettleKeepsJudged
    <3> QED
      BY <2>2, <3>1, <3>3
  <2>4. CASE client = "succeeded" /\ Fault /\ Settle(Fail)
    BY <1>00, <2>1, <2>2, <2>4
  <2>5. CASE client = "failed" /\ NoFault /\ Settle(Fail)
    BY <1>00, <2>1, <2>2, <2>5
  <2> QED
    BY <1>4, <2>3, <2>4, <2>5 DEF Judge
<1>5. CASE ClientTimesOut
  <2>1. probe' \in Probes
    BY <1>5, <1>00 DEF ClientTimesOut, Probes
  <2> QED
    BY <1>5, <2>1 DEF ClientTimesOut, podVars
<1>6. CASE ClientDisappeared
  <2>1. probe' \in Probes
    BY <1>6, <1>00 DEF ClientDisappeared, Probes
  <2> QED
    BY <1>6, <1>00, <2>1 DEF ClientDisappeared
<1>7. CASE PatchServer
  BY <1>7, <1>0 DEF PatchServer, Patched, podVars
<1>8. CASE PatchClient
  BY <1>8, <1>0 DEF PatchClient, Patched, podVars
<1>9. CASE Sweep
  BY <1>9, <1>0 DEF Sweep
<1>10. CASE Killed
  BY <1>10, <1>0 DEF Killed
<1>11. CASE DeadlinePasses
  BY <1>11, <1>0 DEF DeadlinePasses, podVars
<1> QED
  BY <1>1, <1>2, <1>3, <1>4, <1>5, <1>6, <1>7, <1>8, <1>9, <1>10, <1>11

LEMMA EndsPods ==
  ASSUME TypeOK, Stages, Ends, Judged,
         ServerGetsIp \/ ServerListens \/ ServerFails \/ ClientStarts \/ Connect \/ Refused
           \/ AfterRefusal \/ Wake \/ Expire \/ TalkEnds \/ TalkBreaks \/ ClientFails
  PROVE  Ends' /\ Judged'
<1> USE DEF Ends, Fault, NoFault, Unchanged
<1>0. UNCHANGED truth
  BY DEF ServerGetsIp, ServerListens, ServerFails, ClientStarts, Connect, Refused,
         AfterRefusal, Wake, Expire, TalkEnds, TalkBreaks, ClientFails
<1>00. Judged'
  BY <1>0 DEF Judged, NoFalseOk, NoFalseAlarm
<1>000. /\ server \in {"none", "created", "listening", "talking", "succeeded", "failed", "gone"}
        /\ client \in {"none", "created", "trying", "refused", "sleeping", "talking",
                        "succeeded", "failed", "gone"}
        /\ blame \in BOOLEAN /\ expired \in BOOLEAN
        /\ server = "none" => client = "none"
  BY DEF TypeOK, Stages
<1>1. ASSUME ServerGetsIp PROVE Ends'
  BY <1>1 DEF ServerGetsIp
<1>2. ASSUME ServerListens PROVE Ends'
  BY <1>2 DEF ServerListens
<1>3. ASSUME ServerFails PROVE Ends'
  BY <1>3 DEF ServerFails
<1>4. ASSUME ClientStarts PROVE Ends'
  BY <1>4, <1>000 DEF ClientStarts
<1>5. ASSUME Connect PROVE Ends'
  BY <1>5 DEF Connect
<1>6. ASSUME Refused PROVE Ends'
  BY <1>6, <1>000 DEF Refused
<1>7. ASSUME AfterRefusal PROVE Ends'
  BY <1>7, <1>000 DEF AfterRefusal, Exits
<1>8. ASSUME Wake PROVE Ends'
  BY <1>8, <1>000 DEF Wake
<1>9. ASSUME Expire PROVE Ends'
  BY <1>9, <1>000 DEF Expire
<1>10. ASSUME TalkEnds PROVE Ends'
  <2>1. PICK s : /\ Exits(s # "none", IF s = "row" THEN probe ELSE Null)
                 /\ IF s = "none" THEN Fault ELSE NoFault
    BY <1>10 DEF TalkEnds
  <2>2. CASE s = "none"
    BY <1>10, <2>1, <2>2 DEF TalkEnds, Exits
  <2>3. CASE s # "none"
    BY <1>10, <2>1, <2>3 DEF TalkEnds, Exits
  <2> QED
    BY <2>2, <2>3
<1>11. ASSUME TalkBreaks PROVE Ends'
  BY <1>11 DEF TalkBreaks, Exits
<1>12. ASSUME ClientFails PROVE Ends'
  BY <1>12, <1>000 DEF ClientFails
<1> QED
  BY <1>00, <1>1, <1>2, <1>3, <1>4, <1>5, <1>6, <1>7, <1>8, <1>9, <1>10, <1>11, <1>12

LEMMA EndsNext == TypeOK /\ Stages /\ Ends /\ Judged /\ [Next]_vars => Ends' /\ Judged'
<1>1. Ends /\ Judged /\ UNCHANGED vars => Ends' /\ Judged'
  BY DEF Ends, Judged, NoFalseOk, NoFalseAlarm, vars, podVars
<1> QED
  BY <1>1, EndsTask, EndsPods DEF Next, Pods, Task, Finished

-----------------------------------------------------------------------------
(* Merge patches and the bodies of probes.                                 *)

LEMMA ValueOfMerge ==
  ASSUME NEW doc, NEW patch, NEW key
  PROVE  Value(Patch!Merge(doc, patch), key) =
           IF key \in DOMAIN patch THEN patch[key] ELSE Value(doc, key)
<1>1. CASE key \in DOMAIN patch
  BY <1>1 DEF Value, Patch!Merge, Patch!Kept
<1>2. CASE key \notin DOMAIN patch
  BY <1>2 DEF Value, Patch!Merge, Patch!Kept
<1> QED
  BY <1>1, <1>2

(* What a body names, and what it says.                                    *)
LEMMA BodyKeys ==
  ASSUME NEW scope, NEW partner, NEW now, NEW v, NEW s, NEW name
  PROVE  <<s, name>> \in DOMAIN BuildBody(scope, partner, now, v)
           <=> s = scope /\ name \in BodyNames(scope, v)
BY DEF BuildBody

LEMMA BodyValues ==
  ASSUME NEW scope, NEW partner, NEW now, NEW v, NEW name \in BodyNames(scope, v)
  PROVE  LET body == BuildBody(scope, partner, now, v) IN
           /\ name = "at" => body[<<scope, name>>] = now
           /\ name = "partner" => body[<<scope, name>>] = partner
           /\ name = "verdict" => body[<<scope, name>>] = v.kind
           /\ name = "reason" => body[<<scope, name>>] = IF v.kind = "ok" THEN Null ELSE v.kind
           /\ name = "device" => body[<<scope, name>>] = v.device
           /\ name = "bw" => body[<<scope, name>>] = v.bw
<1>1. <<scope, name>> \in {scope} \X BodyNames(scope, v) /\ <<scope, name>>[2] = name
  OBVIOUS
<1>2. CASE name = "at"
  BY <1>1, <1>2 DEF BuildBody
<1>3. CASE name = "partner"
  BY <1>1, <1>3 DEF BuildBody
<1>4. CASE name = "verdict"
  BY <1>1, <1>4 DEF BuildBody
<1>5. CASE name = "reason"
  BY <1>1, <1>5 DEF BuildBody
<1>6. CASE name = "device"
  BY <1>1, <1>6 DEF BuildBody
<1>7. CASE name = "bw"
  BY <1>1, <1>7 DEF BuildBody
<1> QED
  BY <1>2, <1>3, <1>4, <1>5, <1>6, <1>7 DEF BodyNames

(* What a node tells after a patch: of the scope of the probe, that probe, *)
(* except for a figure that an ok without figures leaves; of the other     *)
(* scope, what it told before.                                             *)
LEMMA PatchedVerdict ==
  ASSUME NEW doc, NEW scope, NEW partner, NEW now, NEW v
  PROVE  LET new == Patch!Merge(doc, BuildBody(scope, partner, now, v)) IN
           /\ Value(new, <<scope, "at">>) = now /\ Value(new, <<scope, "verdict">>) = v.kind
           /\ Value(new, <<scope, "reason">>) = IF v.kind = "ok" THEN Null ELSE v.kind
<1>1. {"at", "verdict", "reason"} \subseteq BodyNames(scope, v)
  BY DEF BodyNames
<1> QED
  BY <1>1, ValueOfMerge, BodyKeys, BodyValues

LEMMA PatchedPartner ==
  ASSUME NEW doc, NEW scope, NEW partner, NEW now, NEW v
  PROVE  LET new == Patch!Merge(doc, BuildBody(scope, partner, now, v)) IN
           /\ scope = "rack" => Value(new, <<scope, "partner">>) = partner
           /\ v.kind = "ok" => Value(new, <<scope, "device">>) = v.device
<1>1. scope = "rack" => "partner" \in BodyNames(scope, v)
  BY DEF BodyNames
<1>2. v.kind = "ok" => "device" \in BodyNames(scope, v)
  BY DEF BodyNames
<1> QED
  BY <1>1, <1>2, ValueOfMerge, BodyKeys, BodyValues

LEMMA PatchedFigure ==
  ASSUME NEW doc, NEW scope, NEW partner, NEW now, NEW v
  PROVE  LET new == Patch!Merge(doc, BuildBody(scope, partner, now, v)) IN
           /\ v.kind = "ok" /\ v.bw = Null
                => Value(new, <<scope, "bw">>) = Value(doc, <<scope, "bw">>)
           /\ v.kind # "ok" \/ v.bw # Null => Value(new, <<scope, "bw">>) = v.bw
<1>1. "bw" \in BodyNames(scope, v) <=> ~(v.kind = "ok" /\ v.bw = Null)
  BY DEF BodyNames
<1>2. CASE "bw" \in BodyNames(scope, v)
  BY <1>1, <1>2, ValueOfMerge, BodyKeys, BodyValues
<1>3. CASE "bw" \notin BodyNames(scope, v)
  BY <1>1, <1>3, ValueOfMerge, BodyKeys
<1> QED
  BY <1>2, <1>3

LEMMA PatchedOtherScope ==
  ASSUME NEW doc, NEW scope, NEW partner, NEW now, NEW v, NEW s, NEW name, s # scope
  PROVE  Value(Patch!Merge(doc, BuildBody(scope, partner, now, v)), <<s, name>>)
           = Value(doc, <<s, name>>)
BY ValueOfMerge, BodyKeys

-----------------------------------------------------------------------------
(* What the nodes tell.                                                    *)

Scopes == {"rack", "loopback"}

(* OneStory in terms of the values of the keys.                            *)
Story(n, scope) ==
  LET value(name) == Value(annotations[n], <<scope, name>>)
      told == truth[value("at")]
  IN value("at") # Null =>
       /\ told.verdict.kind = value("verdict")
       /\ told.members \in
            (IF scope = "rack" THEN {<<n, value("partner")>>, <<value("partner"), n>>}
             ELSE {<<n, n>>})
       /\ value("reason") = Null <=> value("verdict") = "ok"
       /\ value("verdict") # "ok" => value("bw") = Null
       /\ value("verdict") = "ok" => value("device") = told.members[2]
       /\ value("bw") \in {told.verdict.bw}
            \cup (IF told.verdict = Ok(value("device"), Null) THEN 1 .. value("at") - 1 ELSE {})
Stories == \A n \in Nodes, scope \in Scopes : Story(n, scope)

ToldInv == Writing /\ Truths /\ Telling /\ Stories

LEMMA ToldInit == Init => ToldInv
<1> SUFFICES ASSUME Init PROVE ToldInv
  OBVIOUS
<1>1. \A n \in Nodes : \A key : Value(annotations[n], key) = Null
  BY DEF Init, Bare, Value
<1>2. Truths
  BY VerdictTypes DEF Init, Truths, NoTruth
<1> QED
  BY <1>1, <1>2 DEF Init, ToldInv, Writing, Telling, Stories, Story

(* A verdict that keeps to the rules of Truths.                            *)
Regular(v, p, members) ==
  /\ v \in Verdicts /\ v.bw \in {Null, p}
  /\ IF v.kind = "ok" THEN v.device = members[2] ELSE v.bw = Null

LEMMA SettleKeepsTruths ==
  ASSUME TypeOK, Truths, probe' \in Probes, NEW v, Settle(v), Regular(v, probe', pair')
  PROVE  /\ Truths' /\ Writing'
         /\ \A p \in Probes : p # probe' => truth'[p] = truth[p]
<1>1. DOMAIN truth = Probes
  BY DEF TypeOK
<1>2. \A p \in Probes : p # probe' => truth'[p] = truth[p]
  BY <1>1 DEF Settle
<1>3. truth'[probe'].verdict = v /\ truth'[probe'].members = pair'
  BY <1>1 DEF Settle
<1>4. Truths'
  BY <1>2, <1>3 DEF Truths, Regular
<1>5. Writing'
  BY <1>3 DEF Settle, Writing
<1> QED
  BY <1>2, <1>4, <1>5

(* A step that writes to no node and leaves the truth about older probes   *)
(* alone disturbs no story.                                                *)
LEMMA Undisturbed ==
  ASSUME Telling, Stories, NEW n \in Nodes, NEW scope \in Scopes,
         \A name : Value(annotations'[n], <<scope, name>>) = Value(annotations[n], <<scope, name>>),
         Latest(n) \in Int, Latest(n)' \in Int, Latest(n) <= Latest(n)', Latest(n) <= MaxProbes,
         \A p \in Probes : p <= Latest(n) => truth'[p] = truth[p]
  PROVE  /\ Story(n, scope)'
         /\ IF Value(annotations'[n], <<scope, "at">>) = Null
              THEN \A name \in {"partner", "verdict", "bw"} : Value(annotations'[n], <<scope, name>>) = Null
              ELSE Value(annotations'[n], <<scope, "at">>) \in 1 .. Latest(n)'
<1> DEFINE at == Value(annotations[n], <<scope, "at">>)
<1>1. CASE at = Null
  BY <1>1 DEF Telling, Story, Scopes
<1>2. CASE at # Null
  <2>1. at \in 1 .. Latest(n)
    BY <1>2 DEF Telling, Scopes
  <2>2. at \in 1 .. Latest(n)' /\ at \in Probes /\ at <= Latest(n)
    BY <2>1, ProbeBoundsAssumption DEF Probes
  <2>3. truth'[at] = truth[at]
    BY <2>2
  <2>4. Story(n, scope)
    BY DEF Stories
  <2>5. Story(n, scope)'
    BY <1>2, <2>3, <2>4 DEF Story
  <2> QED
    BY <1>2, <2>2, <2>5
<1> QED
  BY <1>1, <1>2

LEMMA UndisturbedAll ==
  ASSUME Telling, Stories, UNCHANGED annotations,
         \A n \in Nodes : /\ Latest(n) \in Int /\ Latest(n)' \in Int
                          /\ Latest(n) <= Latest(n)' /\ Latest(n) <= MaxProbes
                          /\ \A p \in Probes : p <= Latest(n) => truth'[p] = truth[p]
  PROVE  Telling' /\ Stories'
BY Undisturbed DEF Telling, Stories, Scopes

(* A node is patched, or the call fails.                                   *)
LEMMA PatchTells ==
  ASSUME TypeOK, TypeOK', Writing, Truths, Telling, Stories, pc \in {"first", "second"},
         NEW n \in Nodes, NEW partner, Patched(n, partner),
         pair \in (IF pair[1] = pair[2] THEN {<<n, n>>} ELSE {<<n, partner>>, <<partner, n>>}),
         probe \in Probes, UNCHANGED <<probe, truth>>, Latest(n) <= probe - 1, Latest(n)' = probe,
         \A m \in Nodes : Latest(m) \in Int /\ Latest(m)' \in Int /\ Latest(m) <= Latest(m)'
                            /\ Latest(m) <= MaxProbes
  PROVE  Telling' /\ Stories'
<1>1. CASE UNCHANGED annotations
  BY <1>1, UndisturbedAll
<1>2. CASE annotations' = [annotations EXCEPT ![n] =
                             Patch!Merge(@, BuildBody(Scope, partner, probe, verdict))]
  <2> DEFINE new == Patch!Merge(annotations[n], BuildBody(Scope, partner, probe, verdict))
             Shape(m, s) ==
               /\ Story(m, s)'
               /\ IF Value(annotations'[m], <<s, "at">>) = Null
                    THEN \A name \in {"partner", "verdict", "bw"} : Value(annotations'[m], <<s, name>>) = Null
                    ELSE Value(annotations'[m], <<s, "at">>) \in 1 .. Latest(m)'
  <2>1. DOMAIN annotations = Nodes
    BY DEF TypeOK
  <2>10. annotations'[n] = new /\ \A m \in Nodes : m # n => annotations'[m] = annotations[m]
    BY <1>2, <2>1
  <2>20. \A s, name : s # Scope => Value(new, <<s, name>>) = Value(annotations[n], <<s, name>>)
    BY PatchedOtherScope
  <2>30. /\ Value(new, <<Scope, "at">>) = probe /\ Value(new, <<Scope, "verdict">>) = verdict.kind
         /\ Value(new, <<Scope, "reason">>) = IF verdict.kind = "ok" THEN Null ELSE verdict.kind
    BY PatchedVerdict
  <2>40. /\ Scope = "rack" => Value(new, <<Scope, "partner">>) = partner
         /\ verdict.kind = "ok" => Value(new, <<Scope, "device">>) = verdict.device
    BY PatchedPartner
  <2>50. /\ verdict.kind = "ok" /\ verdict.bw = Null
              => Value(new, <<Scope, "bw">>) = Value(annotations[n], <<Scope, "bw">>)
         /\ verdict.kind # "ok" \/ verdict.bw # Null => Value(new, <<Scope, "bw">>) = verdict.bw
    BY PatchedFigure
  <2> HIDE DEF new
  <2>2. ASSUME NEW m \in Nodes, NEW s \in Scopes, m # n \/ s # Scope
        PROVE  Shape(m, s)
    <3>1. \A name : Value(annotations'[m], <<s, name>>) = Value(annotations[m], <<s, name>>)
      <4>1. CASE m # n
        BY <2>10, <4>1
      <4>2. CASE m = n /\ s # Scope
        BY <2>10, <2>20, <4>2
      <4> QED
        BY <2>2, <4>1, <4>2
    <3> QED
      BY <3>1, Undisturbed
  <2>3. ASSUME NEW s \in Scopes, s = Scope
        PROVE  Shape(n, s)
    <3> DEFINE value(name) == Value(annotations'[n], <<s, name>>)
               old == Value(annotations[n], <<s, "bw">>)
    <3>2. /\ value("at") = probe /\ value("verdict") = verdict.kind
          /\ value("reason") = IF verdict.kind = "ok" THEN Null ELSE verdict.kind
          /\ s = "rack" => value("partner") = partner
          /\ verdict.kind = "ok" => value("device") = verdict.device
          /\ value("bw") = IF verdict.kind = "ok" /\ verdict.bw = Null THEN old ELSE verdict.bw
      BY <2>3, <2>10, <2>30, <2>40, <2>50
    <3>3. probe # Null /\ probe \in 1 .. probe /\ probe \in Nat
      BY NullAssumption, ProbeBoundsAssumption DEF Probes
    <3>4. /\ truth'[probe].verdict = verdict /\ truth'[probe].members = pair
          /\ verdict \in Verdicts /\ verdict.bw \in {Null, probe}
          /\ IF verdict.kind = "ok" THEN verdict.device = pair[2] ELSE verdict.bw = Null
      BY DEF Writing, Truths
    <3>5. verdict.kind \in {"ok", "fail", "timeout"} /\ verdict.kind # Null
      BY <3>4, NullAssumption DEF Verdicts
    <3>6. old = Null \/ old \in 1 .. probe - 1
      <4> DEFINE was == Value(annotations[n], <<s, "at">>)
      <4>1. CASE was = Null
        BY <4>1 DEF Telling, Scopes
      <4>2. CASE was # Null
        <5>1. was \in 1 .. Latest(n)
          BY <4>2 DEF Telling, Scopes
        <5>2. was \in Probes /\ was \in 1 .. probe - 1 /\ was \in Int
          BY <5>1, <3>3, ProbeBoundsAssumption DEF Probes
        <5>3. old \in {truth[was].verdict.bw} \cup 1 .. was - 1
          BY <4>2 DEF Stories, Story
        <5>4. truth[was].verdict.bw \in {Null, was}
          BY <5>2 DEF Truths
        <5>5. old = Null \/ old \in {was} \cup 1 .. was - 1
          BY <5>3, <5>4
        <5> QED
          BY <5>2, <5>5, <3>3
      <4> QED
        BY <4>1, <4>2
    <3>7. verdict.kind = "ok" /\ verdict.bw = Null => verdict = Ok(pair[2], Null)
      BY <3>4 DEF Verdicts, Ok
    <3>8. value("bw") \in {verdict.bw} \cup
            (IF verdict = Ok(value("device"), Null) THEN 1 .. probe - 1 ELSE {})
      BY <3>2, <3>4, <3>6, <3>7
    <3>9. pair \in (IF s = "rack" THEN {<<n, value("partner")>>, <<value("partner"), n>>}
                    ELSE {<<n, n>>})
      BY <2>3, <3>2 DEF Scope
    <3>10. Story(n, s)'
      <4> HIDE DEF value
      <4> QED
        BY <3>2, <3>3, <3>4, <3>5, <3>8, <3>9 DEF Story, value
    <3> QED
      BY <3>2, <3>3, <3>10
  <2> QED
    BY <2>2, <2>3 DEF Telling, Stories, Scopes
<1> QED
  BY <1>1, <1>2 DEF Patched

LEMMA LatestBounds ==
  ASSUME TypeOK
  PROVE  \A n \in Nodes : Latest(n) \in Int /\ Latest(n) <= MaxProbes
<1>1. probe \in Int /\ probe <= MaxProbes /\ probe - 1 \in Int /\ probe - 1 <= MaxProbes
  BY ProbeBoundsAssumption DEF TypeOK
<1> QED
  BY <1>1 DEF Latest

(* A verdict is settled before any node is told of the probe.              *)
LEMMA SettleTold ==
  ASSUME TypeOK, TypeOK', ToldInv, UNCHANGED annotations, probe' \in Probes,
         NEW v, Settle(v), Regular(v, probe', pair'), \A n \in Nodes : Latest(n) = probe' - 1
  PROVE  ToldInv'
<1>1. Truths' /\ Writing' /\ \A p \in Probes : p # probe' => truth'[p] = truth[p]
  BY SettleKeepsTruths DEF ToldInv
<1>2. \A n \in Nodes : Latest(n)' = probe' - 1
  BY DEF Settle, Latest
<1>3. ASSUME NEW n \in Nodes
      PROVE  /\ Latest(n) \in Int /\ Latest(n)' \in Int
             /\ Latest(n) <= Latest(n)' /\ Latest(n) <= MaxProbes
             /\ \A p \in Probes : p <= Latest(n) => truth'[p] = truth[p]
  <2> DEFINE l == Latest(n)
  <2>1. l = probe' - 1 /\ Latest(n)' = l /\ l \in Int /\ l <= MaxProbes
    BY <1>2, LatestBounds
  <2>2. ASSUME NEW p \in Probes, p <= l
        PROVE  p # probe'
    <3> SUFFICES ASSUME p = probe' PROVE FALSE
      OBVIOUS
    <3>1. p \in Int /\ l = p - 1
      BY <2>1, ProbeBoundsAssumption DEF Probes
    <3>2. p <= p - 1
      BY <2>2, <3>1
    <3>3. \A i \in Int : ~(i <= i - 1)
      OBVIOUS
    <3> QED
      BY <3>1, <3>2, <3>3
  <2> HIDE DEF l
  <2>3. l <= l
    BY <2>1
  <2> QED
    BY <1>1, <2>1, <2>2, <2>3 DEF l
<1> QED
  BY <1>1, <1>3, UndisturbedAll DEF ToldInv

(* A step that neither patches nor settles.                                *)
LEMMA QuietTold ==
  ASSUME TypeOK, TypeOK', ToldInv, UNCHANGED <<annotations, truth>>, Writing',
         \A n \in Nodes : Latest(n) <= Latest(n)'
  PROVE  ToldInv'
<1>1. Truths'
  BY DEF ToldInv, Truths
<1>2. \A n \in Nodes : Latest(n)' \in Int
  BY LatestBounds DEF TypeOK, Latest
<1>3. Telling' /\ Stories'
  BY <1>2, LatestBounds, UndisturbedAll DEF ToldInv
<1> QED
  BY <1>1, <1>3 DEF ToldInv

LEMMA ToldTask ==
  ASSUME TypeOK, TypeOK', Stages, ToldInv,
         StartProbe \/ CreateClient \/ DeadlinePasses \/ ServerHasNoIp \/ Judge
           \/ ClientTimesOut \/ ClientDisappeared \/ PatchServer \/ PatchClient \/ Sweep \/ Killed
  PROVE  ToldInv'
<1>0. probe \in 0 .. MaxProbes /\ probe \in Int /\ probe - 1 + 1 = probe /\ probe - 1 <= probe
  BY DEF TypeOK
<1>00. pair = <<pair[1], pair[2]>> /\ pair[1] \in Nodes /\ pair[2] \in Nodes
  BY DEF TypeOK
<1>000. pc # "idle" => probe \in Probes
  BY <1>0, ProbeBoundsAssumption DEF Stages, Probes
<1>0000. \A p, members : Regular(Fail, p, members) /\ Regular(Timeout, p, members)
  BY VerdictTypes DEF Regular
<1>00000. \A n \in Nodes : pc \in {"ip", "client", "first"} => Latest(n) = probe - 1
  BY DEF Latest
<1>1. CASE StartProbe
  <2>1. probe' = probe + 1 /\ probe' \in Probes /\ UNCHANGED annotations /\ pc = "idle"
    BY <1>1, <1>0, ProbeBoundsAssumption DEF StartProbe, Probes
  <2>2. \A n \in Nodes : Latest(n) = probe' - 1
    BY <2>1, <1>0 DEF Latest
  <2>3. CASE Settle(Fail)
    BY <2>1, <2>2, <2>3, <1>0000, SettleTold
  <2>4. CASE UNCHANGED truth /\ pc' = "ip"
    <3>1. Writing' /\ \A n \in Nodes : Latest(n)' = probe' - 1
      BY <2>4 DEF Writing, Latest
    <3>2. \A n \in Nodes : Latest(n) <= Latest(n)'
      BY <2>2, <3>1, <2>1, <1>0
    <3> QED
      BY <2>1, <2>4, <3>1, <3>2, QuietTold
  <2> QED
    BY <1>1, <2>3, <2>4 DEF StartProbe
<1>2. CASE CreateClient
  <2>1. pc = "ip" /\ UNCHANGED <<annotations, probe>>
    BY <1>2 DEF CreateClient, SameProbe
  <2>2. CASE Settle(Fail)
    BY <2>1, <2>2, <1>000, <1>0000, <1>00000, SettleTold
  <2>3. CASE UNCHANGED truth /\ pc' = "client"
    <3>1. Writing' /\ \A n \in Nodes : Latest(n)' = probe - 1
      BY <2>1, <2>3 DEF Writing, Latest
    <3>2. \A n \in Nodes : Latest(n) <= Latest(n)'
      BY <2>1, <3>1, <1>0, <1>00000
    <3> QED
      BY <2>1, <2>3, <3>1, <3>2, QuietTold
  <2> QED
    BY <1>2, <2>2, <2>3 DEF CreateClient
<1>3. CASE ServerHasNoIp
  <2>1. pc = "ip" /\ UNCHANGED <<annotations, probe>> /\ Settle(Fail)
    BY <1>3 DEF ServerHasNoIp, SameProbe
  <2> QED
    BY <2>1, <1>000, <1>0000, <1>00000, SettleTold
<1>4. CASE Judge
  <2>1. pc = "client" /\ UNCHANGED <<annotations, probe, pair>>
    BY <1>4 DEF Judge, SameProbe
  <2>2. CASE Settle(Fail)
    BY <2>1, <2>2, <1>000, <1>0000, <1>00000, SettleTold
  <2>3. CASE record # Null /\ Settle(Ok(pair[2], record.bw))
    <3>1. record.bw \in Probes \cup {Null} /\ record.bw \in {Null, probe}
      BY <2>3 DEF TypeOK, Stages
    <3>2. Regular(Ok(pair[2], record.bw), probe, pair)
      BY <3>1, <1>00, VerdictTypes DEF Regular
    <3> QED
      BY <2>1, <2>3, <3>2, <1>000, <1>00000, SettleTold
  <2> QED
    BY <1>4, <2>2, <2>3 DEF Judge
<1>5. CASE ClientTimesOut
  <2>1. pc = "client" /\ UNCHANGED <<annotations, probe>> /\ Settle(Timeout)
    BY <1>5 DEF ClientTimesOut, SameProbe
  <2> QED
    BY <2>1, <1>000, <1>0000, <1>00000, SettleTold
<1>6. CASE ClientDisappeared
  <2>1. pc = "client" /\ UNCHANGED <<annotations, probe>> /\ Settle(Fail)
    BY <1>6 DEF ClientDisappeared, SameProbe
  <2> QED
    BY <2>1, <1>000, <1>0000, <1>00000, SettleTold
<1>7. CASE PatchServer
  <2>1. /\ pc = "first" /\ Patched(pair[1], pair[2]) /\ UNCHANGED <<probe, pair, truth, verdict>>
        /\ pc' = IF pair[1] = pair[2] THEN "sweep" ELSE "second"
    BY <1>7 DEF PatchServer
  <2>2. Latest(pair[1]) = probe - 1
    BY <2>1, <1>00, <1>00000
  <2>3. \A n \in Nodes : Latest(n)' \in {probe, probe - 1} /\ (n = pair[1] => Latest(n)' = probe)
    BY <2>1 DEF Latest
  <2>4. \A n \in Nodes : /\ Latest(n) \in Int /\ Latest(n)' \in Int
                          /\ Latest(n) <= Latest(n)' /\ Latest(n) <= MaxProbes
    BY <2>1, <2>3, <1>0, <1>00000, LatestBounds
  <2>5. ASSUME NEW n \in Nodes, n = pair[1]
        PROVE  Telling' /\ Stories'
    <3>1. pair \in (IF pair[1] = pair[2] THEN {<<n, n>>} ELSE {<<n, pair[2]>>, <<pair[2], n>>})
      BY <2>5, <1>00
    <3>2. Patched(n, pair[2]) /\ probe \in Probes /\ Latest(n) <= probe - 1 /\ Latest(n)' = probe
      BY <2>1, <2>2, <2>3, <2>5, <1>0, <1>000
    <3> QED
      BY <2>1, <2>4, <3>1, <3>2, PatchTells DEF ToldInv
  <2>6. Truths' /\ Writing'
    BY <2>1 DEF ToldInv, Truths, Writing
  <2> QED
    BY <1>00, <2>5, <2>6 DEF ToldInv
<1>8. CASE PatchClient
  <2>1. /\ pc = "second" /\ Patched(pair[2], pair[1]) /\ UNCHANGED <<probe, pair, truth, verdict>>
        /\ pc' = "sweep" /\ pair[1] # pair[2]
    BY <1>8 DEF PatchClient, Stages
  <2>2. \A n \in Nodes : Latest(n) = IF n = pair[1] THEN probe ELSE probe - 1
    BY <2>1 DEF Latest
  <2>3. \A n \in Nodes : Latest(n)' = probe
    BY <2>1 DEF Latest
  <2>4. \A n \in Nodes : /\ Latest(n) \in Int /\ Latest(n)' \in Int
                          /\ Latest(n) <= Latest(n)' /\ Latest(n) <= MaxProbes
    BY <2>2, <2>3, <1>0, LatestBounds
  <2>5. ASSUME NEW n \in Nodes, n = pair[2]
        PROVE  Telling' /\ Stories'
    <3>1. pair \in (IF pair[1] = pair[2] THEN {<<n, n>>} ELSE {<<n, pair[1]>>, <<pair[1], n>>})
      BY <2>1, <2>5, <1>00
    <3>2. Patched(n, pair[1]) /\ probe \in Probes /\ Latest(n) <= probe - 1 /\ Latest(n)' = probe
      BY <2>1, <2>2, <2>3, <2>5, <1>0, <1>000
    <3> QED
      BY <2>1, <2>4, <3>1, <3>2, PatchTells DEF ToldInv
  <2>6. Truths' /\ Writing'
    BY <2>1 DEF ToldInv, Truths, Writing
  <2> QED
    BY <1>00, <2>5, <2>6 DEF ToldInv
<1>9. CASE Sweep
  <2>1. UNCHANGED <<annotations, truth, probe>> /\ pc = "sweep" /\ pc' = "idle"
    BY <1>9 DEF Sweep
  <2>2. Writing' /\ \A n \in Nodes : Latest(n) <= Latest(n)'
    BY <2>1, <1>0 DEF Writing, Latest
  <2> QED
    BY <2>1, <2>2, QuietTold
<1>10. CASE Killed
  <2>1. UNCHANGED <<annotations, truth, probe>> /\ pc' = "idle"
    BY <1>10 DEF Killed
  <2>2. Writing' /\ \A n \in Nodes : Latest(n) <= Latest(n)'
    BY <2>1, <1>0 DEF Writing, Latest
  <2> QED
    BY <2>1, <2>2, QuietTold
<1>11. CASE DeadlinePasses
  <2>1. UNCHANGED <<annotations, truth, probe, pc, pair, verdict>>
    BY <1>11 DEF DeadlinePasses
  <2>2. Writing' /\ \A n \in Nodes : Latest(n) <= Latest(n)'
    BY <2>1, LatestBounds DEF ToldInv, Writing, Latest
  <2> QED
    BY <2>1, <2>2, QuietTold
<1> QED
  BY <1>1, <1>2, <1>3, <1>4, <1>5, <1>6, <1>7, <1>8, <1>9, <1>10, <1>11

(* The pods write to no node.                                              *)
LEMMA ToldPods ==
  ASSUME ToldInv, UNCHANGED <<annotations, probe, pc, pair, verdict, truth>>
  PROVE  ToldInv'
<1>1. Writing' /\ Truths'
  BY DEF ToldInv, Writing, Truths
<1>2. Telling'
  BY DEF ToldInv, Telling, Latest
<1>3. ASSUME NEW n \in Nodes, NEW scope \in Scopes
      PROVE  Story(n, scope)'
  <2>1. Story(n, scope)
    BY DEF ToldInv, Stories
  <2> QED
    BY <2>1 DEF Story
<1> QED
  BY <1>1, <1>2, <1>3 DEF ToldInv, Stories, Scopes

LEMMA ToldNext == TypeOK /\ TypeOK' /\ Stages /\ ToldInv /\ [Next]_vars => ToldInv'
<1> SUFFICES ASSUME TypeOK, TypeOK', Stages, ToldInv, [Next]_vars
             PROVE  ToldInv'
  OBVIOUS
<1>1. CASE StartProbe \/ CreateClient \/ DeadlinePasses \/ ServerHasNoIp \/ Judge
             \/ ClientTimesOut \/ ClientDisappeared \/ PatchServer \/ PatchClient \/ Sweep \/ Killed
  BY <1>1, ToldTask
<1>2. CASE ServerGetsIp \/ ServerListens \/ ServerFails \/ ClientStarts \/ Connect \/ Refused
             \/ AfterRefusal \/ Wake \/ Expire \/ TalkEnds \/ TalkBreaks \/ ClientFails
  <2>1. UNCHANGED <<annotations, probe, pc, pair, verdict, truth>>
    BY <1>2 DEF ServerGetsIp, ServerListens, ServerFails, ClientStarts, Connect, Refused,
                AfterRefusal, Wake, Expire, TalkEnds, TalkBreaks, ClientFails, Unchanged
  <2> QED
    BY <2>1, ToldPods
<1>3. CASE UNCHANGED vars
  BY <1>3, ToldPods DEF vars
<1> QED
  BY <1>1, <1>2, <1>3 DEF Next, Pods, Task, Finished

-----------------------------------------------------------------------------
(* The results.                                                            *)

Inv == TypeOK /\ Stages /\ Ends /\ Judged /\ ToldInv

LEMMA InvInductive == Spec => []Inv
<1>1. Init => Inv
  BY TypesInit, EndsInit, ToldInit DEF Inv
<1>2. Inv /\ [Next]_vars => Inv'
  BY TypesNext, EndsNext, ToldNext DEF Inv
<1> QED
  BY <1>1, <1>2, PTL DEF Spec

(* What prober, pods and nodes know of each other, at any time.            *)
THEOREM PairInvariant == Spec => []PairInv
<1>1. Inv => PairInv
  BY DEF Inv, ToldInv, PairInv
<1> QED
  BY <1>1, InvInductive, PTL

(* An ok means that a server and a client talked.                          *)
THEOREM OkIsTrue == Spec => []NoFalseOk
<1>1. Inv => NoFalseOk
  BY DEF Inv, Judged
<1> QED
  BY <1>1, InvInductive, PTL

(* Any other verdict has a cause: a client's retries do not use up the     *)
(* server, nor does its deadline pass while there is one to talk to; a     *)
(* deadline of the prober excuses only the end of its own wait.            *)
THEOREM AlarmHasCause == Spec => []NoFalseAlarm
<1>1. Inv => NoFalseAlarm
  BY DEF Inv, Judged
<1> QED
  BY <1>1, InvInductive, PTL

(* Whatever probes, failed patches and kills there were, what the console  *)
(* reads on a node for a scope belongs to one probe.                       *)
THEOREM NodesTellOneStory == Spec => []OneStory
<1>1. Inv => OneStory
  <2> SUFFICES ASSUME Inv, NEW n \in Nodes, NEW scope \in Scopes,
                      Read(annotations[n], scope) # Null
               PROVE  LET read == Read(annotations[n], scope)
                          told == truth[read.at]
                      IN /\ read.at \in Probes
                         /\ told.verdict.kind = read.verdict
                         /\ told.members \in
                              (IF scope = "rack" THEN {<<n, read.partner>>, <<read.partner, n>>}
                               ELSE {<<n, n>>})
                         /\ read.reason = Null <=> read.verdict = "ok"
                         /\ read.verdict # "ok" => read.bw = Null
                         /\ read.verdict = "ok" => read.device = told.members[2]
                         /\ read.bw \in {told.verdict.bw}
                              \cup (IF told.verdict = Ok(read.device, Null) THEN 1 .. read.at - 1 ELSE {})
    BY DEF OneStory, Scopes
  <2> DEFINE value(name) == Value(annotations[n], <<scope, name>>)
             read == Read(annotations[n], scope)
  <2>1. /\ read.at = value("at") /\ read.partner = value("partner")
        /\ read.verdict = value("verdict") /\ read.reason = value("reason")
        /\ read.bw = value("bw") /\ read.device = value("device")
    BY DEF Read, Record
  <2>2. \E name \in {"at", "partner", "verdict", "bw"} : value(name) # Null
    BY DEF Read, Record, IsEmpty
  <2>3. value("at") # Null
    BY <2>2 DEF Inv, ToldInv, Telling, Scopes
  <2>4. Story(n, scope)
    BY DEF Inv, ToldInv, Stories
  <2>5. value("at") \in Probes
    <3>1. value("at") \in 1 .. Latest(n) /\ Latest(n) \in Int /\ Latest(n) <= MaxProbes
      BY <2>3, LatestBounds DEF Inv, ToldInv, Telling, Scopes
    <3> QED
      BY <3>1, ProbeBoundsAssumption DEF Probes
  <2> HIDE DEF value, read
  <2>6. QED
    BY <2>1, <2>3, <2>4, <2>5 DEF Story, value, read
<1> QED
  BY <1>1, InvInductive, PTL
=============================================================================
