----------------------------- MODULE ProbePair -----------------------------
(***************************************************************************)
(* One probe from the inside: the task of the prober that conducts it      *)
(* (src/prober/reconcile.rs), the two probe pods with the ib_send_bw they  *)
(* run (src/probe), and the annotations it leaves on the nodes.  What      *)
(* Prober.tla takes as an outcome of the pods is decided here.             *)
(*                                                                         *)
(* Probes follow one another, of any two nodes or of one node with itself  *)
(* (loopback); the number of a probe is its timestamp.  A client retries   *)
(* until its connect deadline; the server serves one conversation, and a   *)
(* connection closed early ends it.  Pods are evicted, ib_send_bw fails,   *)
(* calls of the prober fail, and the prober is killed.                     *)
(***************************************************************************)
EXTENDS NodeAnnotations, PerftestOutput

CONSTANTS
  Nodes,      \* the nodes of a rack
  MaxProbes,  \* bound: probes
  MaxFaults   \* bound: failures of pods, processes and calls

ASSUME ProbeBoundsAssumption == MaxProbes \in Nat /\ MaxFaults \in Nat
ASSUME NullAssumption == Null \notin Nodes \cup Nat \cup {"ok", "fail", "timeout"}

VARIABLES
  annotations,  \* of each node
  probe,        \* the number of the newest probe
  pc,           \* where its task stands
  pair,         \* its server node and its client node, equal in a loopback
  server,       \* the server pod
  ip,           \* the server pod has an IP
  client,       \* the client pod and its attempts
  expired,      \* the connect deadline of the client has passed
  deadline,     \* the deadline of the prober's current wait: ahead or passed
  record,       \* the JSON record in the client's log
  verdict,      \* what the task will write
  faults,       \* faults used, of MaxFaults
  talked,       \* history: the two ib_send_bw have finished a conversation
  blame,        \* history: a pod, a process or a call has failed, or the server
                \* did not listen by the client's deadline
  truth         \* history: what each probe came to, in which step of its task

podVars == <<server, ip, client, expired, record>>
vars == <<annotations, probe, pc, pair, podVars, deadline, verdict, faults, talked, blame, truth>>

Probes == 1 .. MaxProbes
Scope == IF pair[1] = pair[2] THEN "loopback" ELSE "rack"
NoTruth == [verdict |-> Fail, members |-> <<>>, talked |-> FALSE, blame |-> TRUE,
            step |-> "idle", deadline |-> "ahead"]
Verdicts == [kind : {"ok", "fail", "timeout"}, device : Nodes \cup {Null},
             bw : Probes \cup {Null}]

TypeOK ==
  /\ DOMAIN annotations = Nodes /\ probe \in 0 .. MaxProbes
  /\ pc \in {"idle", "ip", "client", "first", "second", "sweep"}
  /\ pair \in Nodes \X Nodes
  /\ server \in {"none", "created", "listening", "talking", "succeeded", "failed", "gone"}
  /\ client \in {"none", "created", "trying", "refused", "sleeping", "talking",
                 "succeeded", "failed", "gone"}
  /\ ip \in BOOLEAN /\ expired \in BOOLEAN /\ deadline \in {"ahead", "passed"}
  /\ record = Null \/ record \in [ok : BOOLEAN, bw : Probes \cup {Null}]
  /\ verdict \in Verdicts /\ faults \in 0 .. MaxFaults
  /\ talked \in BOOLEAN /\ blame \in BOOLEAN
  /\ DOMAIN truth = Probes

Init ==
  /\ annotations = [n \in Nodes |-> Bare] /\ probe = 0
  /\ pc = "idle" /\ pair \in {<<n, n>> : n \in Nodes}
  /\ server = "none" /\ ip = FALSE /\ client = "none" /\ expired = FALSE
  /\ deadline = "ahead" /\ record = Null /\ verdict = Fail
  /\ faults = 0 /\ talked = FALSE /\ blame = FALSE
  /\ truth = [p \in Probes |-> NoTruth]

Fault == faults < MaxFaults /\ faults' = faults + 1 /\ blame' = TRUE
NoFault == UNCHANGED <<faults, blame>>

DropPods ==
  /\ server' = "none" /\ ip' = FALSE /\ client' = "none" /\ expired' = FALSE
  /\ record' = Null

-----------------------------------------------------------------------------
(* The task of the prober.                                                 *)

(* The verdict is settled; patch_pair or patch_loopback follows.  The      *)
(* history keeps where the task stood then, and its deadline.              *)
Settle(v) ==
  /\ verdict' = v /\ pc' = "first" /\ deadline' = "ahead"
  /\ truth' = [truth EXCEPT ![probe'] =
                 [verdict |-> v, members |-> pair', talked |-> talked', blame |-> blame',
                  step |-> pc, deadline |-> deadline]]

SameProbe == UNCHANGED <<probe, pair, talked>>

(* The server pod is created, or the call fails and the probe with it.     *)
StartProbe ==
  /\ pc = "idle" /\ probe < MaxProbes /\ probe' = probe + 1
  /\ pair' \in Nodes \X Nodes /\ talked' = FALSE
  /\ \/ /\ server' = "created" /\ pc' = "ip" /\ blame' = FALSE
        /\ UNCHANGED <<deadline, verdict, truth, faults>>
     \/ Fault /\ Settle(Fail) /\ UNCHANGED server
  /\ UNCHANGED <<annotations, ip, client, expired, record>>

(* The deadline of the wait that is under way: 60 seconds for the IP of    *)
(* the server, test_duration + 120 seconds for the end of the client.  The *)
(* pod may have got there by then without a poll that has seen it: it was  *)
(* polled up to 2 seconds ago, and gets that fail are passed over.         *)
DeadlinePasses ==
  /\ pc \in {"ip", "client"} /\ deadline = "ahead"
  /\ deadline' = "passed"
  /\ UNCHANGED <<annotations, probe, pc, pair, podVars, verdict, faults, talked, blame, truth>>

(* The client pod is created once the server pod has an IP, running or not.*)
CreateClient ==
  /\ pc = "ip" /\ ip /\ SameProbe
  /\ \/ pc' = "client" /\ client' = "created" /\ deadline' = "ahead" /\ NoFault
        /\ UNCHANGED <<server, ip, expired, record, verdict, truth>>
     \/ Fault /\ Settle(Fail) /\ DropPods
  /\ UNCHANGED annotations

(* The pod ended or vanished before it had an IP; or the deadline has      *)
(* passed, which is looked at before the pod is: it may have an IP by now. *)
ServerHasNoIp ==
  /\ pc = "ip" /\ SameProbe /\ NoFault
  /\ deadline = "passed" \/ (~ip /\ server \in {"failed", "gone"})
  /\ Settle(Fail) /\ DropPods
  /\ UNCHANGED annotations

(* The client pod is seen to have ended.  The log is read only if it       *)
(* succeeded, so the message of a failed record is never seen; the read    *)
(* may fail.                                                               *)
Judge ==
  /\ pc = "client" /\ client \in {"succeeded", "failed"} /\ SameProbe
  /\ \/ /\ client = "succeeded" /\ record # Null /\ record.ok
        /\ NoFault /\ Settle(Ok(pair[2], record.bw))
     \/ /\ client = "succeeded" /\ Fault /\ Settle(Fail)
     \/ /\ client = "failed" /\ NoFault /\ Settle(Fail)
  /\ UNCHANGED <<annotations, podVars>>

(* The deadline has passed, which is looked at before the pod is: whatever *)
(* the client came to, if it is over.                                      *)
ClientTimesOut ==
  /\ pc = "client" /\ deadline = "passed" /\ SameProbe
  /\ NoFault /\ Settle(Timeout)
  /\ UNCHANGED <<annotations, podVars>>

(* Somebody deleted it.                                                    *)
ClientDisappeared ==
  /\ pc = "client" /\ client = "gone" /\ NoFault /\ SameProbe
  /\ Settle(Fail) /\ DropPods
  /\ UNCHANGED annotations

Patched(node, partner) ==
  \/ /\ annotations' = [annotations EXCEPT ![node] =
                          Patch!Merge(@, BuildBody(Scope, partner, probe, verdict))]
     /\ UNCHANGED <<faults, blame>>
  \/ Fault /\ UNCHANGED annotations

PatchServer ==
  /\ pc = "first" /\ Patched(pair[1], pair[2])
  /\ pc' = IF pair[1] = pair[2] THEN "sweep" ELSE "second"
  /\ UNCHANGED <<probe, pair, podVars, deadline, verdict, talked, truth>>

PatchClient ==
  /\ pc = "second" /\ Patched(pair[2], pair[1]) /\ pc' = "sweep"
  /\ UNCHANGED <<probe, pair, podVars, deadline, verdict, talked, truth>>

(* The pods are deleted.  (Deletes that fail are in Prober.tla.)           *)
Sweep ==
  /\ pc = "sweep" /\ pc' = "idle" /\ DropPods
  /\ UNCHANGED <<annotations, probe, pair, deadline, verdict, faults, talked, blame, truth>>

(* The prober is killed; its pods are left to cleanup_orphans.             *)
Killed ==
  /\ pc # "idle" /\ Fault /\ pc' = "idle" /\ DropPods /\ deadline' = "ahead"
  /\ UNCHANGED <<annotations, probe, pair, verdict, talked, truth>>

-----------------------------------------------------------------------------
(* The server pod.                                                         *)

Unchanged == UNCHANGED <<annotations, probe, pc, pair, deadline, verdict, truth>>

ServerGetsIp ==
  /\ server \notin {"none", "gone"} /\ ~ip /\ ip' = TRUE
  /\ Unchanged /\ UNCHANGED <<server, client, expired, record, faults, talked, blame>>

ServerListens ==
  /\ server = "created" /\ server' = "listening"
  /\ Unchanged /\ UNCHANGED <<ip, client, expired, record, faults, talked, blame>>

(* No RDMA device, no ib_send_bw, or the pod is evicted; or it is deleted. *)
ServerFails ==
  /\ server \in {"created", "listening", "talking"} /\ Fault
  /\ \/ server' = "failed" /\ UNCHANGED ip
     \/ server' = "gone" /\ ip' = FALSE
  /\ Unchanged /\ UNCHANGED <<client, expired, record, talked>>

-----------------------------------------------------------------------------
(* The client pod.                                                         *)

(* The record of an outcome and the exit code, which decides the phase.    *)
\* Mutant: ok is set as soon as there is a record.
ExitsAlwaysOk(ok, bw) == record' = [ok |-> TRUE, bw |-> bw] /\ client' = "succeeded"
Exits(ok, bw) ==
  /\ record' = [ok |-> ok, bw |-> bw]
  /\ client' = IF ok THEN "succeeded" ELSE "failed"

(* The process is up, has found its device and runs ib_send_bw.  A server  *)
(* is never tested with a connection of its own, which would use it up.    *)
\* Mutant: it is.
ClientStartsAfterTest ==
  /\ client = "created" /\ client' = "trying"
  /\ server' = IF server = "listening" THEN "failed" ELSE server
  /\ Unchanged /\ UNCHANGED <<ip, expired, record, faults, talked, blame>>
ClientStarts ==
  /\ client = "created" /\ client' = "trying"
  /\ Unchanged /\ UNCHANGED <<server, ip, expired, record, faults, talked, blame>>

Connect ==
  /\ client = "trying" /\ server = "listening"
  /\ client' = "talking" /\ server' = "talking"
  /\ Unchanged /\ UNCHANGED <<ip, expired, record, faults, talked, blame>>

Refused ==
  /\ client = "trying" /\ server # "listening" /\ client' = "refused"
  /\ Unchanged /\ UNCHANGED <<server, ip, expired, record, faults, talked, blame>>

(* ib_send_bw has ended with one of the three messages: another attempt    *)
(* after a pause, or the end if the deadline has passed.                   *)
\* Mutants: the deadline is not looked at; there is no other attempt.
AfterRefusalForEver ==
  /\ client = "refused" /\ client' = "sleeping" /\ UNCHANGED record
  /\ Unchanged /\ UNCHANGED <<server, ip, expired, faults, talked, blame>>
AfterRefusalGiveUp ==
  /\ client = "refused" /\ Exits(FALSE, Null)
  /\ Unchanged /\ UNCHANGED <<server, ip, expired, faults, talked, blame>>
AfterRefusal ==
  /\ client = "refused"
  /\ IF expired THEN Exits(FALSE, Null) ELSE client' = "sleeping" /\ UNCHANGED record
  /\ Unchanged /\ UNCHANGED <<server, ip, expired, faults, talked, blame>>

(* The backoff is over, at the latest when the deadline passes.            *)
Wake ==
  /\ client = "sleeping" /\ client' = "trying"
  /\ Unchanged /\ UNCHANGED <<server, ip, expired, record, faults, talked, blame>>

(* Sixty seconds after the start of the process.  Somebody is to blame if  *)
(* the server does not listen yet, or if the client was refused just now.  *)
Expire ==
  /\ client \notin {"none", "created", "succeeded", "failed", "gone"} /\ ~expired
  /\ expired' = TRUE /\ blame' = (blame \/ server = "created" \/ client = "refused")
  /\ Unchanged /\ UNCHANGED <<server, ip, client, record, faults, talked>>

(* Both ib_send_bw end well; what the client's prints has a summary or not.*)
(* Nobody looks at how the server's pod ends.                               *)
Outputs == {<<"text", "rule", "header", "row", "rule">>,
            <<"header", "text", "header", "rule", "nan">>,
            <<"text", "row", "rule">>}
TalkEnds ==
  /\ client = "talking" /\ server = "talking"
  /\ server' = "succeeded" /\ talked' = TRUE
  /\ \E output \in Outputs :
       LET summary == ParseSummary(output)
       IN /\ Exits(summary # "none", IF summary = "row" THEN probe ELSE Null)
          /\ IF summary = "none" THEN Fault ELSE NoFault
  /\ Unchanged /\ UNCHANGED <<ip, expired>>

(* The conversation breaks, and the client's ib_send_bw ends with an error *)
(* that is not one of connecting; or the client finds no device, or no     *)
(* ib_send_bw; or it is killed without a record.                           *)
TalkBreaks ==
  /\ client = "talking" /\ Exits(FALSE, Null)
  /\ IF server = "talking" THEN Fault /\ server' = "failed" ELSE NoFault /\ UNCHANGED server
  /\ Unchanged /\ UNCHANGED <<ip, expired, talked>>

ClientFails ==
  /\ client \notin {"none", "succeeded", "failed", "gone"} /\ Fault
  /\ client' \in {"failed", "gone"}
  /\ server' = IF server = "talking" THEN "failed" ELSE server
  /\ Unchanged /\ UNCHANGED <<ip, expired, record, talked>>

Pods ==
  \/ ServerGetsIp \/ ServerListens \/ ClientStarts \/ Connect \/ Refused
  \/ AfterRefusal \/ Wake \/ TalkEnds \/ (TalkBreaks /\ server # "talking")
Task == CreateClient \/ Judge \/ ClientDisappeared \/ PatchServer \/ PatchClient \/ Sweep
NoIp == ServerHasNoIp /\ ~ip /\ server \in {"failed", "gone"}
(* The bound on probes is reached.                                         *)
Finished == pc = "idle" /\ probe = MaxProbes /\ UNCHANGED vars

Next ==
  \/ Finished
  \/ StartProbe \/ Task \/ DeadlinePasses \/ ServerHasNoIp \/ ClientTimesOut \/ Killed
  \/ ServerFails \/ Expire \/ TalkBreaks \/ ClientFails \/ Pods

(* Pods are started, ib_send_bw ends, the client's deadline passes; the    *)
(* prober goes on.  Its own two deadlines need not ever pass.              *)
Spec ==
  /\ Init /\ [][Next]_vars
  /\ WF_vars(Pods) /\ WF_vars(Expire) /\ WF_vars(Task) /\ WF_vars(NoIp)
-----------------------------------------------------------------------------
(* Which pods and records there are while the task stands where.           *)
Stages ==
  /\ pc \in {"idle", "ip"} => client = "none"
  /\ pc = "idle" => server = "none" /\ record = Null
  /\ server = "none" => client = "none" /\ pc \notin {"ip", "client"}
  /\ pc = "second" => pair[1] # pair[2]
  /\ pc # "idle" => probe > 0
  /\ record # Null => record.bw \in {Null, probe}

(* The two ends of a conversation, and who is to blame for the end of one  *)
(* of them: a client that is refused at or after its deadline has somebody *)
(* to blame, since a server that listens by then goes on listening.        *)
Ends ==
  /\ client \in {"none", "created"} => ~expired
  /\ client = "talking" => server \in {"talking", "failed", "gone"}
  /\ server = "talking" => client = "talking"
  /\ server = "succeeded" => client \in {"succeeded", "failed"}
  /\ client = "succeeded" => talked
  /\ server \in {"failed", "gone"} \/ client \in {"failed", "gone"} => blame
  /\ expired /\ client \in {"trying", "sleeping", "refused"} /\ ~blame
       => server = "listening" /\ client # "refused"

(* The verdict that is being written is that of the newest probe.          *)
Writing ==
  pc \in {"first", "second"} => truth[probe].verdict = verdict /\ truth[probe].members = pair

(* A figure was measured by the probe whose verdict has it, and that is ok.*)
Truths ==
  \A p \in Probes : LET v == truth[p].verdict IN
    /\ v \in Verdicts /\ v.bw \in {Null, p}
    /\ IF v.kind = "ok" THEN v.device = truth[p].members[2] ELSE v.bw = Null

(* The newest probe that a node can tell of; it tells of that or of an     *)
(* older one, or of none at all.                                           *)
Latest(n) ==
  IF pc \in {"idle", "sweep"} \/ (pc = "second" /\ n = pair[1]) THEN probe ELSE probe - 1
Telling ==
  \A n \in Nodes, scope \in {"rack", "loopback"} :
    LET value(name) == Value(annotations[n], <<scope, name>>)
    IN IF value("at") = Null
         THEN \A name \in {"partner", "verdict", "bw"} : value(name) = Null
         ELSE value("at") \in 1 .. Latest(n)

(* What the prober, the two pods and the annotations know of each other:   *)
(* the invariant on which the three below rest.                            *)
PairInv == TypeOK /\ Stages /\ Ends /\ Writing /\ Truths /\ Telling

(* A verdict of "ok" means that a client and a server had a whole          *)
(* conversation in that very probe: no exit code, phase or log line of a   *)
(* client that gave up, broke off or was killed comes out as ok.           *)
NoFalseOk == \A p \in Probes : truth[p].verdict.kind = "ok" => truth[p].talked

(* A verdict other than "ok" has a cause in its own probe: some process,   *)
(* pod or call failed; or the server did not listen by the client's        *)
(* deadline (or not before the attempt that was refused as it passed); or  *)
(* a deadline of the prober passed.  That excuses no more than giving up   *)
(* the wait it belongs to: a Fail without a client, or a Timeout of one.   *)
(* So a client that ends on its own, however late, and is called Fail had  *)
(* a fault or a server that was too late for it: one that is merely slow   *)
(* to listen is waited for, and not used up by its client.                 *)
NoFalseAlarm ==
  \A p \in Probes :
    LET t == truth[p]
    IN \/ t.verdict.kind = "ok" \/ t.blame
       \/ t.deadline = "passed" /\ t.verdict = (IF t.step = "client" THEN Timeout ELSE Fail)

(* What the console reads on a node, for pairs and for loopbacks, tells of *)
(* one probe: the one of its timestamp, in which the node took part with   *)
(* that partner, and its verdict; a reason stands by a bad verdict and no  *)
(* other, a figure by a good one.  The figure is of the same probe unless  *)
(* that one measured none (its figures were not finite numbers).           *)
OneStory ==
  \A n \in Nodes, scope \in {"rack", "loopback"} :
    LET read == Read(annotations[n], scope)
        told == truth[read.at]
    IN read # Null =>
         /\ read.at \in Probes
         /\ told.verdict.kind = read.verdict
         /\ told.members \in
              (IF scope = "rack" THEN {<<n, read.partner>>, <<read.partner, n>>}
               ELSE {<<n, n>>})
         /\ read.reason = Null <=> read.verdict = "ok"
         /\ read.verdict # "ok" => read.bw = Null
         /\ read.verdict = "ok" => read.device = told.members[2]
         /\ read.bw \in {told.verdict.bw}
              \cup (IF told.verdict = Ok(read.device, Null) THEN 1 .. read.at - 1 ELSE {})

(* Every probe is concluded: no two of prober, client and server wait for  *)
(* each other for ever, even if the prober's own deadlines never pass.     *)
Concludes == pc # "idle" ~> pc = "idle"
=============================================================================
