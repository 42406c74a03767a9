# accelrd: TLA+ specifications, model checking and proofs

accelrd looks after accelerator nodes of a Kubernetes cluster. One Rust binary
runs in four roles: a **daemon** on every node, a **prober** (one per cluster), an
**admin console** (one per cluster) and the short-lived **probe pods** the prober
starts. This directory holds TLA+ models of it, the TLC configurations that
check them, and proofs checked by TLAPS. Line numbers below are of `src/src/`
unless a path says otherwise; `PROJECT.json` maps every definition to its lines.

Sections: [inventory](#inventory), [plan](#plan), [modules](#modules),
[runs](#runs), [fairness](#fairness), [proofs](#proofs),
[findings](#findings), [limits](#what-is-only-checked-and-what-is-left-out).

## Inventory

| component | state it keeps | operations | hard behaviours | what makes it correct |
|---|---|---|---|---|
| prober loop (`prober/reconcile.rs`, `mod.rs`, `pods.rs`) | permits of a semaphore, tasks, names of pods; in the API server: pods and stamps | `run_once`, `probe_pair`, `probe_loopback`, `cleanup_orphans` | concurrent tasks, failing calls, deadlines, kill and restart | no permit lost, no pod stranded, no node in two probes, every cycle ends |
| pair selection (`prober/pair.rs`) | none (reads annotations) | `eligible`, `group_by_rack`, `pick_pair`, `pick_loopback` | starvation, ties, nodes that come and go | every node gets its turn; no probe within the cadence |
| probe annotations (`prober/annotations.rs`, `results.rs`) | node annotations | `patch_pair`, `patch_loopback`, `build_body`, `parse` | two patches that are not one; keys a merge patch does not name | stamps advance; a verdict stands beside the values measured with it |
| timestamps (`time.rs`) | none | `rfc3339_at`, `days_to_ymd` | leap years, centuries; strings compared as times | Gregorian; string order is time order |
| prober configuration (`prober/mod.rs`) | flags | `resolve`, `resolve_probe_resources` | truncation to 32 bits, zero permits | every accepted value gives a prober that runs |
| node labeler (`k8s/labeler.rs`) | node labels | GET, merge patch of the managed prefixes, three attempts | overlapping writers, lost answers, stale keys | foreign labels untouched; managed labels converge to what is wanted |
| daemon lifecycle (`lifecycle.rs`, `main.rs`) | `label_base`, facts, loops | discover once, start loops | restart, client that cannot be built | labels are those of the hardware |
| preflight (`preflight/*`, `telemetry/preflight.rs`) | readiness labels, metrics | checks, `aggregate`, `run_cycle` | missing sensors, all checks skipped | not ready if a required check fails |
| probe pod (`probe/*`) | child process, exit code | server, client, `perftest` parsing | deadlines, a server that is not up yet | the client's exit code says what was measured |
| topology discovery (`topology/{discover,lldp,rdma}.rs`) | facts of a node | xGMI groups, LLDP neighbour, RDMA ports | silence that looks like absence | groups are an equivalence; same switch, same rack |
| topology labels (`topology/labels.rs`) | none | labels of a discovered node | collisions, SR-IOV functions | one value per key, of the node itself |
| admin console (`admin/*`) | cached client, health of `mutel` | verdict resolution, routes | hung upstream, stale verdicts | shows the latest verdict |
| console page (`static/admin/js`) | last fetched snapshot | polls, draws | responses out of order | the page shows the newest response |
| sensors (`sensors/*`) | none | enumeration, file reads | files that are missing | every card counted once, with its vendor and memory |
| live telemetry, OTLP export (`telemetry/live.rs`, `exporter.rs`, `admin/mutel.rs`) | gauges; series in the store of metrics | timer ticks, export, roll-up per node | restarts, gauges that outlive their card | the console's figure is that of the cards |

How they meet: the daemon enumerates cards and switches once, writes labels
(`rack`, accelerator counts, RDMA, readiness) to its Node and exports gauges to
mutel; the prober reads the labels (`eligible`: a rack label, an RDMA label,
node Ready), starts pods on pairs of nodes of one rack, and writes annotations
to both Nodes; the console reads labels, annotations and mutel, and a page in a
browser reads the console. There are no messages between the processes: **the
Node objects and the pods in the API server are the only shared state**, every
interaction is a call that can fail, and no call is conditional on a resource
version. The prober's own tasks share a semaphore.

The prober is the part where order and failure matter most: it runs tasks
concurrently, owns pods that outlive it, and everything it knows between two
cycles is what it wrote on the Nodes. It was modelled first. The hazards of the
whole code, each at its line, are listed in `PROJECT.json`.

## Plan

Done, in this order (the most important behaviour first):

1. `PairPick`, `Prober`, `ProbeRounds`, `DeleteRetry`: the prober with its pods,
   stamps, failures and restarts; the abstract rounds it implements.
2. `ProberProofs`: its inductive invariant and the refinement.
3. `Rotation`: pair selection over many cycles. `RfcTime`: the timestamps that
   `PairPick` takes for numbers.
4. `MergePatch`, `NodeLabels`, `NodeLabelsProofs`: the labeler and the daemon
   around it.

5. `NodeAnnotations`, `PerftestOutput`, `ProbePair`, `ProbePairProofs`: one probe
   from the inside, with the processes in its pods and the annotations it leaves.
6. `XgmiGroups`, `XgmiProofs`, `Lldp`, `Machine`, `HealthChecks`, `NodeView`,
   `Fleet` and their composition `NodeDaemon`: from the hardware of a node to
   what the console shows of it.
7. `Console`: the server, its kubelet and the page.
8. `RotationProofs`, `RfcTimeProofs`, `NodeDaemonProofs`, `ConsoleProofs`: the
   invariants of these for any constants.

What composes what:

```
ProbePair   = NodeAnnotations (on MergePatch) + PerftestOutput
NodeDaemon  = XgmiGroups + Machine + Lldp + HealthChecks + Fleet
              + MergePatch (the labeler) + NodeAnnotations (the prober) + NodeView (the console)
Prober      = PairPick;   ProberProofs: Prober implements ProbeRounds
Rotation    = PairPick
NodeLabels  = MergePatch
```

`Prober` has every probe of the cluster and takes what becomes of a pod as
given; `ProbePair` has one probe at a time and shows what becomes of it.
`NodeLabels` has the patches with their retries and losses, and four keys;
`NodeDaemon` has all keys, and a patch that is carried out or given up.

## Modules

**`PairPick`** is `prober/pair.rs` without I/O. Node names are numbers so that the
tie-break has its order; a stamp is the second it denotes and `Never` sorts before
all of them, as `None` does; `pick_pair`'s sort and `take(2)` are `Oldest`
applied twice; the result is a set with at most one pair. A loopback is `<<n, n>>`.

**`Prober`** has one action per call of the program to the API server, which is
where other processes and failures can come in between.

| in the code | in the module |
|---|---|
| labels and readiness read by `eligible` | `home[n]`: the rack, or `NoRack` |
| `last-rack-at`, `last-loopback-at` | `rackAt`, `loopAt` |
| pods of the namespace, `status.phase`, `podIP`, `creationTimestamp` | `phase`, `age` |
| `run_once`: orphans, list, loop, join | `cycle` = idle, list, dispatch, join; `StartCycle`, `ListNodes`, `Dispatch`, `AllDispatched`, `Join` |
| semaphore of `max_concurrent_pairs` | `permits` |
| a spawned `probe_pair` or `probe_loopback` | `pc[r]`, `pair[r]`, `spod[r]`, `cpod[r]`, `now[r]` (at most one task per rack in a cycle, so the rack names it) |
| an `Err` of any call | the `...Fails` actions, `Fault`; for a create also "carried out, answer lost" |
| deadlines of `await_pod_ip`, `await_terminal` | `ServerHasNoIp`, `ClientFailed`, which may fire at any time |
| process exit | `Crash`, then `Boot` |

`leaked` is a history variable: pods that exist although no task will delete
them. The verdict and the measured values decide no step and are left out. The
pods' deletion is immediate (a pod being terminated still carries traffic for its
grace period, which the code does not look at either).

**`ProbeRounds`** is what the loop promises: rounds, in each of which disjoint sets
of nodes are claimed, at most `Limit` at a time, and a round closes when all
claims are given back. `Prober` refines it: a round is open from the listing to
the join, a claim is the pair of a live task.

**`DeleteRetry`** adds to `Prober` one history variable, the pods whose delete
failed, to ask whether the next cycle retries them.

**`Rotation`** iterates `PickPair` on one rack with the stamps it leaves, with
nodes leaving and returning with their annotations (`Leave`, `Return`), or deleted
and registered anew without them (`Register`). Stamps are kept as ranks, which
makes the state space finite and hides nothing from a comparison sort.

**`RfcTime`** is the arithmetic of `days_to_ymd`, with the field layout of
`rfc3339_at`, compared with a calendar that counts days one at a time.

**`MergePatch`** is the RFC 7396 merge on a map of keys, and `merged_section`.
Labels and annotations are one map; the code treats both alike.

**`NodeLabels`** is the daemon as far as it decides labels: `Start` (discovery,
`label_base`, the client), `RunChecks` (a cycle's verdict), `Get`, the patch with
its three attempts, `Kill`. A patch whose caller gave up stays in `late` and may be
carried out at any later time. Others write their own keys, write the daemon's
keys by hand, or delete the Node. A card model is one key, the rack another, the
verdicts (always equal in the code) a third, `failed` a fourth.

**`NodeAnnotations`** is `build_body` and the console's `read_pair`, `read_loopback`
and `resolve_verdict`. A key is `<<scope, name>>`, the scope `"rack"` or
`"loopback"`; `null` in a body and a missing value are `Null`. Of the five figures
that a record may carry, `bw` stands for all: the code treats them alike.

**`PerftestOutput`** is `perftest::parse` on kinds of lines: text, a rule of dashes,
a header, a row of numbers, a row whose numbers are not finite.

**`ProbePair`** has three actors: the task of the prober, the server pod and the
client pod, each with the process in it.

| in the code | in the module |
|---|---|
| `probe_pair`, `probe_loopback` (the pair `<<n, n>>`) | `pc`: `StartProbe`, `CreateClient`, `ServerHasNoIp`, `Judge`, `ClientTimesOut`, `ClientDisappeared`, `PatchServer`, `PatchClient`, `Sweep` |
| `run_server` around `ib_send_bw`, which serves one connection | `server`: created, listening, talking, succeeded, failed, gone |
| `run_client`'s loop with its backoff and deadline | `client`: created, trying, refused, sleeping, talking, ...; `expired` |
| `Instant::now() >= deadline` in `await_pod_ip` and `await_terminal`, looked at before the pod is | `deadline`, `DeadlinePasses`; `ServerHasNoIp` and `ClientTimesOut` then fire whatever the pod has come to |
| the JSON record, the exit code and the phase that follows from it | `record`, `Exits` |
| the annotations of the nodes, the number of a probe as its time | `annotations`, `probe` |

`talked`, `blame` and `truth` are history variables: whether a whole conversation
took place, whether something failed or the server was later than the client's
deadline, and what each probe came to, in which step, and with which deadline. A
deadline of the prober blames nobody: `NoFalseAlarm` allows it to excuse giving up
the wait it belongs to and nothing else. The properties compare
what is written with these.

**`XgmiGroups`** is the search of `build_amd_xgmi_groups`, one pop of its stack at a
time. The adjacency is a `HashMap`: searches start from any card, and the stack,
a bag here, gives up any of its entries. **`Lldp`** is the parsing of a frame as a
sequence of TLVs (`Torn` one whose length leads out of the frame), hearing, and
the vote. **`Machine`** is what the sensors make of the cards and the labels of
`labels.rs`; a key is a tuple of prefix, name and suffix, and the ID of a domain,
a hash of its members in the code, is the set of members. **`HealthChecks`** has the
checks of `default_registry`, their thresholds and the aggregation. **`NodeView`** is
`from_node`. **`Fleet`** is the gauge of a card, its series in mutel, which are the points
of one process and one card within the window, and `latest_by_node`, which averages
each and adds the averages up.

**`NodeDaemon`** puts them together: `Boot`, `Group`, `Place`, `Listen` and `Build` are
the daemon's start; `StartCycle`, `RunOneCheck`, `NextCheck` and `Report` its preflight
loop, one subject of one check at a time; `Tick` the live loop beside it. Cards and
the host change their condition at any moment, the daemon is killed at any
moment, the prober writes verdicts if the labels make the node eligible. What a
condition is wrong with is stated a second time, as `Faults`, without the checks.
`shown` and `told` are history: the cards, and the verdict with its reasons, of the cycle
whose patch was carried out last.

**`Console`** is the server with its dependencies (up, down, hung), the kubelet that
probes it, and the page with its requests and answers on their way. The page has
the two views that draw nodes, with the cache they share. `Refresh` goes past the
cache on the cluster view and not on the topology, as `renderTopology` takes no
`force`; `Switch` never does. Requests reach the server through a port-forward whether
it is ready or not, or fail at its Service while it is not.

## Runs

| run | question | bounds and why they are enough |
|---|---|---|
| `prober_parallel` | permits, pods, disjoint probes, stamps, refinement | three nodes in two racks give a pair and a loopback task at once; four pod names give both tasks all theirs; one fault reaches every error path of a task beside an undisturbed one. The proofs cover any number |
| `prober_serial` | the inductive invariant, cadence, quiet between cycles | one permit makes the second rack wait while the first runs, three clock values and a cadence of one let stamps age across cycles, one node moves between racks in mid-cycle |
| `prober_live` | cycles end, leaks are reclaimed, every node is stamped | four nodes so that a rack of three must rotate; three pod names, so that with leaked pods about a create can be refused; the clock stands still (cadence zero) and only pods age |
| `delete_retry` | is a failed delete retried next cycle (finding) | one node, one fault |
| `rotation` | calendar and string order of timestamps; how long a member waits for its turn, and whether one that stays gets it again and again | every day of 1970 to 2134 (leap years, the century year 2000 that is one and 2100 that is not) at four times of day; then, on the last day (`MCRotation`), four nodes, three of which may leave at any time, and three registrations: every bound of `BoundedWait` from none to three newcomers is reached, and it is proved for any rack. With registrations that never end two nodes could take every probe, which is why they are bounded |
| `pair_coverage` | are all pairs of a rack probed (finding) | four steady nodes, the smallest rack with more than one way to pair up |
| `node_labels` | retried bodies, foreign keys, convergence | two card models; three faults let a cycle use up all its attempts; two changes by others let the node and the hardware change in one cycle. The invariants are proved for any number |
| `hardware_labels` | do labels follow the hardware (finding) | no faults, one change |
| `probe_pair` | what a verdict says of the conversation, what the nodes tell, whether every probe ends | two probes in a row, because a verdict is wrong beside what an earlier one left; three nodes, so that the second can take one node of the first and another; two failures in one probe, so that one can hit the handling of another, or one failure in either of two. Up to the names of nodes (`MCProbePair`). The invariants are proved for any number |
| `node_daemon` | groups, labels, rack, verdict, the console's view | families of machines, each large enough for one question: three AMD cards that report any of the others (a component of two and a lone card, a chain); two cards of like or different vendors, behind one bridge or two, whose six ailments each sit at a threshold and beside it, with two changes in one cycle, or one change and one kill; three interfaces and two switches, which can tie before the last frame and not after, with frames that are whole, torn, end late or lack a field |
| `fleet_restart` | does the memory of a node survive a restart (finding) | the same machines; one kill |
| `console` | banner, kubelet, views | every dependency changes as often as it likes; one change of the nodes gives an old answer and a new one; two renderings, of either view, can overtake each other |

The two halves of the page, banner and views, are watched one after the other
(`MCConsole`): they share only the world and the pod, and each property speaks of one. The
views are watched from a moment on when mutel refuses and the banner says so: they
take no notice of mutel but for the restarts it causes, which an API server that
hangs causes as well. A server that is restarted then finds its cluster again, or does
not, as before.

Named bounds: `MaxClock`, `MaxFaults`, `MaxMoves`, `MaxChanges`, `MaxProbes`, `MaxRevision`, and a
machine's `changes` and `kills`, only stop the environment; `MaxRenders` the user;
`MaxPoints` and `Rotation`'s count of missed turns stop at a value beyond which nothing
depends on them. No guard of the program depends on any. Deadlock is checked
in every run (`ProbePair` says with `Finished`, and `MCProbePair` with `Spent`, when a bound
is used up). `PodSymmetry` is used in the two safety runs of the prober: pod names are
compared for equality only, and no liveness is checked. In `probe_pair`, which checks
liveness too, `UpToNames` leaves out only probes that are others by another name. Every property has
a mutant in `PROJECT.json`: a plausible mistake in one definition that its run finds.

## Fairness

`Prober`'s `FairSpec` has weak fairness of the controller (a single loop: its
timer fires, its calls return, a dead process is restarted by its Deployment), of
each task (an async task is polled while it can run, and every wait of a task has
a deadline that is checked before anything else), and of time. Nothing is asked of
kubelets: a pod may get no IP and never end. Failures are bounded in number
(`MaxFaults`), which says that the API server answers some day. Dispatch needs no
strong fairness: a permit given back stays free until the loop takes it.

`Rotation` is fair to `Probe`: the timer keeps firing. Registrations end, by their bound. `NodeLabels` is fair to the
daemon's next step as a whole: one sequential loop with a sleep, restarted by its
DaemonSet. `Converges` is conditional on a labeler that is active: the code has
no way back from a client that could not be built.

`ProbePair` is fair to the prober's task (as above), to its pods as a whole (a pod
that was scheduled starts, `ib_send_bw` with a duration ends, a backoff is over
some day) and to the client's deadline, a clock. It is *not* fair to the prober's
own two deadlines (`await_pod_ip`, `await_terminal`), which pass early, late or never:
`Concludes` shows that, once a server has or loses its chance of an IP, they are a
second line of defence.

`Console` is fair to answers of either view, unless a dependency hangs, to the
kubelet's probes and to the page's poll, which are timers, and to the ageing of the
cache, a clock: left alone for ten seconds it is no longer fresh, so the topology
asks the server some day though refresh does not make it. Nothing is asked of the
dependencies, and of the user only in `TableCatchesUp`, as a premise: refresh is
pressed on that view again and again.

## Proofs

Every invariant and every action property of a passing run but the liveness ones
is stated by a theorem. All hold for any constants that meet the named
assumptions: finite sets of natural numbers for nodes and racks, `NoPod`, `NoRack`,
`Null`, `Nobody` and the foreign key outside the sets they must be told apart from
(`Null` is an absent value, so no number, no set of cards and none of the words a
label or an annotation has), bounds that are natural numbers, and machines as a
host can be: finitely many cards and mounts, sizes and temperatures that are natural
numbers or missing, VRAM sizes of AMD cards only, frames in which a switch sends its
own chassis ID as long as the frame is whole (`FramesAssumption`), verdicts without a
bandwidth when the test failed or was late (`VerdictsAssumption`). One hypothesis stands in a
theorem because TLC cannot evaluate it: in `ConsoleTellsVerdict`, `Null` is not a set
of failed checks either.

`ProberProofs` builds the inductive invariant `IInv` in four layers, each proved
inductive relative to the ones before, so that no step has to consider all of it:

1. *Permits* (`PermitInvariant`): types, `PermitsConserved`, a rack still queued has
   no task (`QueuedNotStarted`), a running task has two nodes (`PairsPicked`), no task runs
   between cycles (`QuietBetweenCycles`), and which pods a task names at each of its
   steps (`PodsByStep`), because an aborted task is told by having none.
   `PermitsConserved` alone is not inductive: `ListNodes` makes a new semaphore,
   which is right only because no task lives then. The steps rest on a
   lemma about the cardinality of `Live` when one rack enters or leaves it.
2. *Pods* (`PodInvariant`): no pod named twice (`PodsNamedOnce`), and `NoStrandedPod`.
   A task that ends may forget its names only because `PodsByStep` says they are gone.
3. *Claims* (`ClaimInvariant`): nodes of queued pairs and of running tasks are apart
   (`ClaimsApart`), from which `OneProbePerNode` follows. Racks partition the nodes
   only at the moment of listing; relabelling afterwards does not matter because
   the pairs are fixed by then.
4. *Clock* (`ClockInvariant`): a queued pair stays due (`QueuedDue`) because only
   a task of its own rack could stamp its nodes, by layer 3; no stamp is from the
   future, and the second patch of a pair, which carries an old reading of the
   clock, still does not go back (`StampsPast`).

From these: `PermitsAreConserved`, `NoPodIsStranded`, `OneProbeAtATime`, and the action
properties `CadenceIsKept` and `StampsOnlyAdvance`. On the same invariant rests
`CyclesAreRounds`: `Spec => ImplementsRounds`; a dispatch maps to a claim (claims are
apart and a permit was free, and the number of claims is that of live tasks,
because disjoint non-empty sets are distinct), the end of a task to a release, `Join` to a close, a
crash to `Die`, the rest to stutters.

`NodeLabelsProofs` proves `LabelInv`: a body has all wanted keys with their
values and nulls elsewhere, and, while nobody else wrote a managed key since the read, names
every managed key of the node. Hence `RetriesAreExact` (sending it any number of
times leaves exactly what is wanted) and `OthersAreLeftAlone` (bodies, and those in `late`,
name managed keys only).

`RotationProofs` proves `WaitIsBounded`: the waiting time that the comment of `pair.rs`
has in mind, in racks of any size. `BoundedWait` is not inductive; it follows from
`Overtaken`: twice the probes a node has missed are at most the nodes `Ahead` of it and the
nodes registered anew since. A probe that a member misses goes to two nodes that are not ahead of it (`PairIsStalest`)
and puts them ahead; nobody who is ahead falls back before the node has had its
turn, because ranking keeps the order of stamps (`RanksKeepOrder`), except one that
is registered anew (`RegisterKeepsRotation`).

`ProbePairProofs` proves `PairInvariant`, and from it `OkIsTrue`, `AlarmHasCause` and
`NodesTellOneStory`, in three parts. *Stages*: which pods exist at which step of the task.
*Ends*: what the two ends of a conversation know of each other; its last conjunct,
that a client refused at or after its deadline has somebody to blame, is what
`NoFalseAlarm` needs, and it is inductive because a server that listens goes on
listening until it talks or fails. The theorem counts the prober's own deadlines among
the causes and binds each to its wait: a client whose end was seen is called a failure
only for what happened to it or its server. *Told* (`Writing`, `Truths`, `Telling`): the verdict being
written is that of the newest probe, and a node tells of that one only after its
own patch; `Stories` adds, for a node and a scope, which probe its values are of,
and a merge patch is followed key by key.

`XgmiProofs` proves `GroupsAreComponents`: a group that is finished is closed under
links and has no closed proper part, for any cards and reports. `XgmiInv` is that of
a flood fill: links go both ways (`AdjacencyIsSymmetric`), what was reached or queued
lies in every closed set around the start (`Within`), and whatever a reached card is
linked to was visited or is queued (`Frontier`).

`RfcTimeProofs` proves `CalendarIsRight` and `StringOrderHolds` for every day of the years 0
to 9999 and any times of day. `DaysAreFields` undoes the divisions of `days_to_ymd`: a day is
a year that begins in March and a day of that year. From this `DaysAdvance` (the next day has
the next date, over the ends of months, leap years and centuries) and `FieldsGrow`. The
lemma that matters elsewhere is `StringsCompareAsTimes`: for two instants, however far
apart, comparing the fields in the order of the string compares the seconds. `Prober`,
`Rotation` and `ProbePair` rest on it when they take timestamps for numbers.

`NodeDaemonProofs` has an invariant for each thing a daemon says, so that no proof has
to look at all of its fourteen steps with all of its state:

- `VerdictInv`, for `CycleIsSound`. One check of one subject agrees with the faults of that
  moment (`OutcomeIsFault`, which needs what the constants assume of conditions, and
  `MaxOfFinite` for the mount with most space). Hence the invariant: a fault which has lasted
  so far and whose turn has passed (`TurnPassed`) is named, and what is named has
  been a fault at some time.
- `GroupInv`, for `DaemonGroupsComponents`: `XgmiInv` of the search in progress, tied to the
  step and to the cards the daemon *found*, which need not be those present now.
- `BaseInv`, for `NodeLabelsAddUp` and `RackIsHonest`: labels that were built are those of
  the found cards, of domains that are a partition, and of a rack voted from what was heard.
  `LabelsAddUp` then follows from `SumOfClasses`: the sizes of the classes of a function on a
  finite set add up to the size of the set. Its proof is by a minimal
  counterexample, because induction theorems with an operator as a parameter are out
  of reach; the fold over counts enters as the one function that satisfies its
  recursion.
- `NodeInv`, for `ConsoleCountsCards` and `ConsoleTellsVerdict`. What a node tells of the
  daemon is what the last daemon that patched wanted after one cycle, with that cycle's
  verdict and reasons and no others (`IsTold`; `PatchEffect`: the managed
  keys of a node after a patch are exactly those of the patch), and what it tells of the prober
  is, scope by scope, the verdict written last in that scope (`ScopeTold`; `MergeEffect`).
  `ConsoleVerdict` is about both at once, because a verdict of the checks may show only
  beside none of the prober; it says that a pair verdict comes before a loopback one
  whatever their ages, as the code does. Beside an ok without a figure an older figure may stand, and the invariant says so.

`ConsoleProofs` proves `OnlyAnswersAreDrawn` (`TypeOK` of `Console`) and the safety that
`NeverPunished` rests on, `RefusalsNeverRestart`: dependencies that refuse, rather than hang, never count
against the console. `TypeOK` is not inductive: a view is drawn from a rendering
that has its answer, and only `Types` says that such a rendering carries a list.

## Findings

1. *Pair coverage* (`pair_coverage`). The comment of `prober/pair.rs` promises every
   pair in O(N^2) cycles; both nodes of a pair get the same stamp, so the same pairs
   return for ever. That every *node* is covered holds (`rotation`).
2. *Failed deletes* (`delete_retry`). The log line says the delete is retried next
   cycle; nothing does before the pod is older than four test durations and ten
   minutes.
3. *Hot-removed cards* (`hardware_labels`). The labeler nulls keys so that labels of
   removed cards disappear, but the labels it is given are decided once at start.

4. *Memory counts twice after a restart* (`fleet_restart`). The comment of `latest_by_node`
   says that the roll-up fixes figures inflated by stale series of recent restarts. A
   new process has a new `service.instance.id`, hence new series, and all series of the
   last 300 seconds are added up.

Observations made while modelling, which no run refutes (the specifications say
what the code does):

- *A timeout may be false.* `await_terminal` looks at its deadline before it looks at the
  pod (`pods.rs:224-226`), and passes over gets that fail: a client that has ended since
  the last answer is a timeout, with the reason "did not terminate before timeout".
  `await_pod_ip` (`pods.rs:192-194`) does likewise with an IP. `NoFalseAlarm` says which
  verdicts a deadline may account for.
- *A hung mutel restarts the console.* `/api/health` waits up to five seconds for it
  (`admin/mutel.rs:23-33`); the kubelet waits three for readiness and five for liveness
  (`manifests/admin.yaml:108-121`). `NeverPunished` shows that a mutel which refuses does
  no harm, and that one which hangs does none that lasts.
- *An old pair verdict hides newer loopbacks.* `resolve_verdict` prefers pairs by design;
  a node left alone in its rack shows its last pair verdict for ever.
- *A figure may be older than the verdict beside it.* `build_body` leaves out figures
  that are not finite numbers, and a merge patch leaves what it does not name.
  `OneStory` says exactly when.
- *The device on the server's node is the client's.* `patch_pair` writes the same record
  to both nodes.
- *The message of a failed record is never shown.* `ok = false` makes the exit code
  non-zero, so the phase is `Failed` and the log is not read (`reconcile.rs:230-234`).
- *A rack inferred from a tie may change at a restart*, with the order of a `HashMap`
  (`discover.rs:85-94`); `RackIsUplink` allows either switch.
- *`sensor.readable` cannot fail*: no backend produces the coverage it looks for.
  *`host.disk.free` looks at the mount with most free space*, so a full root disk passes
  beside an empty scratch disk.
- *A daemon that starts while a driver is unbound* finds no card, and calls the node
  ready without it.
- *SR-IOV counts are never emitted on real machines*: `labels.rs:95-115` looks for
  `sriov_totalvfs` in the parent of a device directory that has been canonicalized,
  which is a bridge.

## What is only checked, and what is left out

Only model-checked: liveness under fairness, which is out of the prover's reach
(`CycleEnds`, `LeaksReclaimed`, `EveryNodeProbed`, `NodeCoverage`, `Converges`, `Concludes`,
`BannerFollows`, `NeverPunished`, `TableCatchesUp`).

Assumed: one prober (one replica, strategy Recreate in `manifests/prober`) with at
least one permit, and one daemon per node; time that does not go back; patches the
API server accepts as well-formed; names generated by the API server that are not
reused while a task still holds them; a pod deleted by name being gone when the
call returns; hashes of different domains that differ; slugs of different models
that differ; a kernel that gives a DRM node to cards with a graphics driver only.

Not modelled, and why:

- *Configuration* (`config.rs`, `resolve`): read once at start, the parameters of the
  models. Its integer edges are hazards with a note.
- *Strings*: formatting, slugs, lengths of names, `pretty()`, escaping, the hashes of
  domains. Keys and names are values that are equal or not.
- *Sensors other than size*: temperatures, power, clocks, host metrics and sensor
  labels are copied from a file to a gauge by a loop that keeps nothing.
- *Export, tracing, sockets*: third-party libraries and system calls; of the exporter
  only the identity of a process matters here.
- *Routes that pass a query through* to mutel (metrics, logs), the page's probes and
  logs views, static files and the drawing of `topology.js`: no state shared with what
  is modelled.
- *Region and zone labels*: copied flags.
- *Manifests other than the console's probes*: deployment data, see the assumptions.
