# TLA+ models of AI-Infrastructure-Debugger

A host agent samples a Kubernetes node every second and ships snapshots over
HTTP to a dashboard, which stores them in PostgreSQL and shows the latest as
"Live". A fault runner saturates a container on purpose and records the phases
of the experiment as rows that later label the telemetry; CronJobs build
features, rollups and enforce retention.

This directory models the parts of that program in which threads, processes,
crashes and lost calls meet, checks them with TLC on small instances, and proves
the main results with TLAPS for every value of the constants. Paths below are
relative to the repository.

## 1. Inventory

| Component | State | Operations | Talks to |
|---|---|---|---|
| Agent spool and exporter, `agent/src/infrastructure_exporter.cpp`, `main.cpp` | `NAME.json` and `.tmp` files; `stop_requested`; batch and failure counter of the exporter thread | `enqueue`, `enforce_spool_limit`, `run`, `send`, signals | disk, dashboard (HTTP) |
| Host sampling, `agent/src/telemetry_collector.cpp`, `linux/*.cpp` | the samples of the last cycle | constructor, `collect` | /proc, exporter (each snapshot is enqueued) |
| Container and Kubernetes collection, `telemetry_collector.cpp`, `kubernetes_metadata_collector.cpp`, `linux/cgroup_collector.cpp` | the last cgroup sample, cached metadata, time of the last refresh | `collect`, `read_snapshot` | cgroups, kubectl |
| Container, pod and deployment metrics, `agent/src/*_calculator.cpp`, `*_aggregator.cpp` | none (pure) | deltas and sums | collector |
| Ingestion and Live, `dashboard/server.py` | `LatestSnapshotStore`, requests being served, `stop` | `POST /v1/infra-snapshots`, `maintain_database` | agent, database |
| Telemetry database, `dashboard/database.py` | pool, `ready`, `_known_partitions`, tables | `open`, migrations, `ensure_partition`, `ingest_snapshot`, `ingest_otlp_traces`, experiment rows | PostgreSQL |
| Experiment rows, `database.py`, `migrations/002`, `003` | `telemetry.fault_experiments`, index of the single active row | INSERT, UPDATE, sweep | runner, feature builder |
| Fault runner, `fault_injection/runner.py` | local phase, traffic counters | `run_experiment`, `saturate_cpu`, `TrafficGenerator` | dashboard, kubectl, demo app |
| Feature builder, `dashboard/features.py` | `experiment_feature_builds`, `..._buckets`, advisory locks | `build_pending_features`, `build_experiment_features` | experiment rows, samples |
| Rollups and retention, `dashboard/maintenance.py` | rollup tables, partitions | `rollup_recent`, `enforce_retention` | tables |
| User interface, `dashboard/static/app.js` | page state | polling, rendering | query API |
| Demo application, test workloads, manifests, scripts | none of interest | | |

What is hard in it:

- *Concurrency.* Two agent threads share a directory; the mutex is released
  while a batch is on the wire. Handlers of several requests interleave between
  transactions. Runners, the sweep and feature builders write the same rows.
- *Failure.* The agent, the dashboard, PostgreSQL, the runner and kubectl fail
  independently; only the directory, the tables and a program running in a pod
  survive.
- *Delivery.* Answers are lost; a request that was given up is still being
  worked on; a batch can be stored in part.
- *Sampling.* Counters are compared with those of the cycle before, while
  processes, interfaces and containers come and go, files are unreadable for a
  while and the agent restarts. Kubernetes is read by four commands, one after the
  other, while it changes.
- *Time.* An experiment's row expires, the load stops by its own deadline, and
  calls that were given up take effect at any later time.

What makes each component correct: no snapshot disappears silently and Live
shows only what was stored, moving forward; the spool is bounded and drains
oldest first; loads run one at a time, under an active row, and inside the
phase that labels them; finished experiments never change; nothing stays active
or spooled for ever; a completed build has its buckets and every experiment with
telemetry is built; nothing is deleted before its retention ends and a cached
partition exists where it is used; every increment of a counter is reported
once and charged to the process or container it belongs to; known identities
survive failed refreshes, and once the cluster keeps still the snapshots agree
with it; what is stored has no gaps, and the sightings of a resource are those of
its samples. For what is not modelled: recovery is judged by requests of the
recovery phase.

`PROJECT.json` lists every component with its status and every hazard at its
line, with the properties that cover it or the module that will.

## 2. Modules

```
DeliveryBase <- AgentSpool   <-\
             <- IngestServer <- TelemetryDelivery --refines--> SnapshotFeed
ExperimentStore <- FaultExperiments --refines--> SingleExperiment
FeatureBuilds
Retention
NodeSampling
WorkloadMetrics <- WorkloadCollection
Sums <- AgentSpool, NodeSampling, WorkloadMetrics

Sums_Proofs <- AgentSpool_Proofs <- TelemetryDelivery_Proofs
            <- NodeSampling_Proofs, WorkloadCollection_Proofs
```

| Module | Models |
|---|---|
| `DeliveryBase` | a snapshot (named by the second it was collected in, which is both its file name and its key) and the budget of faults |
| `AgentSpool` | the agent: both threads, the directory, the process |
| `IngestServer` | the ingestion handler, Live, the opening of the database |
| `TelemetryDelivery` | agent and dashboard composed, with the connection between them |
| `SnapshotFeed` | the abstract specification: what the pipeline promises |
| `Sums` | the sums of sizes, bytes and CPU times |
| `ExperimentStore` | the three statements that write `fault_experiments` |
| `FaultExperiments` | the runners, their calls, the loads, the clock |
| `SingleExperiment` | the abstract specification: what experiments promise |
| `FeatureBuilds` | the builders of experiment features and the tables they write |
| `Retention` | ingestion into partitions, the rollup job and the retention job |
| `NodeSampling` | the kernel's counters and what the agent reports of them |
| `WorkloadMetrics` | the figures of containers, pods and Deployments, as operators |
| `WorkloadCollection` | sampling of cgroups, the refresh of the Kubernetes metadata and its cache, next to the cluster |
| `AgentSpool_Proofs`, `TelemetryDelivery_Proofs` | theorems on the agent alone and on the pipeline |
| `FaultExperiments_Proofs` | theorems on the single active row, the loads, phases and labels, and the refinement |
| `Sums_Proofs` | lemmas on sums over finite sets, used by four of the others |
| `FeatureBuilds_Proofs`, `Retention_Proofs`, `NodeSampling_Proofs`, `WorkloadCollection_Proofs` | theorems on the module of that name |
| `MC*` | values of the constants and symmetry sets for TLC |

### AgentSpool

`producer` and `current` are the main thread's position in `enqueue()`, `tmp`
and `spool` the two kinds of file, `exporter` and `batch` the position and the
locals of `run()`. `spool_mutex_` is not a variable: it is held exactly when
`producer` is not idle or `exporter` is removing (`MutexFree`). `Collect` begins
an enqueue, `Publish` is the rename, `DropOldest` one turn of
`enforce_spool_limit()`; `PickBatch` / `IdlePoll`, then one of `Accepted`,
`Rejected`, `SendFails`, then `StartRemoval`, `RemoveOne`, `EndRemoval` or
`BackoffElapsed` are the loop of `run()`. `EnqueueThrows`, `RequestStop`, `Exit`,
`Crash` and `Restart` are the ways in which the process ends and comes back.

Details that matter: the `ofstream` is tested before its destructor flushes it,
so `Publish` may produce a `damaged` file; a `.tmp` file survives a crash and a
failed write; a crash or an exception during the enforcement of the limit
(`EnqueueThrows` covers those of the write and of the enforcement) leaves the
spool over it until the next enqueue (`overfull`); one unreadable file makes the
whole batch wait (`IdlePoll`).

### IngestServer and TelemetryDelivery

A handler is a slot with its request and what is left to store. `Persist` is one
transaction; between two of them anything may happen. `PersistFails` covers both
an unreachable database and a commit whose acknowledgement was lost. `resource`
is the row of a resource that every snapshot holds, the node, say: its two
sightings and the snapshot whose attributes it has. `Commit` writes it again
(`Upserted`), even if the samples of the snapshot are there already. An event's
row follows the same rules: its count and last sighting go up, its details are
those of the last writer. `Expose` updates Live with the whole batch at once:
there is no `await` between `latest.update()` calls, and the last of the ordered
batch wins. `TelemetryDatabase.ready` is set once and never taken back by an
outage.

`conn` is the handler the exporter waits for. `TimesOut` sets it back while the
handler goes on, so that a second request with the same snapshots can overtake
it. A lost answer is the same step.

`SnapshotFeed` knows only what was accepted, what the agent holds, what is kept,
lost and shown. The refinement maps `held` to the spool, `kept` to the stored
snapshots and `lost` to those evicted or refused.

### ExperimentStore and FaultExperiments

A row is its `status`, its five timestamp columns and `expires_at`. `Create`
includes the sweep of the same transaction; `Update` is the conditional UPDATE
with its `COALESCE`; `Sweep` is the first statement of `build_pending_features`.

A runner's `pc` names the sleep or the call it is in, `phase` is its local
variable `state`. A call is put into `calls` when it is made. `Execute` commits
it and lets the runner go on if it still waits; `Fail` refuses or loses it;
`GiveUp` lets the runner go on without it, after which it may still be executed.
An `Update` that its guard forbids is a 409: only `Fail` can consume it. The
load is a process of its own: `Launch` starts kubectl when the runner enters the
fault, `LoadStarts` is the program in the pod, which follows within `ExecMargin`
or not at all, whether the runner still lives or not, and `LoadEnds` its own
deadline. A load is "abandoned" when kubectl has failed before it began, and
"detached" when it runs although kubectl has failed.

Time is discrete. `Tick` stops at the deadlines of a running runner: a sleep
ends when it should and a time-out fires when it should, which is what
`LoadUnderActiveRow` needs. `Kill` removes a runner, and its deadlines, at any
time; the server may sit on a call for ever.

`SingleExperiment` has neither clock nor calls: an experiment is admitted when no
fault is on, which fails one that was left open; it becomes active, recovering
and ends; its fault is switched on once, while it is active, and the phase does
not change before it is off. The refinement maps a row's `status` to itself and
`load` to what the runner sees of it (`Watched`): "starting" counts as not yet on,
"abandoned" and "detached" as off, since a load whose kubectl has failed may begin
and go on (finding `experiments_overlap`). A fault given up before it began is off
without having been on (`FaultForgone`). A PATCH that repeats a status is a stutter.

### FeatureBuilds

`build` and `buckets` are the committed rows of `experiment_feature_builds` and
`experiment_feature_buckets`, the latter abstracted to their number. A builder
is a process: the CronJob, which takes the oldest `Limit` candidates, or
`maintenance.py features --experiment-id`, with or without `--force`. It
chooses, builds in one transaction (`BeginBuild` to `Commit` or `Raise`) and,
if that raised, records the failure (`RecordFailure`). The advisory lock is not
a variable: it is held exactly while the transaction is open (`Locked`), and by
the same token so are the row of the experiment and the row of the build, so
another builder's `RecordFailure` has to wait. What it does not have is the
lock, and it does not look at the row it overwrites. A lost acknowledgement of
`Commit` leads there too.

The experiments a builder may be given come from `FaultExperiments`, whose rows
finish one at a time; here they are numbered in the order in which they do.

### Retention

Telemetry is counted in minutes, and a minute waits in a spool, has raw rows, or
has a rollup. `Validate` looks at its age, once; `Ensure` is `ensure_partition()`,
a transaction of its own that is skipped for a day in `known`; `Insert` is the
transaction that follows. The clock and the jobs go on between any two of them. The
rollup job does the oldest bucket first, one transaction each
(`RollupBucket`). The retention job lists old partitions (`RetentionStarts`),
looks at each one (`Look`) and drops it (`DropPartition`). `Look` and
`DropPartition` are one transaction, but at READ COMMITTED its queries lock
out no insert, so they are two steps. Each job may die at any point. The two
jobs open the database like the dashboard does, which makes sure of today's
partition.

`spans` and `infra_samples` follow the same rules and are one table here, as far
as ingestion of snapshots goes; spans, which nobody refuses for their age, are
not modelled.

### NodeSampling

Each collector reads one counter that stands for those it treats alike, from
state that the host changes: `cpu`, `segments` (snmp), `timeouts` (netstat),
`bytes` per device, `ticks` per process. `Start` is the constructor of
`TelemetryCollector`, `Collect` one call of `collect()`: the reading of one
sample, the figures of the snapshot (`Report`) and the assignment of the
previous samples (`NextPrevious`). A sample is taken at one moment: no figure
relates two of its files but the CPU share of a process, of which the model
keeps the numerator. `Fails` and `Throws` are the exceptions of the collectors
that need their file; netstat and the pressure files read as zeros or as not
available. The constructor reads neither meminfo nor the pressure files
(`StartThrows`), so an agent that systemd starts while meminfo is unreadable
takes its first sample, sleeps and dies in its first `collect()`, again and
again until the file recovers; while snmp is unreadable it does not get that
far. CPU times are taken modulo `Word`, as unsigned arithmetic does.

`started`, `last`, `moved`, `counted`, `charged`, `erased` are history: what the
kernel really counted and what all snapshots together said of it.

### WorkloadMetrics and WorkloadCollection

`WorkloadMetrics` holds the pure part: `ContainerMetrics` compares two samples,
`PodMetrics` adds up the containers whose identity is known, `DeploymentMetrics`
merges pods with what Kubernetes says of Deployments; the parsers take rows
instead of text.

`WorkloadCollection` is `collect()` from the cgroup sample on. `Sample` takes it
and decides whether a refresh is due; `Run(cmd, succeeded)` is one kubectl
command, of which the first can end the refresh (`Abandons`) and the last puts
the result in place of the cache (`Adopt`). Between any two of these steps the
cluster changes, and `Tick` lets time pass: one unit for the sleep of `main()`,
any number up to a bound for the commands. `pc` says where the agent is;
`reading` is the set of locals of `read_snapshot()`. A container is missed by a
sample when its processes are not listed at that moment, and torn when it ends
while its files are read. A container uses at most one CPU, so a usage above the
time between the samples is impossible.

The API server may list a container some time after it started and for some time
after it ended. A ReplicaSet exists before its pods and may be deleted before
them. A Deployment may be deleted and created again under its name, with
generation 1; `reached` is history, the highest generation under that name.

## 3. Runs

| Run | Checks | Result |
|---|---|---|
| `agent_alone` | `SpoolWithinLimit`, `DrainsInOrder` | hold, 488k states |
| `agent_directory` | `DirectoryBounded` | violated (finding) |
| `delivery` | `TypeOK`, `NoSilentLoss`, `NoGaps`, `SightingsAreTrue`, `LiveNeverRegresses`, `OnlyReplaysGoBack`, `ImplementsFeed`, `SpoolDrains` | hold, 87k states |
| `delivery_refusal` | `OnlyBadSnapshotsRefused` | violated (finding) |
| `experiments` | `TypeOK`, `LoadUnderActiveRow`, `PhasesOrdered`, `LabelsCoverTheLoad`, `SuccessIsRecorded`, `ImplementsSingle`, `OutcomeIsFinal`, `EveryExperimentEnds` | hold, 890k states |
| `experiments_overlap` | `NoOverlappingLoads` | violated (finding) |
| `features_builders` | `TypeOK`, `CompletedMeansBuilt`, `FeaturesStable`, `EveryExperimentIsBuilt` | hold, 171k states |
| `features_record` | `FailedMeansUnbuilt` | violated (finding) |
| `retention_jobs` | `TypeOK`, `CacheIsTrue`, `RawKept`, `RollupsKept`, `MinutesAreStored` | hold, 135k states |
| `retention_rollup` | `RetentionWaitsForRollup` | violated (finding) |
| `node_counters` | `TypeOK`, `CountedExactly`, `BytesCountedOnce`, `ChargedWithinLife`, `UtilizationIsTrue`, `KeepsReporting` | hold, 51k states |
| `workload_metadata` | `TypeOK`, `OwnersResolve`, `DeploymentsToldApart`, `UsageIsPossible`, `IdentityKept`, `FreshEnough`, `Converges` | hold, 964k states |

`AnswersAreFounded`, `LiveIsStored`, `AgentTypeOK` and `OneLoadAtATime` are proved
(section 5) and named by no run of their own: the first two are the inductive part
of `NoSilentLoss` and of `ImplementsFeed`, the third is a conjunct of the `TypeOK`
of `delivery`, and the last follows from `ImplementsSingle`.

Bounds, and why they are enough:

- `agent_alone`: five snapshots of sizes 1, 2, 1, 5, 1 in a spool of 4 units,
  batches of two files or 3 units. So files are evicted one and several at a
  time, one file exceeds the spool and a batch by itself, both batch limits
  bind, and the fifth file is unreadable. Two faults allow a crash and a
  second one after the restart.
- `delivery`: three snapshots, the first of which is larger than a batch may be,
  a spool of 4 units, batches of two, two handlers. Two batches can be in the
  hands of two handlers while the spool evicts; with two faults a time-out or
  lost acknowledgement is followed by a crash, an outage or a second time-out.
- `experiments*`: two runs, all durations one unit, slack of two, so every
  deadline, expiry included, lies within the horizon of 9 (10 for the overlap),
  and a second experiment fits in after the expiry of the first. `StartBy`
  bounds the starts so that each can end. Runs without a fault to inject (the
  healthy ones, `Healthy`) apply no load and are not part of these instances;
  the proofs cover them.
- `features_builders`: the CronJob and one builder by hand, three experiments,
  one of which always fails, and a limit of two. So both builders can meet on
  one experiment and one can overtake the failure of the other; the one fault is
  a lost acknowledgement, a failed statement or a death. One place of every
  execution is always left for an experiment that can be built. That is needed:
  with as many failing experiments as the limit (twenty in the code) they are
  chosen again every minute and no later one is ever built.
- `features_record`: two experiments, two builders by hand (interchangeable, so
  symmetry is used) and no fault.
- `retention_*`: days of two minutes, raw retention of one day, summaries of
  two, a rollup window of one minute. The clock runs to minute 5, so that the
  first day is dropped and the first rollup forgotten, a minute may be delivered
  late, and a handler may sit across midnight. One restart of the dashboard.
- `node_counters`: two interfaces, one of which comes and goes, `lo`, a disk;
  one pid that two processes may have one after the other; counters modulo 4;
  three events outside the agent. Two of them already make a counter step back
  or a pid change hands between two samples, and the third is a restart or a
  file that fails meanwhile. Of the required files meminfo stands for those that
  only `collect()` reads and snmp for those that the constructor reads as well.
- `workload_metadata`: three containers in two pods of Deployments with the
  same name in two namespaces, one of them busy; a refresh every two units, a
  command of one unit; two changes of the cluster, and one fault: a failed
  command, a missed or torn container, or a restart. The Deployments have any
  generation at first, so two changes delete one and create it again with a
  smaller generation than the metadata says. A change between any two
  commands, followed by another one in the next refresh or by a failure of it,
  fits in.

Fairness. `delivery` assumes that both threads and the handlers are
scheduled, that requests are answered or time out, that systemd restarts the
agent (`Restart=always`) and Kubernetes the dashboard and PostgreSQL, and that
the database comes back. Faults are never obliged to happen and are finitely
many. `experiments` assumes that time passes, that the feature CronJob
runs (every minute, `kubernetes/dashboard.yaml`), and that runners that are not
killed go on. Nothing is assumed of calls. `features_builders` assumes that the
CronJob runs every minute and that a builder that was started goes on; strong
fairness of `RecordFailure` stands for PostgreSQL's queue of waiters, which
gives a blocked UPDATE its row although builders come and go. Nobody is obliged
to build by hand. `retention_jobs` assumes that the agent sends the oldest file
again until it is settled and that a handler goes on. The jobs are not obliged
to run. `node_counters` assumes that the loop of `main()` goes on and systemd
starts the agent again; a file that is needed need not become readable, which is
the premise of `KeepsReporting`. `workload_metadata` assumes that time passes
and that the agent goes on; changes and faults are never obliged to happen and
are finitely many, which gives `Converges` a cluster that keeps still.

Deadlock is checked in every run. `Horizon` is the only stuttering disjunct: it
is enabled where the model's clock stops.

## 4. Findings

- `delivery_refusal`: a batch rejected with 400, 413 or 422 is deleted as a
  whole, although one snapshot is at fault (`infrastructure_exporter.cpp:228`);
  `README.md:163` says the spool protects delivery.
- `agent_directory`: `.tmp` files left by crashes are never counted nor removed
  (`infrastructure_exporter.cpp:90`), so the "bounded" spool grows.
- `experiments_overlap`: when `kubectl exec` fails the load goes on but the row
  is failed at once, so the next experiment overlaps it (`runner.py:162`), while
  `README.md:489` says that only one may be active.
- `features_record`: the failure handler of a build marks a completed build as
  failed while its features stay (`features.py:488`); `README.md:502` says that
  the table records whether feature generation completed.
- `retention_rollup`: one rollup of a day lets retention drop all its raw rows
  (`maintenance.py:233`), those included that arrived too late to be rolled up;
  the integration test at `test_postgres_integration.py:476` is named after the
  opposite.

## 5. Proofs

The proof modules are checked by TLAPS to the last leaf; they assume the named
assumptions of the modules they extend and nothing else.

`TelemetryDelivery_Proofs`. `NoSilentLoss` is not inductive: a removal deletes
files on the strength of an answer given many steps ago. `AnswersAreFounded`
says what each such answer is worth: a handler's finished part is stored, the
awaited handler serves the exporter's batch, an accepted batch is stored, and
what is left of a batch under removal is stored or refused. The inductive
invariant `DeliveryInv` is `TypeOK`, `AnswersAreFounded`, `NoSilentLoss` and
`LiveIsStored`. `LiveNeverRegresses` and the refinement of `SnapshotFeed` follow
from it; the refinement also needs that the snapshot in hand has never been
queued before (`QueuedOnce`).

What is stored in which order needs more: `InOrder`. A batch is made of the first
files of the spool and stays so (`BatchComesFirst`, of `AgentSpool_Proofs`); what
precedes it has left the spool and is therefore settled, by `NoSilentLoss`; and a
handler stores the first of what it has left. So whatever precedes a snapshot that
is being stored is settled, which is `NoGaps` and gives `SightingsAreTrue` and
`OnlyReplaysGoBack`. A handler that was given up may still store a snapshot that
was evicted meanwhile: that is the exception both of them make.

`PipelineRunsAgent` says that the composition adds nothing to the agent: whatever
the dashboard and the connection do, it makes a step of its own, gets one of the
three results or rests. So the theorems on the agent alone hold in the pipeline
(`PipelineDrainsInOrder`, `PipelineKeepsLimit`).

`AgentSpool_Proofs` proves the types of the agent alone, in lemmas that the
pipeline uses too, and `DrainsInOrder`, again from `BatchComesFirst`: whichever
thread removes files, it removes the first one. `SpoolWithinLimit` is inductive with
the types: a rename, which is what makes the spool larger, leads into the loop that
is left when the sum of the sizes is within the limit, and files that both threads
remove meanwhile do not raise it (`FewerFilesAreSmaller`). `NeverStuck` says why
these loops end: whoever has to remove a file finds one, and a first file of any
size is a batch.

`Sums_Proofs`. A sum over a finite set is a recursive function over its subsets,
and no induction theorem can be cited with a predicate. Its lemmas argue by
counterexample instead: a set of numbers, or a family of parts of a finite set,
that is closed under the induction step lacks no member, because a least one
missing would contradict the step. That `<` and strict inclusion are well
founded the library states without operator parameters. So they prove that the
recursion has a unique solution, what one element adds to a sum, that sums of
larger values over larger sets are larger, that sums over disjoint sets add up,
and that parts of a set that have nothing in common sum up to no more than it.

`FaultExperiments_Proofs`. `OneActiveRow` (the index) and `CreatedOnce` (the
create call of a run is pending at most until its row exists) are inductive with
`TypeOK`. For `LoadUnderActiveRow` the invariant has to tie the clock of the
runner to the row: `OnSchedule` bounds when a runner is in which step relative
to the start of its experiment, and `LoadIsCovered` says of a load that runs, or
that kubectl may still start, that its row is active, that no pending call can
change it, and that it stops before the row expires. That last inequality is
`2 * ApiTimeout + ExecMargin <= Recovery + Slack` of `TimingAssumption`: with the
constants of the code, 5 s for a call, 20 s for kubectl and 30 s of slack, it
holds for every recovery period. (`urlopen(timeout=5)` limits each socket
operation and not the call; a call of up to 10 s still satisfies it for every
recovery period of at least 10 s.)

In the same module, `PhasesOrdered` and `LabelsCoverTheLoad` relate timestamps
that were chosen when a call was made to rows that it changes at any later time.
The invariant `AllInOrder` therefore has a part for each of row, calls, runner
and load: `RowInOrder` orders the stamps of a row by its status, `CallsInOrder`
says of each pending call that its stamp fits the row whenever it is executed,
`RunnerInOrder` ties the local phase to the row, and `LoadInOrder` the times of
the load to the stamps around it.

The refinement of `SingleExperiment` then needs no further invariant. A step
changes rows or what the runner sees of loads, never both: asking kubectl for a
load is not yet a load. Where it changes rows, `LoadUnderActiveRow` of the state
after it says that no fault is on in an experiment whose phase changes
(`NoFaultWhereRowsChange`); `OneActiveRow` makes the sweep a step of one
experiment, and `CreatedOnce` a creation that of a new one.

`FeatureBuilds_Proofs`. `CompletedMeansBuilt` needs `LockHeld`: two builders are
never in the transaction of the same experiment, which the advisory lock gives.
With it the invariant is inductive, because the one step outside the lock,
`RecordFailure`, takes a row away from "completed" and never to it.
`FeaturesStable` follows: a builder without `--force` enters only on a build
that is not completed, and the lock keeps it so until it leaves.

`Retention_Proofs` begins with the calendar: days are quotients of minutes, and
the lemmas say that they are monotone and where a day that is dropped lies.
`CacheIsTrue` is inductive with `ListIsOld`: what the retention job has listed is
out of retention when it is listed and time only makes it older, so the job never
drops a day of which the dashboard may still need its memory. `RawKept` follows.
`RollupsKept` needs that a minute to be rolled up again still has its raw rows
(`RollupsAreFounded`), hence the assumption that raw retention covers the window
of a rollup job (five minutes against a week in the code).

`NodeSampling_Proofs`. `CountedExactly` is inductive with `SamplesBehind` (the
last sample of a running agent does not exceed the counters) and `Shape`.
`ChargedWithinLife` needs `ChargesCovered`: what a process has been charged with is
at most the CPU time in the last sample, unless that is of another process with
the same pid, in which case it has not been charged at all. `BytesCountedOnce` rests
on `MovesAccounted`: what the devices carry, less what the last sample says of them,
is at most what was transferred since, with equality until a device goes away; the
sums are taken apart device by device. `UtilizationIsTrue` rests on `TimesTracked`:
the sample holds the true times modulo the word, and the idle ones as well, so that
the differences of the remainders, again modulo the word, are the true differences
as long as these are smaller than it. The arithmetic is in lemmas of its own
(`DifferenceOfRemainders`, `SumOfRemainders`, from the uniqueness of quotient and
remainder).

`WorkloadCollection_Proofs`. `OwnersResolve` rests on the order of the commands:
pods are listed before replica sets, which exist before their pods. `FreshEnough`
relates the age that decides on a refresh to the age of what was listed,
`IdentityKept` follows the cache through a refresh that is abandoned, and
`UsageIsPossible` bounds what a container can have used since the previous sample
by the time in between.

For `TypeOK` and `DeploymentsToldApart` two invariants say that what the agent
has is true of the cluster: `ViewTrue` (each row of a command's result, and each
identity, Deployment and event in the cache, is one of the cluster's, and no
generation is ahead of what its name has reached) and `FiguresOK` (the samples
and what was made of them). A cached generation may be ahead of a Deployment
that was created again, but never of `reached`, which only grows. A Deployment's
row then has the pods whose replica set it owns; pods of different rows have no
container in common, so the sums of the rows are at most the sum over the
containers (`RowUsage`, `TotalOfParts`). The assumptions used are those of
Kubernetes' names: namespaced names are pairs, a replica set lies in the
namespace of the Deployment that owns it, and a Deployment owns no pods
directly. The instances of TLC satisfy them.

Left to TLC: the six liveness properties (`SpoolDrains`, `EveryExperimentEnds`,
`EveryExperimentIsBuilt`, `MinutesAreStored`, `KeepsReporting`, `Converges`), since
fairness and ENABLED are out of the prover's reach. Every other property of a
passing run is a theorem.

## 6. Abstractions

- A snapshot is its second. The clock is monotone and shared by both ends, so
  the check of snapshots from the future is left out, and two files never have
  the same name.
- Answers 401 and 415 are configuration errors and are not modelled; the agent
  treats them like a 503.
- Option parsing, formatting, the contents of rows and the messages of errors
  are left out.
- Traffic is healthy or not, freely chosen where the runner looks.
- The prechecks of `run_experiment` (before the row exists) only decide whether
  a run starts.
- Rows of features and rollups are counted or present; their figures are left
  out.
- No rollup job is so slow that the raw rows it is about to read have reached
  the end of their retention (`Tick` of `Retention`): it would take a week.
- Values are parsed as they are printed; a row of a kubectl listing is taken as
  a whole. One limit and one usage stand for those of CPU and memory that are
  treated alike. Percentages are numerators and denominators.
- kubectl exec gets its program running in the pod within `ExecMargin` (the 20 s
  that the runner adds to its time-out) or not at all.
- The processes of a container are its presence in the sample.
- One agent; the server side would serve several independently, sharing Live.

Hazards that a property covers in part only say so in `PROJECT.json`. Three are
worth knowing. A batch that fails for ever holds back the spool (`SpoolDrains`
assumes finitely many faults). As many experiments that always fail as one
execution takes starve the later ones (`EveryExperimentIsBuilt` assumes fewer). A
step back of iowait, which the kernel documents, spoils the CPU utilization of one
cycle (excluded by the premise of `UtilizationIsTrue`). In each the code lets it
happen and no document promises otherwise, so there is neither a property nor a
finding.

## 7. Plan

Done, in this order: the delivery of snapshots, the experiments, feature builds,
retention, the counters of the host, containers and Kubernetes metadata,
resources. What would come next:

1. `TrafficGate`: the traffic thread and the phases of the runner; composition
   with `FaultExperiments`.
2. `FeatureGrid`: phases, five-second buckets and the grid of a build as
   operators, compared with a reference definition: every sample between a
   resource's first and last sighting has a bucket of its phase.
3. Spans and their partitions, the references between resources and from events
   to resources.
4. `Migrations`: several processes opening one database under the advisory lock.
5. A clock that steps back and a run about unreadable files for `AgentSpool`.
6. Proofs: an abstract specification of the tables of `FeatureBuilds` and a
   refinement, and the figures of `WorkloadMetrics` against a definition that
   does not follow the code.

Not planned: JSON formatting, read-only queries, rendering, the demo
application, load scripts and manifests, which keep no state of their own.
