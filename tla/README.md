# FlowState v2: a TLA+ model of the job and cloud machinery

FlowState simulates traffic corridors and serves the results: a FastAPI
application takes requests, a SQL store keeps one row per unit of work, Redis
and RQ carry jobs to worker processes, and the workers run SUMO replicates, fit
models, fan sweeps out and install new corridors. The numerical content is
tested by the repository's own unit tests. What those tests hardly reach is
what happens *between* the processes: a job delivered twice, a worker that dies
between two writes, a reconciliation pass that acts on what it read a moment
ago, an operator's `rq requeue` behind all of them, a cloud instance that is cut
off in the middle of its exit trap. That is what this directory models, checks
with TLC and proves with TLAPS.

Paths below are relative to the repository; `api/` stands for
`packages/api/api/`.

## 1. Inventory

### Parts, their state and their operations

| Part | State | Operations that change it |
|---|---|---|
| Store (`api/store.py`) | rows of runs, sweeps, reports, calibrations, corridors, scenarios; a row's `status`, `completed_replicates`, a sweep's `grid_json` | inserts, `claim`, `set_*_status`, `set_run_progress`, `fail_active`, `reset_to_queued`, `create_sweep_runs`, `create_corridor` |
| Queue (`api/jobs.py`, `RedisQueue`; Redis and RQ are external) | job under each id, the queue list, the started-job registry | `enqueue` (unique per id), delivery, heartbeats, failure, result TTL, `rq requeue` |
| Workers (`api/worker.py`) | the horse's program counter | work-horse start, horse-death handler, start-up and periodic reconciliation |
| Jobs (`api/jobs.py`, `api/onboarding_jobs.py`, `api/calibration_jobs.py`) | what each has done so far | `run_scenario_job`, `sweep_job`, `report_job`, `corridor_onboarding_job`, the calibrations |
| Reconciliation (`reconcile_store`) | a snapshot of live executions, a list of rows, one verdict at a time | enqueue again, fail, reset to queued |
| HTTP handlers (`api/main.py`) | uploads, body counter | insert then enqueue; checks over shared files |
| Replicate pool and run directory (`packages/microsim/microsim/runner.py`) | pool processes, artifacts of a replicate, the completion marker `meta.json` | `_map_replicates`, `run_micro` |
| Results and reports (`api/results.py`, `report_job`) | metric caches, staged hard links | `cached_run_metrics`, `_stage_runs` |
| Shared corridor files | extract, split patch, preset, found by corridor name | `_install_atomic`, the clean-up of a failed onboarding |
| Simulation, controllers, macroscopic tier, calibration, validation, criteria | vehicles, densities, data frames | numerical; see "Not modelled" |
| Cloud pipeline (`scripts/gcp`) | the instance, the archives on its disk, in the bucket and on the laptop | launcher, stages and exit trap, idle guard, run-time limit, watcher |
| Dashboard, embed, batch scripts | browser state, files | polling, batch runs |

### How they meet

A handler inserts a row (`queued`) and then enqueues a job under the row's id.
A worker takes the job, the job *claims* the row by compare-and-set
(`queued`/`failed` -> `running`), works, and writes `done` or `failed`
unconditionally. Three parties repair rows whose job cannot report: the
horse-death handler, RQ's own registry clean-up, and `reconcile_store`, which
any worker and the API run at any time, several at once. Sweeps add a level:
the sweep's job inserts child rows and enqueues their jobs. Corridor
onboardings share three files and a name. A run's directory is written by its
executions, read and filled with metric caches by worker and API, and linked
into the staging tree of reports.

A cloud launch is five programs that do not wait for one another: the launcher
and then the watcher on a laptop, the pipeline and the idle guard on the
instance, and Compute Engine's clock. They meet in the instance's state and in
three copies of one archive.

### What is hard

* Delivery is at least once; a claim is the only arbiter (`jobs.py:440`).
* A reconciliation pass reads Redis, then the store, then Redis again for each
  row, and acts on the sum (`jobs.py:1379-1453`).
* Death is possible between any two writes, and RQ learns of it later than the
  operator or not at all.
* `set_run_status` is unconditional, `fail_active` conditional, and both can be
  late.
* A sweep's fan-out is resumed from a grid read before the claim.
* Corridor files are checked three times and installed by renames that
  overwrite; a clean-up unlinks by path.
* A replicate is rewritten in place; a cache and a staged link may outlive the
  files they were made from.
* The exit trap archives, uploads, falls back and deletes its own machine, under
  a SIGTERM that may arrive at any of these; a stopped instance has no clock.

`PROJECT.json` lists each hazard at its line with the properties that would
catch it.

### What makes each part correct

* Rows: one execution at a time; an outcome replaced only by its own job; `done`
  complete and final; every submitted row settles.
* Sweeps: one run row per cell through any number of attempts; no cell run
  twice; `done` only when everything is dispatched.
* Corridors: one onboarding per name; a corridor that says `done` is the one on
  disk; a failure frees the name and touches nobody else's file.
* Replicate pool: always returns; a returned batch is complete; nothing outlives
  the call; the budget fits every batch without a stuck replicate.
* Run directory: the marker is present only if the files belong together; a done
  run is readable and stays so; an answer covers every replicate.
* Reports: a report that is done has read all of its run.
* Cloud pipeline: the instance ends deleted; the bucket's archive is never
  replaced by a lesser one; what the trap says of the bucket is true; the watcher
  ends with the results.

## 2. Modules

| Module | Models |
|---|---|
| `RowContract` | abstract: what a client may rely on about a row |
| `RowContract_proofs` | what follows from it for a client |
| `NameRegistry` | abstract: what `POST /corridors` promises about one name |
| `JobLifecycle` | rows, RQ, workers, reconciliation; refines `RowContract` |
| `JobLifecycle_proofs` | its theorems |
| `SweepFanout` | `sweep_job`, its attempts and its child runs; rows refine `RowContract` |
| `SweepFanout_proofs` | its theorems |
| `CorridorOnboarding` | requests for one name, `corridor_onboarding_job`, the shared files; refines `NameRegistry`, rows refine `RowContract` |
| `CorridorOnboarding_proofs` | its theorems |
| `ReplicatePool` | one batch of replicates: parent, futures, pool processes, completion markers, time |
| `ReplicatePool_proofs` | its theorems |
| `RunArtifacts` | the directory of one run: replicates, markers, metric caches, the report that stages them; rows refine `RowContract` |
| `RunArtifacts_proofs` | its theorems |
| `CloudPipeline` | one launch on a cloud instance |
| `CloudPipeline_proofs` | its theorems |
| `MCJobLifecycle`, `MCSweepFanout`, `MCCorridorOnboarding`, `MCReplicatePool`, `MCRunArtifacts`, `MCCloudPipeline` | instances for TLC: symmetry sets, bounds |

Operators named in a comment "Mutant of ..." are wrong variants of the operator
that follows. No specification uses them; they are there to show that a
property notices the bug they stand for.

### JobLifecycle

`row`, `progress` and `young` are the store's columns; `inFlight` the requests
between their insert and their enqueue; `job`, `waiting`, `registry`, `expired`
are Redis; `worker` the slots; `pass` the reconciliation passes. One action is
one access to the store or to Redis:

| Code | Actions |
|---|---|
| `POST /scenarios/{id}/runs` (`main.py:514`) | `Submit`, then `FirstEnqueue` or `EnqueueLost` |
| `RedisQueue.enqueue` (`jobs.py:162`) | `Enqueue` |
| RQ delivery | `Dequeue`, `Start`, `Finish`, `ResultExpires`, `HeartbeatExpires` |
| `run_scenario_job` (`jobs.py:408-472`) | `Claim` / `ClaimRefused`, `Replicate`, `Succeed`, `Fail` |
| `mark_row_failed_on_horse_death` (`worker.py:47`) | the action of that name, `HorseDeathIgnored`, `RecordHorseDeath` |
| `reconcile_store` (`jobs.py:1318-1455`) | `Begin`, `List`, `Examine` (its table is `Verdict`), `Recheck`, `ReconcileEnqueue` / `ReconcileFail` / `ReconcileReset`, `End`, `PassAborted` |
| operator | `Requeue`, `Cancel` |
| faults | `HorseKilled`, `WorkerLost`, `Stall`, `RedisLoss` |

A pass's reads are separate actions, so every interleaving of a stale snapshot
with a claim, a requeue or another pass is explored.

### RowContract

What a client of the API sees of a row, in six actions: `Create` (one row, or the
child rows of a sweep in the one transaction of `create_sweep_runs`), `Take`,
`Report`, `Vanish` (the execution dies without a word), `GiveUp` and `PutBack`
(the horse-death handler and reconciliation). Every kind of row is claimed,
reported and repaired by the same functions of the store, and each component's
rows are shown to implement it, with the mapping

| Component | `row` | `busy` |
|---|---|---|
| `JobLifecycle` | `row` | rows a slot is `working` on |
| `SweepFanout`, child runs | `run` | runs whose job is `started` |
| `SweepFanout`, the sweep | `sweep` | executions between claim and last write |
| `CorridorOnboarding` | `row` | the same |
| `RunArtifacts` | the run's status and the report's | executions between claim and outcome, a report at work |

`RowContractKept` is the property of the runs (of `JobLifecycle` and
`SweepFanout`), `ImplementsRowContract` the theorem in each `_proofs` module; the
mapping of the last two components stands there.

### SweepFanout

`exec` holds what an execution of `sweep_job` has read (its own copy of the
grid) and where it is: `Read`, `Claim`, `CreateRuns` (the one transaction of
`create_sweep_runs`), `Look` (reads a child row), `Dispatch` (enqueues it),
`Complete`, `Raise`. Executions die between any two of them, or are declared
dead while they go on. Child runs are claimed, report, lose their job and have
it enqueued again by reconciliation. The sweep's own row meets reconciliation as
a run's does: `ReconcileFail` when its job has ended without it, `ReconcileReset`
when its job waits again.

### CorridorOnboarding

`file` is whose bytes are at the three shared paths; `row` and `rq` are the
requests for one name; `exec[e].installed` is the list `installed` of the job.
The two statements "rename" and "append to `installed`" are two actions, and so
are the look at the paths in the handler, the insert under the name lock, and
the second look in the job.

`NameRegistry` says what a name's requesters are promised: one onboarding holds
the name, it installs its corridor or gives the name up, and an installed corridor
is never replaced. `Holding` maps to the rows in `ACTIVE` (what the lock of
`create_corridor` looks up), `Done` to the corridors reported done. That a second
one never becomes done is nowhere a test in the code: it follows from the lock and
from two looks at the files taken long before the write.

### ReplicatePool

What happens inside `run_replicates` while a run's job works. `fut` and `proc`
are the futures and the processes of the spawn pool, `marker` the replicate
directories with a `meta.json`, `ready` and `batch` what `as_completed` has yet
to pick up and to hand over. A process takes the next replicate and drops its
directory's marker (`Take`), writes the marker (`WriteMarker`), hands the result
over (`Deliver`), or raises, gets stuck or dies. The parent picks up results,
calls the completion guard, and leaves the loop by `Complete` or by an
exception; then it joins its processes or kills them one by one (`Kill`), while
the others go on. Time passes in ticks only when nothing that takes none is
due; `as_completed` looks at its deadline only between two lots of results.

`Deliver`, `GetStuck`, `Die`, `PoolBreaks` and `Terminate` stand for the
executor: a dead process breaks every open future and has the others
terminated.

### RunArtifacts

One run, micro or macro. The row and the RQ job around it are those of
`JobLifecycle` in short; what is added is what the executions leave on disk. An
execution's `child[e][s]` goes through the statements of `run_micro` (`Clear`
drops the marker, `Open` truncates the data file, `Close`, `Mark` swaps the
marker in) or of `run_macro` (`Open`, `Close`, `OpenMarker`, `Mark`: in place,
and no marker is dropped first). A data file is absent, whole, or torn by the
execution that truncated it last: both write the same bytes at one offset.

`caller` is whoever is in `precompute_run_metrics` (an execution) or in the
metrics route (a request): it lists the marked directories once, takes them in
order, and serves each from its cache (`Hit`), or reduces it (`Reduce`) and
writes the cache: `OpenTemp`, `Fill`, `Swap`, `Unlink`. Files are modelled by
who created them, since `os.replace` moves the file and not the name; the temp
name carries the process id, so the requests of one API process share it.

The report claims its row, checks the run's status, removes its staging tree,
links what is there, scans the tree and reads it.

### CloudPipeline

| Code | Actions |
|---|---|
| `stage`, `make_archive`, `upload_archive` (`pipeline_i24.sh:97-197, 267-282`) | `StageEnds`; `PackAll`, `TarFails`, `PackFallback`, `PackFallbackUnlisted`, `FallbackFails`; `CopyLands`, `CopyFails`; `NextStage` |
| `finish` (`pipeline_i24.sh:209-263`) | `StagesEnd`, `AfterLight`, `AfterFull`, `UploadAgain`, `AfterAgain`, `SelfDeletes`, `SelfDeleteFails`, `TrapPowersOff` |
| the `TERM` traps (`:213, :265`) | `Sigterm`, inside every `GoDown` |
| `idle_guard.sh` | `GuardDeletes`, `GuardDeleteFails`, `GuardPowersOff` |
| `--max-run-duration`, `shutdown -h` | `CapDeletes`, `PowersOff`, `GoesDown` |
| launcher and setup | `UnitStarts`, `SetupFails`, `Launched`, `LaunchFails` |
| `watch_pipeline.sh` | `FetchVm`, `SeesExit`, `FetchedFinal`, `FetchGivesUp`, `SeesGone`, `SeesStopped`, `Restarts`, `RestartFails`, `Refetch`, `Deletes` and its kin |
| faults | `TarFails`, `CopyFails`, `StoppedFromOutside`, `LaptopLost`, the failing fetches, deletes and listings |

An archive is what the scripts can tell of one: how many stages it holds,
whether it carries the exit marker, whether it is whole or a fallback, and
whether it is this launch's. `disk`, `bucket` and `laptop` hold one under each
of the two names. A copy tried several times is one copy; a limit may fire
whenever the instance runs, so the order of the clocks is left open.

## 3. Runs

| Run | Instance | Shows |
|---|---|---|
| `lifecycle_safety` | 1 row, 2 workers, 2 passes, 2 replicates; 2 kills, 1 requeue | type correctness, exclusive execution, complete `done`, live rows left alone, reported jobs, refinement of `RowContract` (with which `done` is final) |
| `lifecycle_outages` | 1 row, 2 workers, 1 pass, 1 replicate; 1 kill, 1 requeue, 1 outage; fair | an outcome is the job's own; every row settles |
| `sweep` | 2 cells, 3 ids, 2 executions; the faults of `SweepFair.cfg`; fair | no cell runs twice; rows and grid pair up; `done` means dispatched; child rows and the sweep's row refine `RowContract`; sweep and child runs settle |
| `corridor` | 2 requests, 2 executions; 1 requeue, 2 faults out of death, stall, timeout and store error; fair | refinement of `NameRegistry`, installed corridors, clean-up, free names; names settle |
| `pool_ends` | 3 replicates, 2 processes, budget of 2 ticks each; 1 death, 2 stuck replicates, 1 tick in a guard; markers of an earlier attempt in any combination; fair | the call always ends; a returned batch is complete; processes gone and markers still afterwards; the budget is enough |
| `artifacts_safety` | 2 replicates, 2 executions, 2 requests of one API process, 1 report; the faults of `ArtifactsSafety.cfg`; both tiers, a fresh run and one without caches | markers vouch, done runs are readable and stay, answers and reports are complete, who may tear a cache file |
| `cloud` | 2 stages; one fault of every kind, tar twice; with and without self-delete, bucket, a foreign archive in the bucket; fair | never powered off, true claims, the bucket only gains, the watcher has the results, the instance is deleted |
| `requeue_swallowed` | `JobLifecycle` | finding 1 below |
| `sweep_not_resumable` | `SweepFanout` | finding 2 |
| `corridor_foreign_file` | `CorridorOnboarding` | finding 3 |
| `cache_shared_temp` | `RunArtifacts` | finding 4 |
| `cloud_stages_lost` | `CloudPipeline`, failing copies only | finding 5 |

**Bounds.** Every hazard here involves one row and at most two parties that
disagree about it, plus a third that repairs: two slots and two passes on one
row give every pair of stale readers, and rows do not interact (no action
touches two rows, except `Begin` and `RedisLoss`, which treat each alike).
A death, a requeue and a second death is the longest chain the recovery code
distinguishes. In `sweep` two cells are enough for a fan-out to stop half way;
with three ids two executions can create a row for one cell twice, and the
fourth, for both cells twice, is left to the theorems. Two corridor requests let
one fail and one overlap with it or follow it. Three replicates on two processes
make a last wave that is not full, where a budget rounded down would fall short.
In `artifacts_safety` two replicates are the least for a run that is partly
there; two executions and two requests give every pair of writers and every pair
of threads. In `cloud` two stages are the least for an archive older than
another, and tar may fail twice so that the whole list and its fallback both do.
The theorems below remove the bounds for safety.

**Deadlock** is not checked: a system whose requests are all settled, or whose
bounds are spent, rests.

**Symmetry** is used where no liveness property is checked: in
`lifecycle_safety`, `artifacts_safety` and the runs that show a finding.

**Fairness** is weak fairness of what goes on by itself: a worker process takes
jobs and runs, its handler and RQ's heartbeat clock go on, time passes for a
young row, and passes recur (`worker.py:95-109` runs one every interval). No
fault, requeue, cancellation or new request is ever owed. In `pool_ends` the
parent, each process, the executor's reaction to a death and the clock go on; a
stuck replicate is never owed its end. In `cloud` the pipeline, the setup and
the idle guard go on while their machine runs, the launcher and the watcher
while their laptop is there, and Compute Engine's clocks (the run-time limit, a
scheduled power-off, the stop window) fire; the faults are bounded by `Most`,
and none is owed.

**Outages.** A Redis loss and a stalled execution share the bound
`MaxOutages`. With both in one behaviour TLC finds a cycle that no clock
allows: an orphaned live execution and a fresh one overwrite one another for as
long as passes recur faster than a replicate runs. With either alone every row
settles. `ResultExpires` and `RunResultExpires` assume that RQ's result TTL
(500 s) outlasts an enqueue in flight, or the moment between an execution's
look at a child row and its enqueue.

**Properties that speak of history.** `LiveRowLeftAlone` and
`FinishedJobsReported` hold until an operator requeues a job; `OneRunPerCell`,
`CellsKeepTheirRuns`, `DoneMeansDispatched` and the sweep's own row in
`RowContractKept` until a live execution is declared dead; the corridor
properties, `RegistryKept` among them, until a requeue or a stall (and
`FailureFreesTheName` until a timeout falls between a rename and its record).
`MarkerVouches`, `DoneIsReadable`, `DoneArtifactsStay`, `AnswersAreComplete` and
`ReportCoversRun` hold until a live execution is declared dead (`Unstalled`):
from then on two executions may write one directory. `SelfDeletedNeverStopped`
holds until someone outside stops the instance, `BucketOnlyGains` while the
bucket can be listed, `WatcherEndsWithResults` while the fetches work.
The condition is a history variable, so that every fault is in the same run and
what is claimed before the first one is claimed beside all the others. What
happens afterwards is in section 5.

## 4. Proofs

Checked by `tlapm` with no assumption beyond those named in the modules
(`None` is not a row, the bounds are naturals, the grid is finite, no API process
has the process id of a worker). The inductive invariants are defined at the head
of each `_proofs` module, beside the argument they serve.

* `RowContract_proofs`: `DoneStays` and `DoneIsFirstHand`, what the contract gives
  its clients: a row that says done says so for good, and only an execution at
  work on it ever says it. The components import them through their refinement.

* `JobLifecycle_proofs`: `TypeCorrect`; `OutcomesBelongToJobs` (whatever faults
  occur); and, under `Reliable` (`MaxOutages = 0`, no heartbeat of a live
  execution missed and Redis keeps its data), `DeliveryKept`,
  `OneExecutionPerRow`, `DoneRunsAreComplete`, `FinishedJobsHaveReported`,
  `LiveRowsAreLeftAlone`, `ImplementsRowContract` and, by way of it, `DoneStays`.
  Exclusive execution is not inductive: the claim
  lets a second slot in once the row is `failed`. `DeliveryInv` adds why no
  second slot is ever given the row: who serves a job is registered with a
  current heartbeat, a registered row's job is neither waiting nor in a status
  from which it can be enqueued or requeued, and a row is registered once.
  `FirstDeliveryInv` is about the time before the first requeue: a job is
  enqueued once, finds its row claimable and stays registered from its start to
  its outcome, so that a pass that has decided against a row has seen its job
  end, and its verdict cannot go stale.
* `SweepFanout_proofs`: `TypeCorrect`; `NoRunStartsTwice`, with any number of
  fan-outs alive together, from `Once` (an execution about to enqueue a row has
  seen it wait, or finds its job there; a job waits only for a row that waits);
  `GridNamesItsRows` and `CellsAreResumed` from `FanoutInv`, which adds that
  one execution works at a time on the grid the row holds.
  `DoneSweepsAreDispatched` counts: by `Delivered`, what the execution at work
  has passed by was not waiting without a job, or has lost its job since.
  `ImplementsRowContract`: the child rows implement `RowContract` whatever is given
  up (from `Once`), the sweep's own row until then (from `FanoutInv`);
  `DoneCellsStay` is what the former gives.
* `CorridorOnboarding_proofs`: `TypeCorrect`; `NameIsLocked`,
  `DoneStaysInstalled`, `CleanUpIsOwn` and `FailuresFreeNames` from `CorridorInv`: `OneAtWork` (an
  execution holds its job and its row, and the row of a waiting job waits) and
  `FilesAtStage` (what is at the paths at each stage, and that what is recorded
  is the job's own or gone) and `NothingLeft` (an execution that is not killed
  has recorded what it put at the paths, or is about to). `NameIsRegistered` shows
  the refinement of `NameRegistry` step by step: a request acquires the name, the
  last write installs (by `FilesAtStage` nobody else is installed then), every way
  to `failed` gives the name up, and all other steps stutter; `CorridorIsForGood`
  follows. `ImplementsRowContract` is about the rows and holds beyond a requeue,
  for it needs neither lock nor files: `RowsInv` says that an execution has its job
  to itself and its row running.

* `ReplicatePool_proofs`: `TypeCorrect`; `BatchesAreComplete` and
  `NothingOutlives` from `EndInv` (a batch that goes on has no exception, one
  without an exception has all its results, and an ended one only dead
  processes). `BudgetIsEnough` is a scheduling argument, `BudgetInv`: as long as a
  replicate waits, no process has been idle, so that the replicates started can be
  dealt to the processes with every process busy since the start on what it was
  dealt (`EvenDeal`); by the pigeonhole principle the last replicate is then
  started while a whole time limit of the budget of `Waves` is left, and what runs
  afterwards keeps within it (`LastWave`). It holds while the batch is unhindered:
  no replicate stuck, no guard that takes time or raises a `TimeoutError`.

* `RunArtifacts_proofs`: `TypeCorrect`; `MarkersVouch`, `DoneRunsAreReadable`,
  `DoneRunsStay` and `ReportsCoverRuns` from `DirectoryInv` (until a live
  execution is declared dead, one execution writes the directory and its files
  are as far as its replicates are, and a report has every replicate staged or
  still to stage); `ImplementsRowContract`, from the
  same invariant, for the rows of the run and of the report;
  `AnswersCoverRuns` from `AnswerInv` (a request at work is one
  of a done run, and keeps its temp file unless a thread of its process takes
  it); and, whatever the faults, `ProcessesKeepApart` from `TempInv` (a cache
  file's writer opened it under a name only its own process uses).

* `CloudPipeline_proofs`: `TypeCorrect`, for any number of stages and any bounds
  on the faults; `SelfDeleteIsKept` from `NeverPoweredOff` (no power-off is ever
  scheduled on a self-delete instance, so that only an outside stop can stop it);
  `ClaimsHold` from `Vouched`: `ClaimIsTrue` is not inductive, for what the trap
  notes is what an earlier copy left. `Claims` says that in the trap every
  archive packed, kept or copied carries the marker, and that what was noted as
  uploaded lies in the bucket. `ResultsComeHome` adds `Results`: a watcher done
  with fetching has the complete archive, unless a fetch failed or the trap was
  cut off or claims nothing. `TheBucketGains` rests on `Gains`: while the bucket
  can be listed, what is copied, or kept to be copied again, holds every stage
  done and the exit marker if there is one, and lacks the run trees only where
  the bucket has none to lose.

`DeliveryInv`, `FirstDeliveryInv`, `FanoutInv`, `CorridorInv`, `RowsInv`,
`EndInv`, `BudgetInv`, `DirectoryInv`, `TempInv`, `AnswerInv`, `NeverPoweredOff`,
`Vouched`, `Results` and `Gains` are the inductive strengthenings; each was checked
by TLC before it was proved.

Every safety property of a passing run is stated by a theorem. Only
model-checked is what TLAPS does not reach: everything under fairness
(`EveryRowSettles`, `SweepSettles`, `RunsSettle`, `NameSettles`, `AlwaysEnds`,
`AlwaysDeleted`), ENABLED, and induction over data, which no theorem here needs.

## 5. Findings and known limits

Five disagreements between the code and its own documentation have a run:

1. **Requeue swallowed** (`jobs.py:440`). A requeue between RQ's failing of a
   lost worker's job and the next reconciliation is delivered to a row that
   still says `running`; the claim is refused, the job finishes, and the row is
   left to a later pass, which fails it.
2. **A failed sweep cannot be requeued** (`jobs.py:544`). The `except` clause
   records the failure and returns, so RQ holds the job as finished.
3. **A clean-up removes another job's file** (`onboarding_jobs.py:244`). A
   requeued onboarding does not take the name again and can overlap with a newer
   one.
4. **Two requests share a temp file** (`results.py:342`). Its name carries the
   process id, and the API answers in threads: the second request truncates the
   file the first one swaps in, so that `metrics.json` is incomplete for a
   moment, and the second one's own swap finds no file. Requests of different
   processes, and the worker's, stay apart (`TornOnlyBetweenThreads`).
5. **A completed stage is lost on the laptop** (`watch_pipeline.sh:124`). The
   watcher puts the bucket's archive in the place of what it fetched over SSH,
   however old: after a failed copy to the bucket and an instance that is gone,
   the laptop holds fewer stages than before.

Behaviours found while modelling, kept as conditions of the properties above:
a late verdict of reconciliation fails the row of an execution started by a
requeue (`jobs.py:1452`; the execution's own outcome replaces it); two fan-outs
of one sweep, one of them declared dead while alive, each create a row for the
same cell (`jobs.py:494`); a job timeout between a rename and its record leaves
the name taken (`onboarding_jobs.py:309`); a failing last write leaves the
scenario of a removed corridor (`onboarding_jobs.py:389`). In the pool, a
completion guard that is slow spends the replicates' budget, so that finished
seeds are named as stuck; one that raises a `TimeoutError` is reported as an
exhausted budget, although the docstring has its exceptions propagate unchanged
(`runner.py:8751`); and the normal way out, `shutdown(wait=True)`, waits without
a bound for processes that have handed over their last result. Without a
listing of the bucket, a fallback archive may replace a complete one
(`pipeline_i24.sh`, the failure that `BucketOnlyGains` leaves out). The hazards of
`PROJECT.json` without a property each have a note that says why.

## 6. Not modelled

* In `JobLifecycle`: the inline queue, the fallback index for jobs under a
  random id, deferred and scheduled jobs. `exists`, `fetch` and `get_status` of
  one job are one step. Rows are of one kind.
* In `SweepFanout`: deaths and requeues of the child runs (those are
  `JobLifecycle`'s). In `CorridorOnboarding`: the inline variant, and what the
  stages compute. In `ReplicatePool`: the death of the parent itself (its
  children are then orphans; see `JobLifecycle` for the row).
* In `RunArtifacts`: what the files and the reports say, the run directories of
  other runs, the writes of a report's own files. A data file is one file.
* In `CloudPipeline`: what the stages compute, `--no-shutdown`, the watcher's own
  deadline, an instance whose id is unknown, several launches at once, the tests
  on the archives' names.
* The schema upgrade of the store: what concurrent `ALTER TABLE` statements meet
  is SQLite's locking. The body counter: one task per request, in an order that
  is the framework's.
* Simulation, controllers, macroscopic tier, calibration, validation statistics,
  data quality, network geometry and report texts: numerical or textual, over
  real numbers and data frames, without the interleavings TLC is for. They are
  by far the most lines (`runner.py`, `transfer_check.py`, `data_quality.py`,
  `report.py`, `uncertainty.py`, `layout_audit.py`), so that a map of the
  machinery around them covers a small share of the repository. Dashboard, embed
  and the batch scripts keep no state that another part relies on.

## 7. Plan

In this order:

1. Calibration jobs as a second kind of row in `JobLifecycle`.
2. Pure decision tables and controllers with small integer data: JAD phases, VSL
   hysteresis, the criteria verdicts.
