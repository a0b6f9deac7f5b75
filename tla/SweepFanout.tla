----------------------------- MODULE SweepFanout -----------------------------
(***************************************************************************)
(* The fan-out of one sweep into child runs: sweep_job of                  *)
(* packages/api/api/jobs.py, split where it reads the store or the queue,  *)
(* with the executions that die or are declared dead under it and the      *)
(* workers that already run the cells it has dispatched.                   *)
(*                                                                         *)
(* How the sweep's own row and job reach an execution is JobLifecycle's    *)
(* subject; here a job is delivered, dies, and is requeued.                *)
(***************************************************************************)
EXTENDS Naturals, FiniteSets

CONSTANTS
    Cells,        \* positions of the grid, dispatched in increasing order
    RunIds,       \* ids new_id("run") can return: a bound on rows created
    Execs,        \* executions of sweep_job
    None,         \* a cell without a run id; no cell
    MaxDeaths,    \* bound on executions that die
    MaxRequeues,  \* bound on `rq requeue` of the sweep's job
    MaxStalls,    \* bound on live executions declared dead
    MaxLosses     \* bound on lost jobs of child runs

ASSUME CellsAssumption == Cells \subseteq Nat /\ IsFiniteSet(Cells)
ASSUME NoneAssumption == None \notin Cells \cup RunIds
ASSUME BoundsAssumption ==
    {MaxDeaths, MaxRequeues, MaxStalls, MaxLosses} \subseteq Nat

VARIABLES
    sweep,     \* status of the sweep row
    grid,      \* run id of each cell in the sweep row's grid
    run,       \* status of each child run row ("absent": no such row)
    ran,       \* how often each run was claimed (history)
    runJob,    \* status of the child run's RQ job
    sweepJob,  \* status of the sweep's RQ job
    exec,      \* executions of sweep_job
    used       \* how much of each bound has been spent

children == <<run, ran, runJob>>
vars == <<sweep, grid, children, sweepJob, exec, used>>

ACTIVE    == {"queued", "running"}
SETTLED   == {"done", "failed"}
CLAIMABLE == {"queued", "failed"}

Nothing == [c \in Cells |-> None]
Idle == [pc |-> "idle", grid |-> Nothing, todo |-> {}, at |-> None, dead |-> FALSE]

Working == {"read", "claimed", "dispatch", "queueing"}
Spend(what) == used' = [used EXCEPT ![what] = @ + 1]
fail_active == sweep' = IF sweep \in ACTIVE THEN "failed" ELSE sweep

\* Mutant of Return: the sweep row's "done" is recorded as the job's status.
ReturnDone(e) ==
    /\ exec' = [exec EXCEPT ![e] = Idle]
    /\ sweepJob' = "done"

\* RQ records an execution's return unless it has given the execution up.
Return(e) ==
    /\ exec' = [exec EXCEPT ![e] = Idle]
    /\ sweepJob' = IF exec[e].dead THEN sweepJob ELSE "finished"

-----------------------------------------------------------------------------
(* sweep_job.                                                               *)

\* store.get_sweep, before the claim: the grid worked on is the one read here.
Read(e) ==
    /\ exec[e].pc = "idle" /\ sweepJob = "queued"
    /\ sweepJob' = "started"
    /\ exec' = [exec EXCEPT ![e] = [Idle EXCEPT !.pc = "read", !.grid = grid]]
    /\ UNCHANGED <<sweep, grid, children, used>>

Claim(e) ==
    /\ exec[e].pc = "read" /\ sweep \in CLAIMABLE
    /\ sweep' = "running"
    /\ exec' = [exec EXCEPT ![e].pc = "claimed"]
    /\ UNCHANGED <<grid, children, sweepJob, used>>

ClaimRefused(e) ==
    /\ exec[e].pc = "read" /\ sweep \notin CLAIMABLE
    /\ Return(e)
    /\ UNCHANGED <<sweep, grid, children, used>>

\* Cells of the grid read that name no existing run row.
Missing(e) == {c \in Cells : exec[e].grid[c] = None \/ run[exec[e].grid[c]] = "absent"}

\* Fresh ids for the cells that have none, one each.
FreshIds(e) ==
    LET new == {c \in Cells : exec[e].grid[c] = None}
        free == {r \in RunIds : run[r] = "absent" /\ \A c \in Cells : exec[e].grid[c] # r}
    IN  {g \in [Cells -> RunIds] :
           /\ \A c \in Cells \ new : g[c] = exec[e].grid[c]
           /\ \A c \in new : g[c] \in free
           /\ \A c, d \in new : g[c] = g[d] => c = d}

\* The execution goes on to dispatch every cell of the grid g.
WorkOn(e, g) ==
    [pc |-> "dispatch", grid |-> g, todo |-> Cells, at |-> None, dead |-> exec[e].dead]

\* Mutant of CreateRuns: the rows are inserted, the grid is left for later.
CreateRunsOnly(e) ==
    /\ exec[e].pc = "claimed"
    /\ \E g \in FreshIds(e) :
         /\ exec' = [exec EXCEPT ![e] = WorkOn(e, g)]
         /\ run' = [r \in RunIds |->
                      IF \E c \in Missing(e) : g[c] = r THEN "queued" ELSE run[r]]
    /\ UNCHANGED <<sweep, grid, ran, runJob, sweepJob, used>>

\* Mutant of CreateRuns: a cell whose run failed is given another one.
CreateRunsRetrying(e) ==
    LET old == exec[e].grid
        again == {c \in Cells : old[c] = None \/ run[old[c]] = "failed"}
        free == {r \in RunIds : run[r] = "absent"}
    IN  /\ exec[e].pc = "claimed"
        /\ \E g \in [Cells -> RunIds] :
             /\ \A c \in Cells \ again : g[c] = old[c]
             /\ \A c \in again : g[c] \in free
             /\ \A c, d \in again : g[c] = g[d] => c = d
             /\ exec' = [exec EXCEPT ![e] = WorkOn(e, g)]
             /\ grid' = g
             /\ run' = [r \in RunIds |->
                          IF \E c \in again : g[c] = r THEN "queued" ELSE run[r]]
        /\ UNCHANGED <<sweep, ran, runJob, sweepJob, used>>

\* Mutant of CreateRuns: the rows of all cells are written, existing ones too.
CreateRunsReplacing(e) ==
    /\ exec[e].pc = "claimed"
    /\ \E g \in FreshIds(e) :
         /\ exec' = [exec EXCEPT ![e] = WorkOn(e, g)]
         /\ grid' = g
         /\ run' = [r \in RunIds |-> IF \E c \in Cells : g[c] = r THEN "queued" ELSE run[r]]
    /\ UNCHANGED <<sweep, ran, runJob, sweepJob, used>>

\* create_sweep_runs: the missing child rows and the grid naming them, in one
\* transaction; skipped when no row is missing.
CreateRuns(e) ==
    /\ exec[e].pc = "claimed"
    /\ \E g \in FreshIds(e) :
         /\ exec' = [exec EXCEPT ![e] = WorkOn(e, g)]
         /\ IF Missing(e) = {}
              THEN UNCHANGED <<grid, run>>
              ELSE /\ grid' = g
                   /\ run' = [r \in RunIds |->
                                IF \E c \in Missing(e) : g[c] = r THEN "queued" ELSE run[r]]
    /\ UNCHANGED <<sweep, ran, runJob, sweepJob, used>>

\* The execution with cell c taken from its loop.
Turn(e, c) == [exec[e] EXCEPT !.todo = @ \ {c}]

\* Mutant of Look: every cell is enqueued, whatever its row says.
LookAway(e) ==
    /\ exec[e].pc = "dispatch"
    /\ \E c \in exec[e].todo :
         /\ \A d \in exec[e].todo : c <= d
         /\ exec' = [exec EXCEPT ![e].todo = @ \ {c}, ![e].pc = "queueing", ![e].at = c]
    /\ UNCHANGED <<sweep, grid, children, sweepJob, used>>

\* The loop reads the run row of the next cell; only a row still queued is
\* enqueued.
Look(e) ==
    /\ exec[e].pc = "dispatch"
    /\ \E c \in exec[e].todo :
         /\ \A d \in exec[e].todo : c <= d
         /\ exec' = IF run[exec[e].grid[c]] = "queued"
                      THEN [exec EXCEPT ![e] = [Turn(e, c) EXCEPT !.pc = "queueing", !.at = c]]
                      ELSE [exec EXCEPT ![e] = Turn(e, c)]
    /\ UNCHANGED <<sweep, grid, children, sweepJob, used>>

\* RedisQueue.enqueue under the run's id: nothing while its job exists.
EnqueueRun(r) == runJob' = [runJob EXCEPT ![r] = IF @ = "missing" THEN "queued" ELSE @]

Dispatch(e) ==
    /\ exec[e].pc = "queueing"
    /\ EnqueueRun(exec[e].grid[exec[e].at])
    /\ exec' = [exec EXCEPT ![e] = [@ EXCEPT !.pc = "dispatch", !.at = None]]
    /\ UNCHANGED <<sweep, grid, run, ran, sweepJob, used>>

\* Mutant of Complete: done is written with cells still to dispatch.
CompleteEarly(e) ==
    /\ exec[e].pc = "dispatch"
    /\ sweep' = "done"
    /\ Return(e)
    /\ UNCHANGED <<grid, children, used>>

Complete(e) ==
    /\ exec[e].pc = "dispatch" /\ exec[e].todo = {}
    /\ sweep' = "done"
    /\ Return(e)
    /\ UNCHANGED <<grid, children, used>>

\* The except clause: Redis refuses an enqueue, or the store fails.
Raise(e) ==
    /\ exec[e].pc \in {"claimed", "dispatch", "queueing"}
    /\ sweep' = "failed"
    /\ Return(e)
    /\ UNCHANGED <<grid, children, used>>

-----------------------------------------------------------------------------
(* What befalls an execution, and the repairs.                              *)

\* The work horse dies between any two statements.
Die(e) ==
    /\ exec[e].pc \in Working /\ used.deaths < MaxDeaths
    /\ exec' = [exec EXCEPT ![e] = Idle]
    /\ Spend("deaths")
    /\ UNCHANGED <<sweep, grid, children, sweepJob>>

\* Horse-death handler or reconciliation: no execution lives, the job is failed.
Reap ==
    /\ sweepJob = "started"
    /\ \A e \in Execs : exec[e].pc = "idle" \/ exec[e].dead
    /\ sweepJob' = "failed"
    /\ fail_active
    /\ UNCHANGED <<grid, children, exec, used>>

\* Mutant of ReconcileFail: a running row is left to the horse-death handler.
ReconcileFailQueued ==
    /\ sweepJob \in {"finished", "failed"} /\ sweep = "queued"
    /\ fail_active
    /\ UNCHANGED <<grid, children, sweepJob, exec, used>>

\* reconcile_store: an active row whose job has ended without an outcome is
\* failed, a running row whose job waits again is put back in the queue.
ReconcileFail ==
    /\ sweepJob \in {"finished", "failed"} /\ sweep \in ACTIVE
    /\ fail_active
    /\ UNCHANGED <<grid, children, sweepJob, exec, used>>

ReconcileReset ==
    /\ sweepJob = "queued" /\ sweep = "running"
    /\ sweep' = "queued"
    /\ UNCHANGED <<grid, children, sweepJob, exec, used>>

\* A live execution misses its heartbeats and is declared dead.
Stall(e) ==
    /\ exec[e].pc \in Working /\ ~exec[e].dead /\ used.stalls < MaxStalls
    /\ exec' = [exec EXCEPT ![e].dead = TRUE]
    /\ sweepJob' = "failed"
    /\ fail_active
    /\ Spend("stalls")
    /\ UNCHANGED <<grid, children>>

Requeue ==
    /\ sweepJob = "failed" /\ used.requeues < MaxRequeues
    /\ sweepJob' = "queued"
    /\ Spend("requeues")
    /\ UNCHANGED <<sweep, grid, children, exec>>

-----------------------------------------------------------------------------
(* The child runs, as JobLifecycle has them.                                *)

RunClaims(r) ==
    /\ runJob[r] = "queued" /\ run[r] \in CLAIMABLE
    /\ run' = [run EXCEPT ![r] = "running"]
    /\ ran' = [ran EXCEPT ![r] = @ + 1]
    /\ runJob' = [runJob EXCEPT ![r] = "started"]
    /\ UNCHANGED <<sweep, grid, sweepJob, exec, used>>

RunReports(r) ==
    /\ runJob[r] = "started"
    /\ \E outcome \in SETTLED : run' = [run EXCEPT ![r] = outcome]
    /\ runJob' = [runJob EXCEPT ![r] = "finished"]
    /\ UNCHANGED <<sweep, grid, ran, sweepJob, exec, used>>

\* Redis loses the job of a run nobody has started.
RunJobLost(r) ==
    /\ runJob[r] = "queued" /\ used.losses < MaxLosses
    /\ runJob' = [runJob EXCEPT ![r] = "missing"]
    /\ Spend("losses")
    /\ UNCHANGED <<sweep, grid, run, ran, sweepJob, exec>>

\* The key of a finished job expires (result_ttl, 500 s: longer than the moment
\* between an execution's look at a row and its enqueue).
RunResultExpires(r) ==
    /\ runJob[r] = "finished"
    /\ \A e \in Execs : exec[e].pc = "queueing" => exec[e].grid[exec[e].at] # r
    /\ runJob' = [runJob EXCEPT ![r] = "missing"]
    /\ UNCHANGED <<sweep, grid, run, ran, sweepJob, exec, used>>

\* Mutant of ReconcileRun: only rows never enqueued before are looked at.
ReconcileFresh(r) ==
    /\ run[r] = "queued" /\ runJob[r] = "missing" /\ used.losses = 0
    /\ EnqueueRun(r)
    /\ UNCHANGED <<sweep, grid, run, ran, sweepJob, exec, used>>

\* reconcile_store: a queued row without a job is enqueued again.
ReconcileRun(r) ==
    /\ run[r] = "queued" /\ runJob[r] = "missing"
    /\ EnqueueRun(r)
    /\ UNCHANGED <<sweep, grid, run, ran, sweepJob, exec, used>>

-----------------------------------------------------------------------------
Init ==
    /\ sweep = "queued" /\ sweepJob = "queued"
    /\ grid = Nothing
    /\ run = [r \in RunIds |-> "absent"]
    /\ ran = [r \in RunIds |-> 0]
    /\ runJob = [r \in RunIds |-> "missing"]
    /\ exec = [e \in Execs |-> Idle]
    /\ used = [deaths |-> 0, requeues |-> 0, stalls |-> 0, losses |-> 0]

ExecStep(e) ==
    \/ Read(e) \/ Claim(e) \/ ClaimRefused(e) \/ CreateRuns(e)
    \/ Look(e) \/ Dispatch(e) \/ Complete(e) \/ Raise(e)

RunStep(r) == RunClaims(r) \/ RunReports(r) \/ ReconcileRun(r)

Next ==
    \/ \E e \in Execs : ExecStep(e) \/ Die(e) \/ Stall(e)
    \/ Reap \/ Requeue \/ ReconcileFail \/ ReconcileReset
    \/ \E r \in RunIds : RunStep(r) \/ RunJobLost(r) \/ RunResultExpires(r)

Spec == Init /\ [][Next]_vars

Fairness ==
    /\ \A e \in Execs : WF_vars(ExecStep(e))
    /\ \A r \in RunIds : WF_vars(RunStep(r))
    /\ WF_vars(Reap \/ ReconcileFail \/ ReconcileReset)

FairSpec == Spec /\ Fairness

-----------------------------------------------------------------------------
(* Properties.                                                              *)

ExecState == [pc : {"idle"} \cup Working, grid : [Cells -> RunIds \cup {None}],
              todo : SUBSET Cells, at : Cells \cup {None}, dead : BOOLEAN]

\* Every variable keeps to its domain.
TypeOK ==
    /\ sweep \in ACTIVE \cup SETTLED
    /\ grid \in [Cells -> RunIds \cup {None}]
    /\ run \in [RunIds -> ACTIVE \cup SETTLED \cup {"absent"}]
    /\ ran \in [RunIds -> Nat]
    /\ runJob \in [RunIds -> {"missing", "queued", "started", "finished"}]
    /\ sweepJob \in {"queued", "started", "finished", "failed"}
    /\ exec \in [Execs -> ExecState]
    /\ used \in [deaths : 0..MaxDeaths, requeues : 0..MaxRequeues,
                 stalls : 0..MaxStalls, losses : 0..MaxLosses]

\* No live execution has been given up yet.
Unstalled == used.stalls = 0

\* Child rows and the grid name each other, one to one.
Paired ==
    /\ \A c \in Cells : grid[c] # None => run[grid[c]] # "absent"
    /\ \A c, d \in Cells : grid[c] = grid[d] /\ grid[c] # None => c = d
    /\ \A r \in RunIds : run[r] # "absent" => \E c \in Cells : grid[c] = r

\* An attempt that died and the ones that resumed it leave no row the grid does
\* not know, no cell without its row and no row with two cells
\* (create_sweep_runs' promise), unless a live execution was given up: then two
\* can fill the grid at once, each from the grid it read.
OneRunPerCell == Unstalled => Paired

\* A cell keeps the run it was given, whoever resumes the fan-out, under the
\* same condition.
KeepRuns == \A c \in Cells : grid[c] # None => grid'[c] = grid[c]
CellsKeepTheirRuns == [][Unstalled => KeepRuns]_vars

\* No cell is run twice: a resumed fan-out dispatches only what never ran.
NoCellRunsTwice == \A r \in RunIds : ran[r] <= 1

\* Waiting runs nothing will deliver until reconciliation comes by.
Orphans == {r \in RunIds : run[r] = "queued" /\ runJob[r] = "missing"}

\* done means the fan-out is complete: each cell has its run, and a run that
\* still waits had its job put in the queue (only jobs since lost are gone).
DoneMeansDispatched ==
    sweep = "done" /\ Unstalled =>
        /\ \A c \in Cells : grid[c] # None
        /\ Cardinality(Orphans) <= used.losses

\* To the clients of the API a sweep and its child runs are rows like any other:
\* the child rows implement RowContract, created together and worked on by the
\* jobs dispatched for them, and so does every step of the sweep's own row until
\* a live execution is given up.
Children == INSTANCE RowContract
    WITH Rows <- RunIds, row <- run, busy <- {r \in RunIds : runJob[r] = "started"}

sweepRow == [s \in {"sweep"} |-> sweep]
sweepBusy ==
    {s \in {"sweep"} : \E e \in Execs : exec[e].pc \in {"claimed", "dispatch", "queueing"}}
Sweep == INSTANCE RowContract WITH Rows <- {"sweep"}, row <- sweepRow, busy <- sweepBusy

RowContractKept ==
    Children!Spec /\ [][Unstalled' => [Sweep!Next]_<<sweepRow, sweepBusy>>]_vars

\* A sweep whose fan-out ended in an error can be resumed with `rq requeue`.
FailedSweepCanBeRequeued ==
    sweep = "failed" /\ (\A e \in Execs : exec[e].pc = "idle") => sweepJob # "finished"

\* The fan-out settles, and every run it created settles too, through deaths,
\* Redis errors and lost jobs.
SweepSettles == <>[](sweep \in SETTLED)
RunsSettle == \A r \in RunIds : run[r] = "queued" ~> [](run[r] \in SETTLED)

=============================================================================
