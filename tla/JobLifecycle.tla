---------------------------- MODULE JobLifecycle ----------------------------
(***************************************************************************)
(* The life of a store row between the API that inserts it, the RQ queue   *)
(* that carries its job, the workers that execute the job and the          *)
(* reconciliation passes that repair rows whose job cannot report          *)
(* (packages/api/api: store.py, jobs.py, worker.py, main.py).              *)
(*                                                                         *)
(* Rows are of one kind (runs): the kinds differ in the work a job does,   *)
(* never in the lifecycle calls.  RQ and Redis are outside the repository  *)
(* and are modelled by what the code relies on: a unique enqueue per id, a *)
(* started-job registry whose entries expire, the job statuses, the result *)
(* TTL, `rq requeue` of failed jobs.                                       *)
(***************************************************************************)
EXTENDS Naturals, FiniteSets

CONSTANTS
    Rows,            \* store rows (a row's id is also its RQ job id)
    Workers,         \* worker slots; a slot runs one job at a time
    Passes,          \* processes that may run reconcile_store
    Replicates,      \* length of a run's seed list
    None,            \* "no row"
    MaxKills,        \* bound on killed work horses and lost workers
    MaxRequeues,     \* bound on the operator's `rq requeue`
    MaxOutages       \* bound on Redis restarts that lose the queue and on live
                     \* executions whose heartbeat expires, taken together

ASSUME ReplicatesAssumption == Replicates \in Nat
ASSUME NoneAssumption == None \notin Rows
ASSUME BoundsAssumption ==
    {MaxKills, MaxRequeues, MaxOutages} \subseteq Nat

VARIABLES
    row,       \* status column of each row ("absent": not inserted yet)
    progress,  \* completed_replicates column
    young,     \* rows inserted less than QUEUED_GRACE_S ago
    inFlight,  \* rows inserted by a request that has not enqueued them yet
    job,       \* status of the RQ job under the row's id
    waiting,   \* ids in the RQ queue list
    worker,    \* what each worker slot is doing
    registry,  \* workers whose execution is in the StartedJobRegistry
    expired,   \* of those, the ones whose heartbeat TTL has run out
    pass,      \* reconciliation passes
    used       \* how much of each bound has been spent

store == <<row, progress, young>>
redis == <<job, waiting, registry, expired>>
vars  == <<store, inFlight, redis, worker, pass, used>>

-----------------------------------------------------------------------------
(* The store: statuses and the compare-and-set updates.                     *)

\* Mutant: a claim may also take over a done row.
ClaimableDone == {"queued", "failed", "done"}
CLAIMABLE == {"queued", "failed"}
ACTIVE    == {"queued", "running"}
SETTLED   == {"done", "failed"}
STATUSES  == ACTIVE \cup SETTLED

\* Mutant: the guard on ACTIVE is dropped.
fail_any(r) == row' = [row EXCEPT ![r] = "failed"]

\* Store.fail_active: queued/running -> failed, anything else is left as it is.
fail_active(r) ==
    row' = [row EXCEPT ![r] = IF @ \in ACTIVE THEN "failed" ELSE @]

\* Store.reset_to_queued: running -> queued, anything else is left as it is.
reset_to_queued(r) ==
    row' = [row EXCEPT ![r] = IF @ = "running" THEN "queued" ELSE @]

\* Store.set_run_status: unconditional.
set_run_status(r, s) == row' = [row EXCEPT ![r] = s]

-----------------------------------------------------------------------------
(* RQ: jobs, queue list, executions.                                        *)

JOB == {"missing", "queued", "started", "finished", "failed", "canceled"}

\* Mutant: the enqueue is not unique.
EnqueueAgain(r) ==
    /\ job' = [job EXCEPT ![r] = "queued"]
    /\ waiting' = waiting \cup {r}

\* RedisQueue.enqueue: refused, and the refusal swallowed, while a job with
\* this id exists.
Enqueue(r) ==
    IF job[r] = "missing"
      THEN /\ job' = [job EXCEPT ![r] = "queued"]
           /\ waiting' = waiting \cup {r}
      ELSE UNCHANGED <<job, waiting>>

Idle == [pc |-> "idle", row |-> None, n |-> 0]

\* RQ writes the status of a job only while the job's key exists.
SetJob(r, s) == job' = [job EXCEPT ![r] = IF @ = "missing" THEN @ ELSE s]

Spend(what) == used' = [used EXCEPT ![what] = @ + 1]

\* Executions entered in the registry, by row.
Registered(r) == \E w \in registry : worker[w].row = r

Executing == {"started", "working", "returned"}

-----------------------------------------------------------------------------
(* The API: insert the row, then enqueue its job.                           *)

Submit(r) ==
    /\ row[r] = "absent"
    /\ row' = [row EXCEPT ![r] = "queued"]
    /\ progress' = [progress EXCEPT ![r] = 0]
    /\ young' = young \cup {r}
    /\ inFlight' = inFlight \cup {r}
    /\ UNCHANGED <<redis, worker, pass, used>>

FirstEnqueue(r) ==
    /\ r \in inFlight
    /\ inFlight' = inFlight \ {r}
    /\ Enqueue(r)
    /\ UNCHANGED <<store, registry, expired, worker, pass, used>>

\* The request dies, or Redis refuses, between the insert and the enqueue.
EnqueueLost(r) ==
    /\ r \in inFlight
    /\ inFlight' = inFlight \ {r}
    /\ UNCHANGED <<store, redis, worker, pass, used>>

\* QUEUED_GRACE_S passes; the first enqueue may still be in flight.
Age(r) ==
    /\ r \in young
    /\ young' = young \ {r}
    /\ UNCHANGED <<row, progress, inFlight, redis, worker, pass, used>>

-----------------------------------------------------------------------------
(* Workers: RQ's delivery around run_scenario_job.                          *)

\* A worker pops the id and registers an execution; the job is still "queued".
Dequeue(w, r) ==
    /\ worker[w].pc = "idle" /\ r \in waiting /\ job[r] # "missing"
    /\ waiting' = waiting \ {r}
    /\ worker' = [worker EXCEPT ![w] = [pc |-> "taken", row |-> r, n |-> 0]]
    /\ registry' = registry \cup {w}
    /\ UNCHANGED <<store, inFlight, job, expired, pass, used>>

\* The work horse starts: RQ sets STARTED after the execution is registered.
Start(w) ==
    /\ worker[w].pc = "taken"
    /\ SetJob(worker[w].row, "started")
    /\ worker' = [worker EXCEPT ![w].pc = "started"]
    /\ UNCHANGED <<store, inFlight, waiting, registry, expired, pass, used>>

\* run_scenario_job claims the row; the claim resets the progress column.
Claim(w) ==
    LET r == worker[w].row IN
    /\ worker[w].pc = "started" /\ row[r] \in CLAIMABLE
    /\ row' = [row EXCEPT ![r] = "running"]
    /\ progress' = [progress EXCEPT ![r] = 0]
    /\ worker' = [worker EXCEPT ![w].pc = "working"]
    /\ UNCHANGED <<young, inFlight, redis, pass, used>>

\* The claim fails: a duplicate delivery returns without working.
ClaimRefused(w) ==
    /\ worker[w].pc = "started" /\ row[worker[w].row] \notin CLAIMABLE
    /\ worker' = [worker EXCEPT ![w].pc = "returned"]
    /\ UNCHANGED <<store, inFlight, redis, pass, used>>

\* Mutant: one replicate too many.
ReplicateOffByOne(w) ==
    LET n == worker[w].n + 1 IN
    /\ worker[w].pc = "working" /\ worker[w].n <= Replicates
    /\ worker' = [worker EXCEPT ![w].n = n]
    /\ progress' = [progress EXCEPT ![worker[w].row] = n]
    /\ UNCHANGED <<row, young, inFlight, redis, pass, used>>

\* A macro run counts its replicates one by one, a micro run all at its end.
Replicate(w) ==
    /\ worker[w].pc = "working" /\ worker[w].n < Replicates
    /\ \E n \in 1..Replicates :
         /\ n = worker[w].n + 1 \/ (worker[w].n = 0 /\ n = Replicates)
         /\ worker' = [worker EXCEPT ![w].n = n]
         /\ progress' = [progress EXCEPT ![worker[w].row] = n]
    /\ UNCHANGED <<row, young, inFlight, redis, pass, used>>

\* Mutant: done before the last replicate.
SucceedEarly(w) ==
    /\ worker[w].pc = "working"
    /\ set_run_status(worker[w].row, "done")
    /\ worker' = [worker EXCEPT ![w].pc = "returned"]
    /\ UNCHANGED <<progress, young, inFlight, redis, pass, used>>

Succeed(w) ==
    /\ worker[w].pc = "working" /\ worker[w].n = Replicates
    /\ set_run_status(worker[w].row, "done")
    /\ worker' = [worker EXCEPT ![w].pc = "returned"]
    /\ UNCHANGED <<progress, young, inFlight, redis, pass, used>>

\* Mutant: the exception is logged and not recorded.
FailSilently(w) ==
    /\ worker[w].pc = "working"
    /\ worker' = [worker EXCEPT ![w].pc = "returned"]
    /\ UNCHANGED <<store, inFlight, redis, pass, used>>

\* The except clause: any exception of the work, RQ's job timeout included.
Fail(w) ==
    /\ worker[w].pc = "working"
    /\ set_run_status(worker[w].row, "failed")
    /\ worker' = [worker EXCEPT ![w].pc = "returned"]
    /\ UNCHANGED <<progress, young, inFlight, redis, pass, used>>

\* The function returned: RQ marks the job finished and ends the execution.
Finish(w) ==
    /\ worker[w].pc = "returned"
    /\ SetJob(worker[w].row, "finished")
    /\ worker' = [worker EXCEPT ![w] = Idle]
    /\ registry' = registry \ {w} /\ expired' = expired \ {w}
    /\ UNCHANGED <<store, inFlight, waiting, pass, used>>

-----------------------------------------------------------------------------
(* Faults and what the surviving parts do about them.                       *)

HorseKilled(w) ==
    /\ worker[w].pc \in Executing /\ used.kills < MaxKills
    /\ worker' = [worker EXCEPT ![w].pc = "killed"]
    /\ Spend("kills")
    /\ UNCHANGED <<store, inFlight, redis, pass>>

\* mark_row_failed_on_horse_death: called while RQ still holds the job as
\* unfinished, before RQ marks it failed.
mark_row_failed_on_horse_death(w) ==
    /\ worker[w].pc = "killed" /\ job[worker[w].row] \in {"queued", "started"}
    /\ fail_active(worker[w].row)
    /\ worker' = [worker EXCEPT ![w].pc = "handled"]
    /\ UNCHANGED <<progress, young, inFlight, redis, pass, used>>

\* RQ no longer holds the job as unfinished: the worker only moves on.
HorseDeathIgnored(w) ==
    /\ worker[w].pc = "killed" /\ job[worker[w].row] \notin {"queued", "started"}
    /\ worker' = [worker EXCEPT ![w].pc = "lost"]
    /\ UNCHANGED <<store, inFlight, redis, pass, used>>

RecordHorseDeath(w) ==
    /\ worker[w].pc = "handled"
    /\ SetJob(worker[w].row, "failed")
    /\ worker' = [worker EXCEPT ![w] = Idle]
    /\ registry' = registry \ {w} /\ expired' = expired \ {w}
    /\ UNCHANGED <<store, inFlight, waiting, pass, used>>

\* The whole worker is gone (redeploy, OOM of the worker container).
WorkerLost(w) ==
    /\ worker[w].pc \notin {"idle", "lost"} /\ used.kills < MaxKills
    /\ worker' = [worker EXCEPT ![w].pc = "lost"]
    /\ Spend("kills")
    /\ UNCHANGED <<store, inFlight, redis, pass>>

\* The heartbeat of a lost worker runs out.
HeartbeatExpires(w) ==
    /\ worker[w].pc = "lost" /\ w \in registry \ expired
    /\ expired' = expired \cup {w}
    /\ UNCHANGED <<store, inFlight, job, waiting, registry, worker, pass, used>>

\* The slot is used again once nothing of the lost execution is left.
WorkerRestart(w) ==
    /\ worker[w].pc = "lost" /\ w \notin registry
    /\ worker' = [worker EXCEPT ![w] = Idle]
    /\ UNCHANGED <<store, inFlight, redis, pass, used>>

\* A live execution misses its heartbeats (suspended or starved worker, the
\* horse outliving its worker).
Stall(w) ==
    /\ worker[w].pc \in Executing \cup {"taken"} /\ w \in registry \ expired
    /\ used.outages < MaxOutages
    /\ expired' = expired \cup {w}
    /\ Spend("outages")
    /\ UNCHANGED <<store, inFlight, job, waiting, registry, worker, pass>>

\* Redis restarts without its data; executions under way go on.
RedisLoss ==
    /\ used.outages < MaxOutages
    /\ job' = [r \in Rows |-> "missing"]
    /\ waiting' = {} /\ registry' = {} /\ expired' = {}
    /\ Spend("outages")
    /\ UNCHANGED <<store, inFlight, worker, pass>>

\* The operator requeues a job of the FailedJobRegistry.
Requeue(r) ==
    /\ job[r] = "failed" /\ used.requeues < MaxRequeues
    /\ job' = [job EXCEPT ![r] = "queued"]
    /\ waiting' = waiting \cup {r}
    /\ Spend("requeues")
    /\ UNCHANGED <<store, inFlight, registry, expired, worker, pass>>

\* The operator cancels a waiting job.
Cancel(r) ==
    /\ job[r] = "queued" /\ r \in waiting
    /\ job' = [job EXCEPT ![r] = "canceled"]
    /\ waiting' = waiting \ {r}
    /\ UNCHANGED <<store, inFlight, registry, expired, worker, pass, used>>

\* A finished job's key vanishes after RQ's result TTL (500 s).  That outlasts
\* an enqueue in flight and a pass that has listed the row (about 0.1 s).
ResultExpires(r) ==
    /\ job[r] = "finished"
    /\ r \notin inFlight
    /\ \A p \in Passes : pass[p].seen[r] = "-" /\ pass[p].row # r
    /\ job' = [job EXCEPT ![r] = "missing"]
    /\ UNCHANGED <<store, inFlight, waiting, registry, expired, worker, pass, used>>

-----------------------------------------------------------------------------
(* reconcile_store, split where it reads Redis or the store.                *)

NothingSeen == [r \in Rows |-> "-"]

Resting == [pc |-> "idle", live |-> {}, old |-> {}, seen |-> NothingSeen,
            row |-> None, act |-> "-"]

\* registry.cleanup() fails the jobs of expired executions; then the
\* snapshots of the registry and of the clock are taken.
Begin(p) ==
    LET dead == {worker[w].row : w \in expired} IN
    /\ pass[p].pc = "idle"
    /\ registry' = registry \ expired
    /\ expired' = {}
    /\ job' = [r \in Rows |->
                 IF r \in dead /\ job[r] # "missing" THEN "failed" ELSE job[r]]
    /\ pass' = [pass EXCEPT ![p] =
                  [pc |-> "list", live |-> {worker[w].row : w \in registry \ expired},
                   old |-> Rows \ young, seen |-> NothingSeen, row |-> None, act |-> "-"]]
    /\ UNCHANGED <<store, inFlight, waiting, worker, used>>

\* store.list_by_status(kind, ("queued", "running"))
List(p) ==
    /\ pass[p].pc = "list"
    /\ pass' = [pass EXCEPT ![p].pc = "scan",
                            ![p].seen = [r \in Rows |->
                               IF row[r] \in ACTIVE THEN row[r] ELSE "-"]]
    /\ UNCHANGED <<store, inFlight, redis, worker, used>>

\* Mutant: rows whose job is missing are left alone.
VerdictPatient(p, r) ==
    LET seen == pass[p].seen[r] IN
    CASE job[r] = "missing" -> "-"
      [] job[r] \in {"failed", "canceled", "finished"} -> "fail"
      [] job[r] = "started" -> IF r \in pass[p].live THEN "-" ELSE "recheck"
      [] job[r] = "queued" -> IF seen = "running" THEN "reset" ELSE "-"

\* The table of reconcile_store's docstring, as its branches decide it, from
\* the listed status of the row and the job's status read now.
Verdict(p, r) ==
    LET seen == pass[p].seen[r] IN
    CASE job[r] = "missing" /\ seen = "queued" ->
             IF r \in pass[p].old THEN "enqueue" ELSE "-"
      [] job[r] = "missing" /\ seen = "running" -> "fail"
      [] job[r] \in {"failed", "canceled", "finished"} -> "fail"
      [] job[r] = "started" -> IF r \in pass[p].live THEN "-" ELSE "recheck"
      [] job[r] = "queued" -> IF seen = "running" THEN "reset" ELSE "-"

Examine(p, r) ==
    /\ pass[p].pc = "scan" /\ pass[p].act = "-" /\ pass[p].seen[r] # "-"
    /\ LET v == Verdict(p, r) IN
       pass' = [pass EXCEPT ![p].seen[r] = "-",
                            ![p].act = v,
                            ![p].row = IF v = "-" THEN None ELSE r]
    /\ UNCHANGED <<store, inFlight, redis, worker, used>>

\* Mutant: the snapshot taken before the row loop is trusted.
RecheckSkipped(p) ==
    /\ pass[p].act = "recheck"
    /\ pass' = [pass EXCEPT ![p].act = "fail"]
    /\ UNCHANGED <<store, inFlight, redis, worker, used>>

\* The fresh read of the registry before a started job is declared dead.
Recheck(p) ==
    LET live == Registered(pass[p].row) IN
    /\ pass[p].act = "recheck"
    /\ pass' = [pass EXCEPT ![p].act = IF live THEN "-" ELSE "fail",
                            ![p].row = IF live THEN None ELSE @]
    /\ UNCHANGED <<store, inFlight, redis, worker, used>>

Acted(p) == pass' = [pass EXCEPT ![p].act = "-", ![p].row = None]

ReconcileEnqueue(p) ==
    /\ pass[p].act = "enqueue"
    /\ Enqueue(pass[p].row)
    /\ Acted(p)
    /\ UNCHANGED <<store, inFlight, registry, expired, worker, used>>

ReconcileFail(p) ==
    /\ pass[p].act = "fail"
    /\ fail_active(pass[p].row)
    /\ Acted(p)
    /\ UNCHANGED <<progress, young, inFlight, redis, worker, used>>

ReconcileReset(p) ==
    /\ pass[p].act = "reset"
    /\ reset_to_queued(pass[p].row)
    /\ Acted(p)
    /\ UNCHANGED <<progress, young, inFlight, redis, worker, used>>

End(p) ==
    /\ pass[p].pc = "scan" /\ pass[p].act = "-"
    /\ \A r \in Rows : pass[p].seen[r] = "-"
    /\ pass' = [pass EXCEPT ![p] = Resting]
    /\ UNCHANGED <<store, inFlight, redis, worker, used>>

\* An exception ends the pass half way (_reconcile_logged), or its process dies.
PassAborted(p) ==
    /\ pass[p].pc # "idle" /\ used.kills < MaxKills
    /\ pass' = [pass EXCEPT ![p] = Resting]
    /\ Spend("kills")
    /\ UNCHANGED <<store, inFlight, redis, worker>>

-----------------------------------------------------------------------------
Init ==
    /\ row = [r \in Rows |-> "absent"]
    /\ progress = [r \in Rows |-> 0]
    /\ young = {} /\ inFlight = {}
    /\ job = [r \in Rows |-> "missing"]
    /\ waiting = {} /\ registry = {} /\ expired = {}
    /\ worker = [w \in Workers |-> Idle]
    /\ pass = [p \in Passes |-> Resting]
    /\ used = [kills |-> 0, requeues |-> 0, outages |-> 0]

API(r) == Submit(r) \/ FirstEnqueue(r) \/ EnqueueLost(r) \/ Age(r)

Operator(r) == Requeue(r) \/ Cancel(r) \/ ResultExpires(r)

\* What a running worker does by itself.
WorkerStep(w) ==
    \/ \E r \in Rows : Dequeue(w, r)
    \/ Start(w) \/ Claim(w) \/ ClaimRefused(w)
    \/ Replicate(w) \/ Succeed(w) \/ Fail(w) \/ Finish(w)
    \/ mark_row_failed_on_horse_death(w) \/ HorseDeathIgnored(w)
    \/ RecordHorseDeath(w) \/ HeartbeatExpires(w) \/ WorkerRestart(w)

Fault(w) == HorseKilled(w) \/ WorkerLost(w) \/ Stall(w)

PassStep(p) ==
    \/ Begin(p) \/ List(p) \/ Recheck(p) \/ End(p)
    \/ \E r \in Rows : Examine(p, r)
    \/ ReconcileEnqueue(p) \/ ReconcileFail(p) \/ ReconcileReset(p)

Next ==
    \/ \E r \in Rows : API(r) \/ Operator(r)
    \/ \E w \in Workers : WorkerStep(w) \/ Fault(w)
    \/ \E p \in Passes : PassStep(p) \/ PassAborted(p)
    \/ RedisLoss

Spec == Init /\ [][Next]_vars

\* What happens by itself: time passes, running workers and passes go on.
\* Faults, operators and new requests are never owed.
Fairness ==
    /\ \A r \in Rows : WF_vars(FirstEnqueue(r) \/ EnqueueLost(r)) /\ WF_vars(Age(r))
    /\ \A w \in Workers : WF_vars(WorkerStep(w))
    /\ \A p \in Passes : WF_vars(PassStep(p))

FairSpec == Spec /\ Fairness

-----------------------------------------------------------------------------
(* Properties.                                                              *)

WorkerState == [pc : {"idle", "taken", "started", "working", "returned",
                      "killed", "handled", "lost"},
                row : Rows \cup {None}, n : 0..Replicates]

PassState == [pc : {"idle", "list", "scan"}, live : SUBSET Rows, old : SUBSET Rows,
              seen : [Rows -> ACTIVE \cup {"-"}], row : Rows \cup {None},
              act : {"-", "enqueue", "recheck", "fail", "reset"}]

Usage == [kills : 0..MaxKills, requeues : 0..MaxRequeues, outages : 0..MaxOutages]

\* Every variable keeps to its domain; a slot that is not idle and a pass with a
\* decision pending hold a row (the code calls the store with it).
TypeOK ==
    /\ row \in [Rows -> STATUSES \cup {"absent"}]
    /\ progress \in [Rows -> 0..Replicates]
    /\ young \subseteq Rows /\ inFlight \subseteq Rows
    /\ job \in [Rows -> JOB]
    /\ waiting \subseteq Rows
    /\ worker \in [Workers -> WorkerState]
    /\ \A w \in Workers : worker[w].pc # "idle" => worker[w].row \in Rows
    /\ registry \subseteq Workers /\ expired \subseteq registry
    /\ \A w \in registry : worker[w].pc # "idle"
    /\ pass \in [Passes -> PassState]
    /\ \A p \in Passes : pass[p].act # "-" => pass[p].row \in Rows
    /\ used \in Usage

\* An outcome in the row is only ever replaced by an execution of the row's own
\* job: neither a horse-death handler nor any number of stale reconciliation
\* passes touches a settled row (fail_active, reset_to_queued).
OutcomeIsTheJobs ==
    [][\A r \in Rows : row[r] \in SETTLED /\ row'[r] # row[r] =>
          \E w \in Workers : worker[w].row = r
                            /\ worker[w].pc \in {"started", "working"}]_vars

\* Deliveries, requeues and repairs never put two workers to work on one row
\* (claim's compare-and-set, RQ's unique ids, reconciliation's liveness test).
ExclusiveExecution ==
    \A v, w \in Workers :
        /\ worker[v].pc = "working" /\ worker[w].pc = "working"
        /\ worker[v].row = worker[w].row
        => v = w

\* A row that says done has every replicate counted: no repair or second
\* delivery resets the progress of a finished run.
DoneIsComplete == \A r \in Rows : row[r] = "done" => progress[r] = Replicates

\* An execution whose heartbeat is current and whose function is at work.
Live(r) == \E w \in registry \ expired : worker[w].row = r /\ worker[w].pc = "working"

\* Reconciliation leaves the row of a live execution alone (the last line of
\* reconcile_store's table), as long as no operator requeues a job behind it: a
\* verdict reached before a requeue is carried out whatever has been claimed since.
LiveRowLeftAlone ==
    [][used.requeues = 0 /\ (\E p \in Passes : ReconcileFail(p) \/ ReconcileReset(p)) =>
          \A r \in Rows : Live(r) => row'[r] = row[r]]_vars

\* A job that RQ holds as finished has recorded an outcome on its row.
FinishedRecordsOutcome == \A r \in Rows : job[r] = "finished" => row[r] \in SETTLED

\* ... which holds until an operator requeues a job whose row still says running.
FinishedJobsReported == used.requeues = 0 => FinishedRecordsOutcome

\* Rows with an execution at work.
busy == {worker[w].row : w \in {v \in Workers : worker[v].pc = "working"}}

\* The whole machinery implements the row contract: however deliveries, repairs
\* and crashes interleave, a row moves as RowContract says it does; with that done
\* is final (RowContract_proofs): no claim, repair or late exception replaces it.
Contract == INSTANCE RowContract WITH Rows <- Rows, row <- row, busy <- busy
RowContractKept == Contract!Spec

\* Every submitted row settles for good: lost enqueues, killed horses, lost
\* workers, lost queues and stale passes leave none queued or running forever.
EveryRowSettles ==
    \A r \in Rows : row[r] = "queued" ~> [](row[r] \in SETTLED)

=============================================================================
