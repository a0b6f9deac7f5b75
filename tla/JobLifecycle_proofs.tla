------------------------- MODULE JobLifecycle_proofs -------------------------
(***************************************************************************)
(* Theorems about JobLifecycle, for every set of rows, workers and passes  *)
(* and every bound.                                                        *)
(***************************************************************************)
EXTENDS JobLifecycle, TLAPS

USE ReplicatesAssumption, NoneAssumption, BoundsAssumption

-----------------------------------------------------------------------------
(* The inductive invariants.                                              *)

\* The deployment's usual case: no live execution misses its heartbeats and
\* Redis keeps its data.
Reliable == MaxOutages = 0

\* Why one row has one execution then.  A slot that still serves a job is in the
\* registry, so its job is neither waiting nor in a status from which it could be
\* enqueued or requeued, and no second slot can be given the same row.
Serving == {"taken", "started", "working", "returned", "killed", "handled"}

Delivery ==
    /\ \A w \in Workers : worker[w].pc \in Serving => w \in registry \ expired
    /\ \A w \in registry : /\ job[worker[w].row] \in {"queued", "started"}
                           /\ worker[w].row \notin waiting
    /\ \A v, w \in registry : worker[v].row = worker[w].row => v = w
    /\ \A r \in waiting : job[r] = "queued"

\* The execution at work owns the row's progress; nobody works on a done row.
Ownership ==
    \A w \in Workers :
        /\ worker[w].pc \in {"taken", "started"} => worker[w].n = 0
        /\ worker[w].pc = "working" =>
             row[worker[w].row] # "done" /\ progress[worker[w].row] = worker[w].n

\* Nothing refers to a row before it is inserted.
Insertion ==
    \A r \in Rows : row[r] = "absent" =>
        /\ job[r] = "missing" /\ r \notin inFlight
        /\ \A w \in Workers : worker[w].row # r
        /\ \A p \in Passes : pass[p].seen[r] = "-" /\ pass[p].row # r

DeliveryInv == TypeOK /\ Delivery /\ Insertion /\ Ownership /\ DoneIsComplete

\* Why a live row is left alone and a finished job has reported, until an operator
\* requeues a job: a job enqueued once finds its
\* row claimable, is registered from its start to its outcome, ...
OVER == {"finished", "failed", "canceled"}
Pending(r) == r \in inFlight \/ \E p \in Passes : pass[p].seen[r] # "-" \/ pass[p].row = r

OneDelivery ==
    /\ \A r \in Rows : row[r] = "running" => job[r] \notin {"missing", "queued"}
    /\ \A r \in Rows : job[r] = "missing" /\ Pending(r) => row[r] \in CLAIMABLE
    /\ \A r \in waiting : row[r] \in CLAIMABLE
    /\ \A w \in registry :
         /\ worker[w].pc \in {"taken", "started"} => row[worker[w].row] \in CLAIMABLE
         /\ worker[w].pc = "returned" => row[worker[w].row] \in SETTLED
         /\ worker[w].pc \in Executing => job[worker[w].row] = "started"
    /\ \A r \in Rows : job[r] = "started" => Registered(r)
    /\ FinishedRecordsOutcome

\* ... and a pass that has decided against a row has seen its job end.
SoundVerdicts ==
    \A p \in Passes :
        /\ \A r \in Rows : pass[p].seen[r] = "running" => job[r] \notin {"missing", "queued"}
        /\ pass[p].act = "fail" => job[pass[p].row] \in OVER
        /\ pass[p].act = "recheck" => job[pass[p].row] \in OVER \cup {"started"}
        /\ pass[p].act # "reset"

FirstDeliveryInv == DeliveryInv /\ (used.requeues = 0 => OneDelivery /\ SoundVerdicts)

-----------------------------------------------------------------------------
(* Type correctness.                                                        *)

LEMMA InitType == Init => TypeOK
BY DEF Init, TypeOK, STATUSES, ACTIVE, SETTLED, JOB, Idle, Resting, NothingSeen, WorkerState,
       PassState, Usage

LEMMA APIType ==
    ASSUME TypeOK, NEW r \in Rows, API(r) PROVE TypeOK'
<1> USE DEF TypeOK, STATUSES, ACTIVE, SETTLED, JOB
<1>1. CASE Submit(r)
  BY <1>1 DEF Submit, redis
<1>2. CASE FirstEnqueue(r)
  BY <1>2 DEF FirstEnqueue, Enqueue, store
<1>3. CASE EnqueueLost(r)
  BY <1>3 DEF EnqueueLost, store, redis
<1>4. CASE Age(r)
  BY <1>4 DEF Age, redis
<1> QED BY <1>1, <1>2, <1>3, <1>4 DEF API

LEMMA OperatorType ==
    ASSUME TypeOK, NEW r \in Rows, Operator(r) PROVE TypeOK'
<1> USE DEF TypeOK, JOB, Usage
<1>1. CASE Requeue(r)
  BY <1>1 DEF Requeue, Spend, store
<1>2. CASE Cancel(r)
  BY <1>2 DEF Cancel, store
<1>3. CASE ResultExpires(r)
  BY <1>3 DEF ResultExpires, store
<1> QED BY <1>1, <1>2, <1>3 DEF Operator

LEMMA WorkerType ==
    ASSUME TypeOK, NEW w \in Workers, WorkerStep(w) PROVE TypeOK'
<1> USE DEF TypeOK, WorkerState, STATUSES, ACTIVE, SETTLED, JOB
<1>1. ASSUME NEW r \in Rows, Dequeue(w, r) PROVE TypeOK'
  BY <1>1 DEF Dequeue, store
<1>2. CASE Start(w)
  BY <1>2 DEF Start, SetJob, store
<1>3. CASE Claim(w)
  BY <1>3 DEF Claim, redis
<1>4. CASE ClaimRefused(w)
  BY <1>4 DEF ClaimRefused, store, redis
<1>5. CASE Replicate(w)
  BY <1>5 DEF Replicate, redis
<1>6. CASE Succeed(w)
  BY <1>6 DEF Succeed, set_run_status, redis
<1>7. CASE Fail(w)
  BY <1>7 DEF Fail, set_run_status, redis
<1>8. CASE Finish(w)
  BY <1>8 DEF Finish, SetJob, Idle, store
<1>9. CASE mark_row_failed_on_horse_death(w)
  BY <1>9 DEF mark_row_failed_on_horse_death, fail_active, redis
<1>10. CASE HorseDeathIgnored(w)
  BY <1>10 DEF HorseDeathIgnored, store, redis
<1>11. CASE RecordHorseDeath(w)
  BY <1>11 DEF RecordHorseDeath, SetJob, Idle, store
<1>12. CASE HeartbeatExpires(w)
  BY <1>12 DEF HeartbeatExpires, store
<1>13. CASE WorkerRestart(w)
  BY <1>13 DEF WorkerRestart, Idle, store, redis
<1> QED BY <1>1, <1>2, <1>3, <1>4, <1>5, <1>6, <1>7, <1>8, <1>9, <1>10, <1>11,
           <1>12, <1>13 DEF WorkerStep

LEMMA FaultType ==
    ASSUME TypeOK, NEW w \in Workers, Fault(w) PROVE TypeOK'
<1> USE DEF TypeOK, WorkerState, Usage
<1>1. CASE HorseKilled(w)
  BY <1>1 DEF HorseKilled, Spend, Executing, store, redis
<1>2. CASE WorkerLost(w)
  BY <1>2 DEF WorkerLost, Spend, store, redis
<1>3. CASE Stall(w)
  BY <1>3 DEF Stall, Spend, store
<1> QED BY <1>1, <1>2, <1>3 DEF Fault

\* A pass moves to a well-formed state and the rest keeps its type.
LEMMA PassMoves ==
    ASSUME TypeOK, NEW p \in Passes, NEW q \in PassState,
           q.act # "-" => q.row \in Rows,
           pass' = [pass EXCEPT ![p] = q],
           UNCHANGED <<store, inFlight, redis, worker, used>>
    PROVE  TypeOK'
<1>1. pass' \in [Passes -> PassState]
  BY DEF TypeOK
<1>2. \A o \in Passes : pass'[o].act # "-" => pass'[o].row \in Rows
  BY DEF TypeOK
<1> QED BY <1>1, <1>2 DEF TypeOK, store, redis

LEMMA PassType ==
    ASSUME TypeOK, NEW p \in Passes, PassStep(p) \/ PassAborted(p) PROVE TypeOK'
<1> USE DEF TypeOK, PassState, STATUSES, ACTIVE, SETTLED, JOB
<1>1. CASE Begin(p)
  <2> DEFINE q == [pc |-> "list", live |-> {worker[w].row : w \in registry \ expired},
                   old |-> Rows \ young, seen |-> NothingSeen, row |-> None, act |-> "-"]
  <2>2. pass' = [pass EXCEPT ![p] = q]
    BY <1>1 DEF Begin
  <2>3. q \in PassState /\ q.act = "-"
    BY DEF NothingSeen
  <2>4. /\ pass' \in [Passes -> PassState]
        /\ \A o \in Passes : pass'[o].act # "-" => pass'[o].row \in Rows
    <3> HIDE DEF q, PassState
    <3> QED BY <2>2, <2>3
  <2>5. job' \in [Rows -> JOB]
    BY <1>1 DEF Begin
  <2> QED BY <1>1, <2>4, <2>5 DEF Begin, store
<1>2. CASE List(p)
  <2> DEFINE q == [pass[p] EXCEPT !.pc = "scan",
                     !.seen = [r \in Rows |-> IF row[r] \in ACTIVE THEN row[r] ELSE "-"]]
  <2>1. pass' = [pass EXCEPT ![p] = q] /\ UNCHANGED <<store, inFlight, redis, worker, used>>
    BY <1>2 DEF List
  <2>2. q \in PassState /\ (q.act # "-" => q.row \in Rows)
    <3>1. pass[p] \in PassState /\ (pass[p].act # "-" => pass[p].row \in Rows)
      OBVIOUS
    <3>2. [r \in Rows |-> IF row[r] \in ACTIVE THEN row[r] ELSE "-"] \in [Rows -> ACTIVE \cup {"-"}]
      OBVIOUS
    <3> HIDE DEF TypeOK
    <3> QED BY <3>1, <3>2
  <2> HIDE DEF q, TypeOK, PassState
  <2> QED BY <2>1, <2>2, PassMoves
<1>3. ASSUME NEW r \in Rows, Examine(p, r) PROVE TypeOK'
  <2> DEFINE v == Verdict(p, r)
             q == [pass[p] EXCEPT !.seen[r] = "-", !.act = v,
                                  !.row = IF v = "-" THEN None ELSE r]
  <2>1. v \in {"-", "enqueue", "recheck", "fail", "reset"}
    <3>1. pass[p].seen[r] \in {"queued", "running"} /\ job[r] \in JOB
      BY <1>3 DEF Examine
    <3> QED BY <3>1 DEF Verdict
  <2>2. pass' = [pass EXCEPT ![p] = q] /\ UNCHANGED <<store, inFlight, redis, worker, used>>
    BY <1>3 DEF Examine
  <2>3. q \in PassState /\ (q.act # "-" => q.row \in Rows)
    <3>1. pass[p] \in PassState /\ pass[p].seen \in [Rows -> ACTIVE \cup {"-"}]
      OBVIOUS
    <3>2. [pass[p].seen EXCEPT ![r] = "-"] \in [Rows -> ACTIVE \cup {"-"}]
      BY <3>1
    <3> HIDE DEF v, TypeOK
    <3> QED BY <2>1, <3>1, <3>2
  <2> HIDE DEF q, TypeOK, PassState
  <2> QED BY <2>2, <2>3, PassMoves
<1>4. CASE Recheck(p)
  <2> DEFINE live == Registered(pass[p].row)
             q == [pass[p] EXCEPT !.act = IF live THEN "-" ELSE "fail",
                                  !.row = IF live THEN None ELSE pass[p].row]
  <2>1. pass' = [pass EXCEPT ![p] = q] /\ UNCHANGED <<store, inFlight, redis, worker, used>>
    BY <1>4 DEF Recheck
  <2>2. q \in PassState /\ (q.act # "-" => q.row \in Rows)
    <3>1. pass[p] \in PassState /\ pass[p].row \in Rows
      BY <1>4 DEF Recheck
    <3> HIDE DEF live, TypeOK
    <3> QED BY <3>1
  <2> HIDE DEF q, TypeOK, PassState
  <2> QED BY <2>1, <2>2, PassMoves
<1>5. CASE ReconcileEnqueue(p)
  BY <1>5 DEF ReconcileEnqueue, Enqueue, Acted, store
<1>6. CASE ReconcileFail(p)
  BY <1>6 DEF ReconcileFail, fail_active, Acted, redis
<1>7. CASE ReconcileReset(p)
  BY <1>7 DEF ReconcileReset, reset_to_queued, Acted, redis
<1>0. Resting \in PassState /\ Resting.act = "-"
  BY DEF Resting, NothingSeen
<1>8. CASE End(p)
  <2>1. pass' = [pass EXCEPT ![p] = Resting] /\ UNCHANGED <<store, inFlight, redis, worker, used>>
    BY <1>8 DEF End
  <2> HIDE DEF TypeOK, PassState
  <2> QED BY <1>0, <2>1, PassMoves
<1>9. CASE PassAborted(p)
  <2>1. /\ pass' = [pass EXCEPT ![p] = Resting]
        /\ UNCHANGED <<row, progress, young, inFlight, job, waiting, registry, expired, worker>>
    BY <1>9 DEF PassAborted, store, redis
  <2>2. used' \in Usage
    BY <1>9 DEF PassAborted, Spend, Usage
  <2>3. /\ pass' \in [Passes -> PassState]
        /\ \A o \in Passes : pass'[o].act # "-" => pass'[o].row \in Rows
    <3> HIDE DEF PassState
    <3> QED BY <1>0, <2>1
  <2> QED BY <2>1, <2>2, <2>3
<1> QED BY <1>1, <1>2, <1>3, <1>4, <1>5, <1>6, <1>7, <1>8, <1>9 DEF PassStep

LEMMA RedisLossType == TypeOK /\ RedisLoss => TypeOK'
BY DEF TypeOK, RedisLoss, Spend, Usage, JOB, store

\* Every step of the system keeps TypeOK.
LEMMA NextType == TypeOK /\ [Next]_vars => TypeOK'
<1> SUFFICES ASSUME TypeOK, [Next]_vars PROVE TypeOK'
  OBVIOUS
<1>1. CASE UNCHANGED vars
  BY <1>1 DEF vars, store, redis, TypeOK
<1> QED BY <1>1, APIType, OperatorType, WorkerType, FaultType, PassType, RedisLossType
        DEF Next

\* The variables of the system keep to their domains whatever the bounds.
THEOREM TypeCorrect == Spec => []TypeOK
BY InitType, NextType, PTL DEF Spec

-----------------------------------------------------------------------------
(* Outcomes are the job's own: for every bound.                             *)

LEMMA OnlyJobsReplaceOutcomes ==
    ASSUME TypeOK, [Next]_vars, NEW r \in Rows, row[r] \in SETTLED, row'[r] # row[r]
    PROVE  \E w \in Workers : worker[w].row = r /\ worker[w].pc \in {"started", "working"}
<1> USE DEF TypeOK, SETTLED, ACTIVE
<1>1. CASE UNCHANGED vars
  BY <1>1 DEF vars, store
<1>2. ASSUME NEW x \in Rows, API(x) \/ Operator(x) PROVE FALSE
  BY <1>2 DEF API, Submit, FirstEnqueue, EnqueueLost, Age, Operator, Requeue, Cancel,
             ResultExpires, store
<1>3. ASSUME NEW w \in Workers, WorkerStep(w)
      PROVE  worker[w].row = r /\ worker[w].pc \in {"started", "working"}
  <2>1. CASE Claim(w)
    BY <2>1 DEF Claim
  <2>2. CASE Succeed(w)
    BY <2>2 DEF Succeed, set_run_status
  <2>3. CASE Fail(w)
    BY <2>3 DEF Fail, set_run_status
  <2>4. CASE mark_row_failed_on_horse_death(w)
    BY <2>4 DEF mark_row_failed_on_horse_death, fail_active
  <2> QED
    BY <1>3, <2>1, <2>2, <2>3, <2>4
    DEF WorkerStep, Dequeue, Start, ClaimRefused, Replicate, Finish, HorseDeathIgnored,
        RecordHorseDeath, HeartbeatExpires, WorkerRestart, store
<1>4. ASSUME NEW w \in Workers, Fault(w) PROVE FALSE
  BY <1>4 DEF Fault, HorseKilled, WorkerLost, Stall, store
<1>5. ASSUME NEW p \in Passes, PassStep(p) \/ PassAborted(p) PROVE FALSE
  BY <1>5 DEF PassStep, PassAborted, Begin, List, Examine, Recheck, ReconcileEnqueue,
             ReconcileFail, ReconcileReset, End, fail_active, reset_to_queued, store
<1>6. ASSUME RedisLoss PROVE FALSE
  BY <1>6 DEF RedisLoss, store
<1> QED BY <1>1, <1>2, <1>3, <1>4, <1>5, <1>6 DEF Next

\* Whatever is killed, lost, stalled or requeued, only an execution of the row's
\* own job ever replaces a recorded outcome.
THEOREM OutcomesBelongToJobs == Spec => OutcomeIsTheJobs
<1>1. TypeOK /\ [Next]_vars =>
        [\A r \in Rows : row[r] \in SETTLED /\ row'[r] # row[r] =>
            \E w \in Workers : worker[w].row = r
                              /\ worker[w].pc \in {"started", "working"}]_vars
  BY OnlyJobsReplaceOutcomes
<1> QED BY <1>1, TypeCorrect, PTL DEF Spec, OutcomeIsTheJobs

-----------------------------------------------------------------------------
(* The reliable deployment: one execution per row, done is final.           *)

Kept == Delivery' /\ Insertion' /\ Ownership' /\ DoneIsComplete'

LEMMA InitDelivery == Init => DeliveryInv
<1> SUFFICES ASSUME Init PROVE Delivery /\ Insertion /\ Ownership /\ DoneIsComplete
  BY InitType DEF DeliveryInv
<1> QED BY DEF Init, Idle, Resting, NothingSeen, Delivery, Serving, Insertion, Ownership,
               DoneIsComplete

LEMMA APIDelivery ==
    ASSUME DeliveryInv, NEW r \in Rows, API(r) \/ Operator(r) PROVE Kept
<1> USE DEF DeliveryInv, TypeOK, Delivery, Serving, Insertion, Ownership, DoneIsComplete,
            JOB, Kept
<1>1. CASE Submit(r)
  BY <1>1 DEF Submit, redis
<1>2. CASE FirstEnqueue(r)
  BY <1>2 DEF FirstEnqueue, Enqueue, store
<1>3. CASE EnqueueLost(r) \/ Age(r)
  BY <1>3 DEF EnqueueLost, Age, store, redis
<1>4. CASE Requeue(r)
  BY <1>4 DEF Requeue, store
<1>5. CASE Cancel(r)
  BY <1>5 DEF Cancel, store
<1>6. CASE ResultExpires(r)
  BY <1>6 DEF ResultExpires, store
<1> QED BY <1>1, <1>2, <1>3, <1>4, <1>5, <1>6 DEF API, Operator

LEMMA WorkerDelivery ==
    ASSUME DeliveryInv, NEW w \in Workers, WorkerStep(w) PROVE Kept
<1> USE DEF DeliveryInv, TypeOK, WorkerState, Delivery, Serving, Insertion, Ownership,
            DoneIsComplete, JOB, Kept
<1>1. ASSUME NEW r \in Rows, Dequeue(w, r) PROVE Kept
  BY <1>1 DEF Dequeue, store
<1>2. CASE Start(w)
  BY <1>2 DEF Start, SetJob, store
<1>3. CASE Claim(w)
  BY <1>3 DEF Claim, CLAIMABLE, redis
<1>4. CASE ClaimRefused(w)
  BY <1>4 DEF ClaimRefused, store, redis
<1>5. CASE Replicate(w)
  BY <1>5 DEF Replicate, redis
<1>6. CASE Succeed(w)
  BY <1>6 DEF Succeed, set_run_status, redis
<1>7. CASE Fail(w)
  BY <1>7 DEF Fail, set_run_status, redis
<1>8. CASE Finish(w)
  BY <1>8 DEF Finish, SetJob, Idle, store
<1>9. CASE mark_row_failed_on_horse_death(w)
  BY <1>9 DEF mark_row_failed_on_horse_death, fail_active, ACTIVE, redis
<1>10. CASE HorseDeathIgnored(w)
  BY <1>10 DEF HorseDeathIgnored, store, redis
<1>11. CASE RecordHorseDeath(w)
  BY <1>11 DEF RecordHorseDeath, SetJob, Idle, store
<1>12. CASE HeartbeatExpires(w)
  BY <1>12 DEF HeartbeatExpires, store
<1>13. CASE WorkerRestart(w)
  BY <1>13 DEF WorkerRestart, Idle, store, redis
<1> QED BY <1>1, <1>2, <1>3, <1>4, <1>5, <1>6, <1>7, <1>8, <1>9, <1>10, <1>11,
           <1>12, <1>13 DEF WorkerStep

\* In the reliable deployment a live execution never stalls.
LEMMA FaultDelivery ==
    ASSUME Reliable, DeliveryInv, NEW w \in Workers, Fault(w) PROVE Kept
<1> USE DEF DeliveryInv, TypeOK, WorkerState, Delivery, Serving, Insertion, Ownership,
            DoneIsComplete, Kept
<1>1. CASE HorseKilled(w)
  BY <1>1 DEF HorseKilled, Executing, store, redis
<1>2. CASE WorkerLost(w)
  BY <1>2 DEF WorkerLost, store, redis
<1>3. CASE Stall(w)
  BY <1>3 DEF Stall, Reliable, Usage
<1> QED BY <1>1, <1>2, <1>3 DEF Fault

LEMMA PassDelivery ==
    ASSUME DeliveryInv, NEW p \in Passes, PassStep(p) \/ PassAborted(p) PROVE Kept
<1> USE DEF DeliveryInv, TypeOK, Delivery, Serving, Insertion, Ownership, DoneIsComplete,
            JOB, Kept
<1>1. CASE Begin(p)
  BY <1>1 DEF Begin, NothingSeen, store
<1>2. CASE List(p)
  BY <1>2 DEF List, PassState, ACTIVE, store, redis
<1>3. ASSUME NEW r \in Rows, Examine(p, r) PROVE Kept
  BY <1>3 DEF Examine, PassState, store, redis
<1>4. CASE Recheck(p)
  BY <1>4 DEF Recheck, PassState, store, redis
<1>5. CASE ReconcileEnqueue(p)
  BY <1>5 DEF ReconcileEnqueue, Enqueue, Acted, PassState, store
<1>6. CASE ReconcileFail(p)
  BY <1>6 DEF ReconcileFail, fail_active, ACTIVE, Acted, PassState, redis
<1>7. CASE ReconcileReset(p)
  BY <1>7 DEF ReconcileReset, reset_to_queued, Acted, PassState, redis
<1>8. CASE pass' = [pass EXCEPT ![p] = Resting] /\ UNCHANGED <<store, inFlight, redis, worker>>
  <2>1. Resting.row = None /\ \A r \in Rows : Resting.seen[r] = "-"
    BY DEF Resting, NothingSeen
  <2>2. Insertion'
    BY <1>8, <2>1 DEF store, redis
  <2> QED BY <1>8, <2>2 DEF store, redis
<1> QED BY <1>1, <1>2, <1>3, <1>4, <1>5, <1>6, <1>7, <1>8 DEF PassStep, End, PassAborted

LEMMA NextDelivery == ASSUME Reliable PROVE DeliveryInv /\ [Next]_vars => DeliveryInv'
<1> SUFFICES ASSUME DeliveryInv, [Next]_vars PROVE DeliveryInv'
  OBVIOUS
<1>1. TypeOK'
  BY NextType DEF DeliveryInv
<1>2. Kept
  <2>1. CASE UNCHANGED vars
    BY <2>1 DEF vars, store, redis, DeliveryInv, Delivery, Serving, Insertion, Ownership,
               DoneIsComplete, Kept
  <2>2. CASE RedisLoss
    BY <2>2 DEF RedisLoss, Reliable, DeliveryInv, TypeOK, Usage
  <2> QED BY <2>1, <2>2, APIDelivery, WorkerDelivery, FaultDelivery, PassDelivery DEF Next
<1> QED BY <1>1, <1>2 DEF DeliveryInv, Kept

\* DeliveryInv is inductive when no execution stalls and Redis keeps its data.
THEOREM DeliveryKept == ASSUME Reliable PROVE Spec => []DeliveryInv
BY InitDelivery, NextDelivery, PTL DEF Spec

\* Kills, requeues, late enqueues and any number of concurrent reconciliation
\* passes never put two workers to work on one row.
THEOREM OneExecutionPerRow == ASSUME Reliable PROVE Spec => []ExclusiveExecution
<1>1. DeliveryInv => ExclusiveExecution
  BY DEF DeliveryInv, TypeOK, Delivery, Serving, ExclusiveExecution
<1> QED BY <1>1, DeliveryKept, PTL

\* A run that says done has all its replicates counted.
THEOREM DoneRunsAreComplete == ASSUME Reliable PROVE Spec => []DoneIsComplete
<1>1. DeliveryInv => DoneIsComplete
  BY DEF DeliveryInv
<1> QED BY <1>1, DeliveryKept, PTL

-----------------------------------------------------------------------------
(* The machinery implements RowContract.                                    *)

LEMMA InitContract == Init => Contract!Init
BY DEF Init, Contract!Init, busy, Idle

\* A worker that neither starts nor stops working leaves busy as it is.
LEMMA BusyFrame ==
    ASSUME \A w \in Workers : /\ worker'[w].pc = "working" <=> worker[w].pc = "working"
                              /\ worker[w].pc = "working" => worker'[w].row = worker[w].row
    PROVE  busy' = busy
<1>1. \A r : r \in busy <=> \E w \in Workers : worker[w].pc = "working" /\ worker[w].row = r
  BY DEF busy
<1>2. \A r : r \in busy' <=> \E w \in Workers : worker'[w].pc = "working" /\ worker'[w].row = r
  BY DEF busy
<1>3. \A r : (\E w \in Workers : worker[w].pc = "working" /\ worker[w].row = r)
             <=> (\E w \in Workers : worker'[w].pc = "working" /\ worker'[w].row = r)
  OBVIOUS
<1> QED BY <1>1, <1>2, <1>3

\* The only execution at work on a row stops: the row is busy no more.
LEMMA BusyEnds ==
    ASSUME DeliveryInv, NEW w \in Workers, worker[w].pc = "working",
           NEW q, q.pc # "working", worker' = [worker EXCEPT ![w] = q]
    PROVE  busy' = busy \ {worker[w].row}
<1>1. \A v \in Workers : worker[v].pc = "working" /\ worker[v].row = worker[w].row => v = w
  BY DEF DeliveryInv, TypeOK, Delivery, Serving
<1>2. worker'[w].pc # "working" /\ \A v \in Workers \ {w} : worker'[v] = worker[v]
  BY DEF DeliveryInv, TypeOK
<1> QED BY <1>1, <1>2 DEF busy

LEMMA WorkerContract ==
    ASSUME DeliveryInv, NEW w \in Workers, WorkerStep(w) \/ Fault(w)
    PROVE  Contract!Next \/ UNCHANGED <<row, busy>>
<1> DEFINE r == worker[w].row
<1> USE DEF DeliveryInv, TypeOK, WorkerState
<1>1. CASE Claim(w)
  <2>1. \A v \in Workers : worker[v].pc = "working" => worker[v].row # r
    BY <1>1 DEF Claim, Delivery, Serving
  <2>2. busy' = busy \cup {r}
    <3>1. /\ worker'[w].pc = "working" /\ worker'[w].row = r
          /\ \A v \in Workers \ {w} : worker'[v] = worker[v]
      BY <1>1 DEF Claim
    <3> QED BY <1>1, <3>1 DEF busy, Claim
  <2>3. Contract!Take(r)
    BY <1>1, <2>1, <2>2 DEF Claim, CLAIMABLE, Contract!Take, Contract!Becomes, busy
  <2> QED BY <1>1, <2>3 DEF Contract!Next, Claim
<1>2. CASE Succeed(w) \/ Fail(w)
  <2>1. busy' = busy \ {r}
    <3> DEFINE q == [worker[w] EXCEPT !.pc = "returned"]
    <3>1. q.pc # "working" /\ worker' = [worker EXCEPT ![w] = q] /\ worker[w].pc = "working"
      BY <1>2 DEF Succeed, Fail
    <3> HIDE DEF q, DeliveryInv, TypeOK
    <3> QED BY <3>1, BusyEnds
  <2>2. r \in Rows /\ r \in busy
    BY <1>2 DEF Succeed, Fail, busy
  <2>3. Contract!Report(r)
    BY <1>2, <2>1, <2>2 DEF Succeed, Fail, set_run_status, Contract!Report, Contract!Becomes
  <2> QED BY <2>2, <2>3 DEF Contract!Next
<1>3. CASE (HorseKilled(w) \/ WorkerLost(w)) /\ worker[w].pc = "working"
  <2>1. busy' = busy \ {r}
    <3> DEFINE q == [worker[w] EXCEPT !.pc = worker'[w].pc]
    <3>1. q.pc # "working" /\ worker' = [worker EXCEPT ![w] = q]
      BY <1>3 DEF HorseKilled, WorkerLost
    <3> HIDE DEF q, DeliveryInv, TypeOK
    <3> QED BY <1>3, <3>1, BusyEnds
  <2>2. r \in Rows /\ r \in busy
    BY <1>3 DEF busy
  <2>3. Contract!Vanish(r)
    BY <1>3, <2>1, <2>2 DEF HorseKilled, WorkerLost, store, Contract!Vanish
  <2> QED BY <2>2, <2>3 DEF Contract!Next
<1>4. CASE mark_row_failed_on_horse_death(w)
  <2>1. busy' = busy
    BY <1>4, BusyFrame DEF mark_row_failed_on_horse_death
  <2> QED BY <1>4, <2>1 DEF mark_row_failed_on_horse_death, fail_active, ACTIVE,
                          Contract!Next, Contract!GiveUp, Contract!Becomes
<1>5. CASE \/ \E x \in Rows : Dequeue(w, x)
           \/ Start(w) \/ ClaimRefused(w) \/ Replicate(w) \/ Finish(w)
           \/ HorseDeathIgnored(w) \/ RecordHorseDeath(w) \/ HeartbeatExpires(w)
           \/ WorkerRestart(w) \/ Stall(w)
           \/ (HorseKilled(w) \/ WorkerLost(w)) /\ worker[w].pc # "working"
  <2>1. busy' = busy
    BY <1>5, BusyFrame
    DEF Dequeue, Start, ClaimRefused, Replicate, Finish, HorseDeathIgnored,
        RecordHorseDeath, HeartbeatExpires, WorkerRestart, Stall, HorseKilled,
        WorkerLost, Idle
  <2>2. row' = row
    BY <1>5 DEF Dequeue, Start, ClaimRefused, Replicate, Finish, HorseDeathIgnored,
        RecordHorseDeath, HeartbeatExpires, WorkerRestart, Stall, HorseKilled,
        WorkerLost, store
  <2> QED BY <2>1, <2>2
<1> QED BY <1>1, <1>2, <1>3, <1>4, <1>5 DEF WorkerStep, Fault

LEMMA StepContract ==
    ASSUME DeliveryInv, [Next]_vars PROVE Contract!Next \/ UNCHANGED <<row, busy>>
<1>1. CASE UNCHANGED vars
  BY <1>1 DEF vars, store, busy
<1>2. ASSUME NEW r \in Rows, API(r) \/ Operator(r)
      PROVE  Contract!Next \/ UNCHANGED <<row, busy>>
  <2>1. busy' = busy
    BY <1>2 DEF API, Operator, Submit, FirstEnqueue, EnqueueLost, Age, Requeue, Cancel,
               ResultExpires, busy
  <2>2. CASE Submit(r)
    <3>1. row' = [q \in Rows |-> IF q \in {r} THEN "queued" ELSE row[q]]
      BY <2>2 DEF Submit, DeliveryInv, TypeOK
    <3>2. Contract!Create({r})
      BY <2>1, <2>2, <3>1 DEF Submit, Contract!Create
    <3>3. {r} \in SUBSET Rows
      OBVIOUS
    <3> QED BY <3>2, <3>3 DEF Contract!Next
  <2> QED BY <1>2, <2>1, <2>2 DEF API, Operator, FirstEnqueue, EnqueueLost, Age, Requeue,
               Cancel, ResultExpires, store
<1>3. ASSUME NEW p \in Passes, PassStep(p) \/ PassAborted(p)
      PROVE  Contract!Next \/ UNCHANGED <<row, busy>>
  <2>1. busy' = busy
    BY <1>3 DEF PassStep, PassAborted, Begin, List, Examine, Recheck, ReconcileEnqueue,
               ReconcileFail, ReconcileReset, End, busy
  <2>2. CASE ReconcileFail(p)
    BY <2>1, <2>2 DEF ReconcileFail, fail_active, ACTIVE, DeliveryInv, TypeOK,
               Contract!Next, Contract!GiveUp, Contract!Becomes
  <2>3. CASE ReconcileReset(p)
    BY <2>1, <2>3 DEF ReconcileReset, reset_to_queued, DeliveryInv, TypeOK,
               Contract!Next, Contract!PutBack, Contract!Becomes
  <2> QED BY <1>3, <2>1, <2>2, <2>3 DEF PassStep, PassAborted, Begin, List, Examine, Recheck,
               ReconcileEnqueue, End, store
<1>4. CASE RedisLoss
  BY <1>4 DEF RedisLoss, store, busy
<1> QED BY <1>1, <1>2, <1>3, <1>4, WorkerContract DEF Next

\* In the reliable deployment the whole machinery implements RowContract.
THEOREM ImplementsRowContract == ASSUME Reliable PROVE Spec => RowContractKept
<1>1. DeliveryInv /\ [Next]_vars => [Contract!Next]_<<row, busy>>
  BY StepContract
<1> QED BY <1>1, InitContract, DeliveryKept, PTL DEF Spec, RowContractKept, Contract!Spec

\* What the contract gives its clients, for the rows of this machinery.
Client == INSTANCE RowContract_proofs WITH Rows <- Rows, row <- row, busy <- busy

\* In the reliable deployment done is final, and said only by the execution at
\* work on the row: the contract's promises, through the refinement.
THEOREM DoneStays == ASSUME Reliable PROVE Spec => Contract!DoneIsFinal /\ Contract!DoneIsReported
<1>1. Contract!Init => Client!Init
  BY DEF Contract!Init, Client!Init
<1>2. [Contract!Next]_<<row, busy>> => [Client!Next]_<<row, busy>>
  BY DEF Contract!Next, Contract!Create, Contract!Take, Contract!Report, Contract!Vanish,
         Contract!GiveUp, Contract!PutBack, Contract!Becomes,
         Client!Next, Client!Create, Client!Take, Client!Report, Client!Vanish,
         Client!GiveUp, Client!PutBack, Client!Becomes
<1>3. Contract!Spec => Client!Spec
  BY <1>1, <1>2, PTL DEF Contract!Spec, Client!Spec
<1>4. Spec => Client!DoneIsFinal /\ Client!DoneIsReported
  BY <1>3, ImplementsRowContract, Client!DoneStays, Client!DoneIsFirstHand, PTL DEF RowContractKept
<1> QED BY <1>4, PTL DEF Contract!DoneIsFinal, Contract!DoneIsReported,
                         Client!DoneIsFinal, Client!DoneIsReported

-----------------------------------------------------------------------------
(* The reliable deployment, until an operator requeues a job.               *)

FirstDelivery == OneDelivery /\ SoundVerdicts

LEMMA InitFirst == Init => FirstDelivery
BY DEF Init, FirstDelivery, OneDelivery, SoundVerdicts, FinishedRecordsOutcome, Resting,
       NothingSeen, Pending

\* What DeliveryInv says of the registered executions and of their jobs.
LEMMA Delivered ==
    ASSUME DeliveryInv
    PROVE  /\ row \in [Rows -> STATUSES \cup {"absent"}] /\ job \in [Rows -> JOB]
           /\ waiting \subseteq Rows
           /\ \A w \in Workers : worker[w].pc # "idle" => worker[w].row \in Rows
           /\ \A w \in Workers : worker[w].pc \in Serving => w \in registry
           /\ registry \subseteq Workers
           /\ \A w \in registry : /\ worker[w].row \in Rows
                                  /\ job[worker[w].row] \in {"queued", "started"}
                                  /\ worker[w].row \notin waiting
           /\ \A v, w \in registry : worker[v].row = worker[w].row => v = w
           /\ \A r \in waiting : job[r] = "queued"
           /\ \A p \in Passes : pass[p].act # "-" => pass[p].row \in Rows
<1>1. \A w \in registry : w \in Workers /\ worker[w].row \in Rows
  BY DEF DeliveryInv, TypeOK
<1>2. Delivery
  BY DEF DeliveryInv
<1> QED BY <1>1, <1>2 DEF DeliveryInv, TypeOK, Delivery

LEMMA APIFirst ==
    ASSUME DeliveryInv, FirstDelivery, NEW r \in Rows, API(r) \/ Cancel(r) \/ ResultExpires(r)
    PROVE  FirstDelivery'
<1> USE Delivered DEF FirstDelivery, OneDelivery, SoundVerdicts, FinishedRecordsOutcome,
            Registered, Pending, OVER, JOB
<1>1. CASE Submit(r)
  BY <1>1 DEF Submit, redis, CLAIMABLE, SETTLED, DeliveryInv, Insertion
<1>2. CASE FirstEnqueue(r)
  BY <1>2 DEF FirstEnqueue, Enqueue, store
<1>3. CASE EnqueueLost(r) \/ Age(r)
  BY <1>3 DEF EnqueueLost, Age, store, redis
<1>4. CASE Cancel(r)
  BY <1>4 DEF Cancel, store
<1>5. CASE ResultExpires(r)
  BY <1>5 DEF ResultExpires, store, SETTLED
<1> QED BY <1>1, <1>2, <1>3, <1>4, <1>5 DEF API

LEMMA WorkerFirst ==
    ASSUME DeliveryInv, FirstDelivery, NEW w \in Workers, WorkerStep(w) \/ HorseKilled(w) \/ WorkerLost(w)
    PROVE  FirstDelivery'
<1> USE Delivered DEF FirstDelivery, OneDelivery, SoundVerdicts, FinishedRecordsOutcome,
            Registered, Pending, OVER, JOB, Executing, Serving, SETTLED, CLAIMABLE
<1>0. worker \in [Workers -> WorkerState]
  BY DEF DeliveryInv, TypeOK
<1>1. ASSUME NEW r \in Rows, Dequeue(w, r) PROVE FirstDelivery'
  <2>1. /\ worker[w].pc = "idle" /\ r \in waiting /\ w \notin registry
        /\ waiting' = waiting \ {r} /\ registry' = registry \cup {w}
        /\ UNCHANGED <<row, job, inFlight, pass>>
    BY <1>1 DEF Dequeue, store, DeliveryInv, TypeOK
  <2>2. /\ worker'[w] = [pc |-> "taken", row |-> r, n |-> 0]
        /\ \A v \in Workers \ {w} : worker'[v] = worker[v]
    BY <1>0, <1>1 DEF Dequeue
  <2>3. OneDelivery'
    BY <2>1, <2>2
  <2>4. SoundVerdicts'
    BY <2>1
  <2> QED BY <2>3, <2>4
<1>2. CASE Start(w)
  <2> PICK r \in Rows : worker[w].row = r
    BY <1>2 DEF Start
  <2>1. /\ w \in registry /\ worker[w].pc = "taken" /\ job[r] \in {"queued", "started"}
        /\ row[r] \in {"queued", "failed"} /\ r \notin waiting
    BY <1>2 DEF Start
  <2>2. /\ UNCHANGED <<row, inFlight, waiting, registry, pass>>
        /\ \A s \in Rows : job'[s] = IF s = r THEN "started" ELSE job[s]
    BY <1>2, <2>1 DEF Start, SetJob, store
  <2>3. /\ worker'[w].pc = "started" /\ worker'[w].row = r
        /\ \A v \in Workers \ {w} : worker'[v] = worker[v]
    BY <1>0, <1>2 DEF Start, WorkerState
  <2>4. OneDelivery'
    BY <2>1, <2>2, <2>3
  <2>5. SoundVerdicts'
    BY <2>1, <2>2
  <2> QED BY <2>4, <2>5
<1>3. CASE Claim(w)
  BY <1>0, <1>3 DEF Claim, redis, WorkerState
<1>4. CASE ClaimRefused(w)
  BY <1>0, <1>4 DEF ClaimRefused, store, redis
<1>5. CASE Replicate(w)
  BY <1>0, <1>5 DEF Replicate, redis, WorkerState
<1>6. CASE Succeed(w)
  BY <1>0, <1>6 DEF Succeed, set_run_status, redis, WorkerState
<1>7. CASE Fail(w)
  BY <1>0, <1>7 DEF Fail, set_run_status, redis, WorkerState
<1>8. CASE Finish(w)
  BY <1>0, <1>8 DEF Finish, SetJob, Idle, store
<1>9. CASE mark_row_failed_on_horse_death(w)
  BY <1>0, <1>9 DEF mark_row_failed_on_horse_death, fail_active, ACTIVE, redis, WorkerState
<1>10. CASE HorseDeathIgnored(w)
  BY <1>0, <1>10 DEF HorseDeathIgnored, store, redis
<1>11. CASE RecordHorseDeath(w)
  BY <1>0, <1>11 DEF RecordHorseDeath, SetJob, Idle, store
<1>12. CASE HeartbeatExpires(w)
  BY <1>12 DEF HeartbeatExpires, store
<1>13. CASE WorkerRestart(w)
  BY <1>0, <1>13 DEF WorkerRestart, Idle, store, redis
<1>14. CASE HorseKilled(w) \/ WorkerLost(w)
  BY <1>0, <1>14 DEF HorseKilled, WorkerLost, store, redis, WorkerState
<1> QED BY <1>1, <1>2, <1>3, <1>4, <1>5, <1>6, <1>7, <1>8, <1>9, <1>10, <1>11,
           <1>12, <1>13, <1>14 DEF WorkerStep

\* A pass decides something: rows, jobs and workers rest.
LEMMA PassDecides ==
    ASSUME DeliveryInv, FirstDelivery, NEW p \in Passes, NEW q, pass' = [pass EXCEPT ![p] = q],
           UNCHANGED <<row, job, waiting, inFlight, registry, worker>>,
           \A r \in Rows : job[r] = "missing" /\ (q.seen[r] # "-" \/ q.row = r) =>
               row[r] \in CLAIMABLE,
           \A r \in Rows : q.seen[r] = "running" => job[r] \notin {"missing", "queued"},
           q.act = "fail" => job[q.row] \in OVER,
           q.act = "recheck" => job[q.row] \in OVER \cup {"started"},
           q.act # "reset"
    PROVE  FirstDelivery'
<1>0. pass \in [Passes -> PassState]
  BY DEF DeliveryInv, TypeOK
<1>1. pass'[p] = q /\ \A o \in Passes \ {p} : pass'[o] = pass[o]
  BY <1>0
<1>2. SoundVerdicts'
  BY <1>1 DEF FirstDelivery, SoundVerdicts
<1>3. \A r \in Rows : job'[r] = "missing" /\ Pending(r)' => row'[r] \in CLAIMABLE
  BY <1>1 DEF FirstDelivery, OneDelivery, Pending
<1>4. OneDelivery'
  BY <1>3 DEF FirstDelivery, OneDelivery, FinishedRecordsOutcome, Registered
<1> QED BY <1>2, <1>4 DEF FirstDelivery

\* What a pass knows of the rows it has listed or is about to act on.
LEMMA PassKnows ==
    ASSUME DeliveryInv, FirstDelivery, NEW p \in Passes
    PROVE  /\ pass[p] \in PassState /\ pass \in [Passes -> PassState]
           /\ pass[p].seen \in [Rows -> ACTIVE \cup {"-"}]
           /\ \A r \in Rows : job[r] = "missing" /\ (pass[p].seen[r] # "-" \/ pass[p].row = r) =>
                row[r] \in CLAIMABLE
           /\ \A r \in Rows : pass[p].seen[r] = "running" => job[r] \notin {"missing", "queued"}
           /\ pass[p].act = "fail" => job[pass[p].row] \in OVER
           /\ pass[p].act = "recheck" => job[pass[p].row] \in OVER \cup {"started"}
           /\ pass[p].act # "reset"
<1>1. pass[p] \in PassState /\ pass \in [Passes -> PassState]
  BY DEF DeliveryInv, TypeOK
<1>2. pass[p].seen \in [Rows -> ACTIVE \cup {"-"}]
  BY <1>1 DEF PassState
<1> QED BY <1>1, <1>2 DEF FirstDelivery, OneDelivery, Pending, SoundVerdicts

LEMMA PassFirst ==
    ASSUME DeliveryInv, FirstDelivery, NEW p \in Passes, PassStep(p) \/ PassAborted(p)
    PROVE  FirstDelivery'
<1>0. /\ job \in [Rows -> JOB] /\ row \in [Rows -> STATUSES \cup {"absent"}]
      /\ pass[p].act # "-" => pass[p].row \in Rows
  BY Delivered
<1>1. CASE Begin(p)
  <2> DEFINE q == [pc |-> "list", live |-> {worker[w].row : w \in registry \ expired},
                   old |-> Rows \ young, seen |-> NothingSeen, row |-> None, act |-> "-"]
  <2>1. /\ pass' = [pass EXCEPT ![p] = q] /\ UNCHANGED <<row, waiting, inFlight, worker>>
        /\ registry' = registry \ expired
        /\ \A r \in Rows : job'[r] = IF r \in {worker[w].row : w \in expired} /\ job[r] # "missing"
                                       THEN "failed" ELSE job[r]
    BY <1>1 DEF Begin, store
  <2>2. /\ pass'[p].row = None /\ pass'[p].act = "-" /\ \A r \in Rows : pass'[p].seen[r] = "-"
        /\ \A o \in Passes \ {p} : pass'[o] = pass[o]
    BY <2>1, PassKnows DEF NothingSeen
  <2> HIDE DEF q
  <2>3. /\ \A r \in Rows : job'[r] \in {job[r], "failed"}
        /\ \A r \in Rows : job'[r] = "missing" <=> job[r] = "missing"
        /\ \A w \in registry' : w \in registry /\ job'[worker[w].row] = job[worker[w].row]
        /\ \A r \in waiting : job'[r] = job[r]
    BY <2>1, Delivered DEF DeliveryInv, TypeOK
  <2>4. \A r \in Rows : job'[r] = "started" => Registered(r)'
    BY <2>1, <2>3 DEF FirstDelivery, OneDelivery, Registered
  <2>5. \A r \in Rows : job'[r] = "missing" /\ Pending(r)' => row'[r] \in CLAIMABLE
    BY <2>1, <2>2, <2>3 DEF FirstDelivery, OneDelivery, Pending
  <2>6. OneDelivery'
    BY <2>1, <2>3, <2>4, <2>5 DEF FirstDelivery, OneDelivery, FinishedRecordsOutcome
  <2>7. SoundVerdicts'
    BY <2>2, <2>3, Delivered DEF FirstDelivery, SoundVerdicts, OVER
  <2> QED BY <2>6, <2>7 DEF FirstDelivery
<1>2. CASE List(p)
  <2> DEFINE seen == [r \in Rows |-> IF row[r] \in ACTIVE THEN row[r] ELSE "-"]
             q == [pass[p] EXCEPT !.pc = "scan", !.seen = seen]
  <2>1. /\ pass' = [pass EXCEPT ![p] = q]
        /\ UNCHANGED <<row, job, waiting, inFlight, registry, worker>>
    BY <1>2 DEF List, store, redis
  <2>2. seen \in [Rows -> ACTIVE \cup {"-"}]
    BY DEF ACTIVE
  <2>3. q.seen = seen /\ q.row = pass[p].row /\ q.act = pass[p].act
    <3> HIDE DEF seen
    <3> QED BY <2>2, PassKnows DEF PassState
  <2>4. \A r \in Rows : /\ job[r] = "missing" /\ seen[r] # "-" => row[r] \in CLAIMABLE
                        /\ seen[r] = "running" => job[r] \notin {"missing", "queued"}
    BY DEF FirstDelivery, OneDelivery, ACTIVE, CLAIMABLE
  <2> HIDE DEF q, seen
  <2> QED BY <2>1, <2>3, <2>4, PassKnows, PassDecides
<1>3. ASSUME NEW r \in Rows, Examine(p, r) PROVE FirstDelivery'
  <2> PICK v : v = Verdict(p, r)
    OBVIOUS
  <2> DEFINE q == [pass[p] EXCEPT !.seen[r] = "-", !.act = v,
                                  !.row = IF v = "-" THEN None ELSE r]
  <2>1. /\ pass' = [pass EXCEPT ![p] = q] /\ pass[p].seen[r] \in {"queued", "running"}
        /\ UNCHANGED <<row, job, waiting, inFlight, registry, worker>>
    BY <1>3, PassKnows DEF Examine, store, redis, ACTIVE
  <2>2. /\ v \in {"-", "enqueue", "recheck", "fail"}
        /\ v = "fail" => job[r] \in OVER
        /\ v = "recheck" => job[r] \in OVER \cup {"started"}
    BY <1>0, <2>1, PassKnows DEF Verdict, OVER, JOB
  <2>3. /\ \A s \in Rows : q.seen[s] = IF s = r THEN "-" ELSE pass[p].seen[s]
        /\ q.row = (IF v = "-" THEN None ELSE r) /\ q.act = v
    <3>1. pass[p] \in PassState /\ pass[p].seen \in [Rows -> ACTIVE \cup {"-"}]
      BY PassKnows
    <3> QED BY <3>1 DEF PassState
  <2> HIDE DEF q
  <2>4. \A s \in Rows : /\ job[s] = "missing" /\ (q.seen[s] # "-" \/ q.row = s) =>
                            row[s] \in CLAIMABLE
                        /\ q.seen[s] = "running" => job[s] \notin {"missing", "queued"}
    BY <2>1, <2>3, PassKnows, NoneAssumption
  <2>5. /\ q.act = "fail" => job[q.row] \in OVER
        /\ q.act = "recheck" => job[q.row] \in OVER \cup {"started"}
        /\ q.act # "reset"
    BY <2>2, <2>3
  <2> QED BY <2>1, <2>4, <2>5, PassDecides
<1>4. CASE Recheck(p)
  <2> PICK live \in BOOLEAN : live <=> Registered(pass[p].row)
    OBVIOUS
  <2> DEFINE q == [pass[p] EXCEPT !.act = IF live THEN "-" ELSE "fail",
                                  !.row = IF live THEN None ELSE pass[p].row]
  <2>1. /\ pass' = [pass EXCEPT ![p] = q] /\ pass[p].act = "recheck"
        /\ UNCHANGED <<row, job, waiting, inFlight, registry, worker>>
    BY <1>4 DEF Recheck, store, redis
  <2>2. ~live => job[pass[p].row] \in OVER
    BY <1>0, <2>1, PassKnows DEF FirstDelivery, OneDelivery
  <2>3. /\ q.seen = pass[p].seen /\ q.act = (IF live THEN "-" ELSE "fail")
        /\ q.row = IF live THEN None ELSE pass[p].row
    BY PassKnows DEF PassState
  <2> HIDE DEF q
  <2>4. \A s \in Rows : /\ job[s] = "missing" /\ (q.seen[s] # "-" \/ q.row = s) =>
                            row[s] \in CLAIMABLE
                        /\ q.seen[s] = "running" => job[s] \notin {"missing", "queued"}
    BY <2>3, PassKnows, NoneAssumption
  <2>5. /\ q.act = "fail" => job[q.row] \in OVER
        /\ q.act \in {"-", "fail"}
    BY <2>2, <2>3
  <2> QED BY <2>1, <2>4, <2>5, PassDecides
<1>5. CASE ReconcileEnqueue(p) \/ ReconcileFail(p) \/ ReconcileReset(p)
  <2> PICK r \in Rows : pass[p].row = r
    BY <1>0, <1>5 DEF ReconcileEnqueue, ReconcileFail, ReconcileReset
  <2>1. /\ pass' = [pass EXCEPT ![p] = [pass[p] EXCEPT !.act = "-", !.row = None]]
        /\ UNCHANGED <<inFlight, registry, worker>>
    BY <1>5, PassKnows DEF ReconcileEnqueue, ReconcileFail, ReconcileReset, Acted, store, redis
  <2>2. /\ pass'[p].act = "-" /\ pass'[p].row = None /\ pass'[p].seen = pass[p].seen
        /\ \A o \in Passes \ {p} : pass'[o] = pass[o]
    BY <2>1, PassKnows DEF PassState
  <2>3. CASE ReconcileEnqueue(p) /\ job[r] = "missing"
    <3>1. /\ row' = row /\ waiting' = waiting \cup {r} /\ row[r] \in CLAIMABLE
          /\ \A s \in Rows : job'[s] = IF s = r THEN "queued" ELSE job[s]
      BY <1>0, <2>3, PassKnows DEF ReconcileEnqueue, Enqueue, store
    <3>2. \A s \in Rows : pass'[p].seen[s] = "running" => job[s] \notin {"missing", "queued"}
      BY <2>2, PassKnows
    <3>3. SoundVerdicts'
      <4>1. ASSUME NEW o \in Passes \ {p}
            PROVE  /\ \A s \in Rows : pass[o].seen[s] = "running" => job'[s] \notin {"missing", "queued"}
                   /\ pass[o].act = "fail" => job'[pass[o].row] \in OVER
                   /\ pass[o].act = "recheck" => job'[pass[o].row] \in OVER \cup {"started"}
                   /\ pass[o].act # "reset"
        <5>1. pass[o].act # "-" => pass[o].row \in Rows
          BY Delivered
        <5> QED BY <2>3, <3>1, <5>1, PassKnows DEF OVER
      <4> QED BY <2>2, <2>3, <3>1, <3>2, <4>1 DEF SoundVerdicts
    <3>4. OneDelivery'
      BY <2>1, <2>2, <2>3, <3>1, Delivered
         DEF FirstDelivery, OneDelivery, FinishedRecordsOutcome, Registered, Pending, CLAIMABLE,
             Executing
    <3> QED BY <3>3, <3>4 DEF FirstDelivery
  <2>4. CASE ~(ReconcileEnqueue(p) /\ job[r] = "missing")
    <3>1. /\ UNCHANGED <<job, waiting>>
          /\ \A s \in Rows : row'[s] = row[s] \/ (row[s] \in ACTIVE /\ row'[s] = "failed")
      BY <1>0, <1>5, <2>4, PassKnows
         DEF ReconcileEnqueue, ReconcileFail, ReconcileReset, Enqueue, fail_active, store, redis
    <3>2. SoundVerdicts'
      BY <2>2, <3>1 DEF FirstDelivery, SoundVerdicts
    <3>3. OneDelivery'
      BY <2>1, <2>2, <3>1, Delivered
         DEF FirstDelivery, OneDelivery, FinishedRecordsOutcome, Registered, Pending, CLAIMABLE,
             ACTIVE, SETTLED
    <3> QED BY <3>2, <3>3 DEF FirstDelivery
  <2> QED BY <2>3, <2>4
<1>6. CASE End(p) \/ PassAborted(p)
  <2>1. /\ pass' = [pass EXCEPT ![p] = Resting]
        /\ UNCHANGED <<row, job, waiting, inFlight, registry, worker>>
    BY <1>6 DEF End, PassAborted, store, redis
  <2>2. Resting.row = None /\ Resting.act = "-" /\ \A r \in Rows : Resting.seen[r] = "-"
    BY DEF Resting, NothingSeen
  <2> QED BY <2>1, <2>2, PassDecides, NoneAssumption
<1> QED BY <1>1, <1>2, <1>3, <1>4, <1>5, <1>6 DEF PassStep

LEMMA StepFirst ==
    ASSUME Reliable PROVE FirstDeliveryInv /\ [Next]_vars => FirstDeliveryInv'
<1> SUFFICES ASSUME FirstDeliveryInv, [Next]_vars PROVE FirstDeliveryInv'
  OBVIOUS
<1>1. DeliveryInv /\ DeliveryInv' /\ used \in Usage
  BY NextDelivery DEF FirstDeliveryInv, DeliveryInv, TypeOK
<1>2. ASSUME NEW r \in Rows, Requeue(r) PROVE used'.requeues # 0
  BY <1>1, <1>2 DEF Requeue, Spend, Usage
<1>3. ASSUME \A r \in Rows : ~Requeue(r) PROVE used'.requeues = used.requeues
  <2>1. used' = used \/ \E what \in {"kills", "outages"} : Spend(what)
    BY <1>3 DEF Next, vars, API, Submit, FirstEnqueue, EnqueueLost, Age, Operator, Cancel,
                ResultExpires, WorkerStep, Dequeue, Start, Claim, ClaimRefused, Replicate,
                Succeed, Fail, Finish, mark_row_failed_on_horse_death, HorseDeathIgnored,
                RecordHorseDeath, HeartbeatExpires, WorkerRestart, Fault, HorseKilled, WorkerLost,
                Stall, PassStep, Begin, List, Examine, Recheck, ReconcileEnqueue, ReconcileFail,
                ReconcileReset, End, PassAborted, RedisLoss
  <2> QED BY <1>1, <2>1 DEF Spend, Usage
<1>4. ASSUME \A r \in Rows : ~Requeue(r), FirstDelivery PROVE FirstDelivery'
  <2>1. CASE UNCHANGED vars
    BY <1>4, <2>1 DEF vars, store, redis, FirstDelivery, OneDelivery, SoundVerdicts,
                      FinishedRecordsOutcome, Registered, Pending
  <2>2. CASE RedisLoss \/ \E w \in Workers : Stall(w)
    BY <1>1, <2>2 DEF RedisLoss, Stall, Reliable, Usage
  <2> QED BY <1>1, <1>4, <2>1, <2>2, APIFirst, WorkerFirst, PassFirst DEF Next, Operator, Fault
<1> QED BY <1>1, <1>2, <1>3, <1>4 DEF FirstDeliveryInv, FirstDelivery

LEMMA FirstDeliveryKept == ASSUME Reliable PROVE Spec => []FirstDeliveryInv
<1>1. Init => FirstDeliveryInv
  BY InitDelivery, InitFirst DEF FirstDeliveryInv, FirstDelivery
<1> QED BY <1>1, StepFirst, PTL DEF Spec

\* In the reliable deployment every job that RQ holds as finished has recorded an
\* outcome on its row, until an operator requeues a job.
THEOREM FinishedJobsHaveReported == ASSUME Reliable PROVE Spec => []FinishedJobsReported
<1>1. FirstDeliveryInv => FinishedJobsReported
  BY DEF FirstDeliveryInv, OneDelivery, FinishedJobsReported
<1> QED BY <1>1, FirstDeliveryKept, PTL

\* In the reliable deployment no pass, however stale its verdict, touches the row
\* of a live execution, until an operator requeues a job.
THEOREM LiveRowsAreLeftAlone == ASSUME Reliable PROVE Spec => LiveRowLeftAlone
<1>1. ASSUME FirstDeliveryInv, used.requeues = 0, NEW p \in Passes, NEW r \in Rows, Live(r),
             ReconcileFail(p) \/ ReconcileReset(p)
      PROVE  row'[r] = row[r]
  <2>1. DeliveryInv /\ FirstDelivery /\ pass[p].row \in Rows
    BY <1>1 DEF FirstDeliveryInv, FirstDelivery, DeliveryInv, TypeOK, ReconcileFail, ReconcileReset
  <2>2. ReconcileFail(p) /\ job[pass[p].row] \in OVER
    BY <1>1, <2>1, PassKnows DEF ReconcileFail, ReconcileReset
  <2>3. job[r] \in {"queued", "started"}
    BY <1>1, <2>1, Delivered DEF Live
  <2>4. pass[p].row # r
    BY <2>2, <2>3 DEF OVER
  <2> QED BY <2>1, <2>2, <2>4, Delivered DEF ReconcileFail, fail_active
<1>2. FirstDeliveryInv /\ [Next]_vars =>
        [used.requeues = 0 /\ (\E p \in Passes : ReconcileFail(p) \/ ReconcileReset(p)) =>
           \A r \in Rows : Live(r) => row'[r] = row[r]]_vars
  BY <1>1
<1> QED BY <1>2, FirstDeliveryKept, PTL DEF Spec, LiveRowLeftAlone

=============================================================================
