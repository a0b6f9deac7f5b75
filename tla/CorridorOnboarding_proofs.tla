----------------------- MODULE CorridorOnboarding_proofs -----------------------
(***************************************************************************)
(* Theorems about CorridorOnboarding, for every number of requests and     *)
(* executions and every bound.                                             *)
(***************************************************************************)
EXTENDS CorridorOnboarding, TLAPS

USE NoneAssumption, BoundsAssumption

-----------------------------------------------------------------------------
(* The inductive invariants.                                              *)

\* Why the lock holds, inductively: an execution holds its job and its row, and
\* the row of a job that waits waits too, so that a claim never revives a row
\* that had given the name back.
OneAtWork ==
    /\ \A j \in Jobs : rq[j] = "queued" => row[j] = "queued"
    /\ \A j \in Jobs : post[j] # "answered" => row[j] = "absent" /\ rq[j] = "missing"
    /\ \A e \in Execs : exec[e].pc # "idle" =>
         /\ ~exec[e].dead
         /\ rq[exec[e].job] = "started"
         /\ row[exec[e].job] = IF exec[e].pc = "claim" THEN "queued" ELSE "running"
    /\ \A d, e \in Execs : exec[d].job = exec[e].job /\ exec[e].pc # "idle" => d = e

\* What an execution finds at the two locked paths, stage by stage, and that what
\* it has recorded is its own or not there.
AtStage(e) ==
    LET j == exec[e].job
        pc == exec[e].pc
    IN  /\ pc \in {"idle", "claim", "check"} => exec[e].installed = {}
        /\ pc = "extract" => ~Taken
        /\ pc \in {"extracted", "network", "build", "demand", "install"} =>
             file["extract"] = j /\ file["preset"] = None
        /\ pc \in {"renamed", "store", "report"} => file["extract"] = j /\ file["preset"] = j
        /\ pc = "report" => j \in scenario
        /\ \A f \in exec[e].installed : file[f] \in {j, None}

FilesAtStage == \A e \in Execs : AtStage(e)

\* Why a failure frees the name, inductively: an execution that was not killed
\* has recorded what it left at the two locked paths, or is about to.
Recorded(e) ==
    LET pc == exec[e].pc
        installed == exec[e].installed
    IN  /\ pc \in {"claim", "check", "extract", "fail"} => ~Leaves(exec[e].job)
        /\ pc = "renamed" => "extract" \in installed
        /\ pc \notin {"extracted", "renamed"} =>
             \A f \in Locks : file[f] = exec[e].job => f \in installed

NothingLeft ==
    /\ \A e \in Execs : exec[e].pc # "idle" /\ exec[e].job \notin killed => Recorded(e)
    /\ \A j \in Jobs :
         row[j] # "done" /\ j \notin killed /\ (\A e \in Execs : exec[e].job # j) => ~Leaves(j)

\* Two onboardings of the name are never under way together.
AtMostOneActive == \A j, k \in Jobs : row[j] \in ACTIVE /\ row[k] \in ACTIVE => j = k

CorridorInv ==
    /\ TypeOK
    /\ Undisturbed => OneAtWork /\ AtMostOneActive /\ FilesAtStage /\ AllDoneInstalled
    /\ Kept => NothingLeft

\* Why a row keeps RowContract even when a failed job is requeued: a row that is
\* worked on runs, and its job is delivered to one execution at a time.
OnePerJob ==
    /\ \A j \in Jobs : post[j] # "answered" => row[j] = "absent" /\ rq[j] = "missing"
    /\ \A e \in Execs : exec[e].pc # "idle" =>
         /\ ~exec[e].dead
         /\ rq[exec[e].job] = "started"
         /\ exec[e].pc # "claim" => row[exec[e].job] = "running"
    /\ \A d, e \in Execs : exec[d].job = exec[e].job /\ exec[e].pc # "idle" => d = e

Unstalled == used.stalls = 0
RowsInv == TypeOK /\ (Unstalled => OnePerJob)

-----------------------------------------------------------------------------
(* Type correctness.                                                        *)

LEMMA InitType == Init => TypeOK
BY DEF Init, TypeOK, Usage, ACTIVE, SETTLED, Idle, ExecState, Working, Stages

LEMMA IdleType == Idle \in ExecState /\ Idle.pc = "idle" /\ Idle.job = None
BY DEF Idle, ExecState

\* Spending within a bound keeps the count within it.
LEMMA SpendType ==
    ASSUME used \in Usage
    PROVE  /\ used.requeues < MaxRequeues /\ Spend("requeues") => used' \in Usage
           /\ \A what \in {"deaths", "stalls", "timeouts", "storeErrors"} :
                Faults < MaxFaults /\ Spend(what) => used' \in Usage
<1>1. used.requeues < MaxRequeues /\ Spend("requeues") => used' \in Usage
  BY DEF Spend, Usage
<1>2. Faults < MaxFaults => /\ used.deaths + 1 \in 0..MaxFaults
                           /\ used.stalls + 1 \in 0..MaxFaults
                           /\ used.timeouts + 1 \in 0..MaxFaults
                           /\ used.storeErrors + 1 \in 0..MaxFaults
  BY DEF Faults, Usage
<1>3. ASSUME NEW what \in {"deaths", "stalls", "timeouts", "storeErrors"},
             Faults < MaxFaults, Spend(what)
      PROVE  used' \in Usage
  BY <1>2, <1>3 DEF Spend, Usage
<1> QED BY <1>1, <1>3

\* Execution e moves to a well-formed state and the rest keeps its type.
LEMMA ExecMoves ==
    ASSUME TypeOK, NEW e \in Execs, NEW q \in ExecState, q.pc # "idle" <=> q.job # None,
           exec' = [exec EXCEPT ![e] = q]
    PROVE  /\ exec' \in [Execs -> ExecState]
           /\ \A d \in Execs : exec'[d].pc # "idle" <=> exec'[d].job # None
           /\ exec'[e] = q
           /\ \A d \in Execs \ {e} : exec'[d] = exec[d]
<1>1. exec \in [Execs -> ExecState]
  BY DEF TypeOK
<1> HIDE DEF ExecState
<1> QED BY <1>1 DEF TypeOK

\* Goto and Record are such moves.
LEMMA GotoMoves ==
    ASSUME TypeOK, NEW e \in Execs, exec[e].pc # "idle", NEW pc \in Working, Goto(e, pc)
    PROVE  /\ exec' \in [Execs -> ExecState]
           /\ \A d \in Execs : exec'[d].pc # "idle" <=> exec'[d].job # None
           /\ exec'[e] = [exec[e] EXCEPT !.pc = pc]
           /\ \A d \in Execs \ {e} : exec'[d] = exec[d]
<1> DEFINE q == [exec[e] EXCEPT !.pc = pc]
<1>1. exec[e] \in ExecState /\ exec[e].job # None
  BY DEF TypeOK
<1>2. q \in ExecState /\ q.job # None /\ q.pc # "idle"
  BY <1>1 DEF ExecState, Working, Stages
<1>3. exec' = [exec EXCEPT ![e] = q]
  BY DEF Goto
<1> HIDE DEF q
<1>4. /\ exec' \in [Execs -> ExecState]
      /\ \A d \in Execs : exec'[d].pc # "idle" <=> exec'[d].job # None
      /\ exec'[e] = q
      /\ \A d \in Execs \ {e} : exec'[d] = exec[d]
  BY <1>2, <1>3, ExecMoves
<1> QED BY <1>4 DEF q

LEMMA RecordMoves ==
    ASSUME TypeOK, NEW e \in Execs, exec[e].pc # "idle", NEW f \in Files, NEW pc \in Working,
           Record(e, f, pc)
    PROVE  /\ exec' \in [Execs -> ExecState]
           /\ \A d \in Execs : exec'[d].pc # "idle" <=> exec'[d].job # None
           /\ exec'[e] = [pc |-> pc, job |-> exec[e].job, dead |-> exec[e].dead,
                          installed |-> exec[e].installed \cup {f}]
           /\ \A d \in Execs \ {e} : exec'[d] = exec[d]
<1> DEFINE q == [pc |-> pc, job |-> exec[e].job, dead |-> exec[e].dead,
                 installed |-> exec[e].installed \cup {f}]
<1>1. exec[e] \in ExecState /\ exec[e].job # None
  BY DEF TypeOK
<1>2. q \in ExecState /\ q.job # None /\ q.pc # "idle"
  BY <1>1 DEF ExecState, Working, Stages
<1>3. exec' = [exec EXCEPT ![e] = q]
  BY DEF Record
<1> HIDE DEF q
<1>4. /\ exec' \in [Execs -> ExecState]
      /\ \A d \in Execs : exec'[d].pc # "idle" <=> exec'[d].job # None
      /\ exec'[e] = q
      /\ \A d \in Execs \ {e} : exec'[d] = exec[d]
  BY <1>2, <1>3, ExecMoves
<1> QED BY <1>4 DEF q

LEMMA ReturnMoves ==
    ASSUME TypeOK, NEW e \in Execs, exec' = [exec EXCEPT ![e] = Idle]
    PROVE  /\ exec' \in [Execs -> ExecState]
           /\ \A d \in Execs : exec'[d].pc # "idle" <=> exec'[d].job # None
           /\ exec'[e] = Idle
           /\ \A d \in Execs \ {e} : exec'[d] = exec[d]
BY ExecMoves, IdleType

LEMMA ExecType ==
    ASSUME TypeOK, NEW e \in Execs, ExecStep(e) PROVE TypeOK'
<1>0. exec[e] \in ExecState /\ (exec[e].pc # "idle" => exec[e].job \in Jobs)
  BY DEF TypeOK, ExecState
<1> USE DEF Working, Stages
<1>1. CASE Claim(e)
  BY <1>1, GotoMoves DEF Claim, TypeOK, ACTIVE
<1>2. CASE ClaimRefused(e)
  BY <1>2, ReturnMoves DEF ClaimRefused, Return, TypeOK
<1>3. CASE Check(e)
  BY <1>3, GotoMoves DEF Check, TypeOK
<1>4. CASE InstallExtract(e)
  BY <1>0, <1>4, GotoMoves DEF InstallExtract, Install, TypeOK
<1>5. CASE RecordExtract(e)
  BY <1>5, RecordMoves DEF RecordExtract, TypeOK, Files, Locks
<1>6. CASE RegisterPatch(e)
  BY <1>6, RecordMoves, GotoMoves DEF RegisterPatch, TypeOK, Files
<1>7. CASE Build(e)
  BY <1>0, <1>7, GotoMoves DEF Build, Install, TypeOK
<1>8. CASE Calibrate(e)
  BY <1>8, GotoMoves DEF Calibrate, TypeOK
<1>9. CASE InstallPreset(e)
  BY <1>0, <1>9, GotoMoves DEF InstallPreset, Install, TypeOK
<1>10. CASE RecordPreset(e)
  BY <1>10, RecordMoves DEF RecordPreset, TypeOK, Files, Locks
<1>11. CASE create_scenario(e)
  BY <1>0, <1>11, GotoMoves DEF create_scenario, TypeOK
<1>12. CASE Succeed(e)
  BY <1>12, ReturnMoves DEF Succeed, Return, TypeOK, SETTLED
<1>13. CASE Raise(e)
  BY <1>13, GotoMoves DEF Raise, TypeOK
<1>14. CASE Timeout(e)
  BY <1>14, GotoMoves, SpendType DEF Timeout, TypeOK
<1>15. CASE StoreError(e)
  BY <1>15, GotoMoves, SpendType DEF StoreError, TypeOK
<1>16. CASE CleanUp(e)
  BY <1>16, GotoMoves DEF CleanUp, TypeOK
<1>17. CASE Fail(e)
  BY <1>17, ReturnMoves DEF Fail, Return, TypeOK, SETTLED
<1> QED BY <1>1, <1>2, <1>3, <1>4, <1>5, <1>6, <1>7, <1>8, <1>9, <1>10, <1>11, <1>12,
           <1>13, <1>14, <1>15, <1>16, <1>17 DEF ExecStep

LEMMA TakeMoves ==
    ASSUME TypeOK, NEW e \in Execs, NEW j \in Jobs, Take(e, j)
    PROVE  /\ exec' \in [Execs -> ExecState]
           /\ \A d \in Execs : exec'[d].pc # "idle" <=> exec'[d].job # None
           /\ exec'[e] = [pc |-> "claim", job |-> j, installed |-> {}, dead |-> FALSE]
           /\ \A d \in Execs \ {e} : exec'[d] = exec[d]
<1> DEFINE q == [pc |-> "claim", job |-> j, installed |-> {}, dead |-> FALSE]
<1>1. q \in ExecState /\ q.pc # "idle" /\ q.job # None
  BY DEF ExecState, Working, Stages
<1>2. exec' = [exec EXCEPT ![e] = q]
  BY DEF Take
<1> HIDE DEF q
<1>3. /\ exec' \in [Execs -> ExecState]
      /\ \A d \in Execs : exec'[d].pc # "idle" <=> exec'[d].job # None
      /\ exec'[e] = q
      /\ \A d \in Execs \ {e} : exec'[d] = exec[d]
  BY <1>1, <1>2, ExecMoves
<1> QED BY <1>3 DEF q

LEMMA StepType == TypeOK /\ [Next]_vars => TypeOK'
<1> SUFFICES ASSUME TypeOK, [Next]_vars PROVE TypeOK'
  OBVIOUS
<1> USE DEF ACTIVE, SETTLED
<1>1. CASE UNCHANGED vars
  BY <1>1 DEF vars, TypeOK
<1>2. ASSUME NEW j \in Jobs, Request(j) \/ Operator(j) \/ Reap(j) PROVE TypeOK'
  BY <1>2, SpendType DEF TypeOK, Request, CheckFiles, create_corridor, CorridorNameTaken,
              Operator, Requeue, DeleteLeftovers, Reap, fail_active
<1>3. ASSUME NEW e \in Execs, NEW j \in Jobs, Take(e, j) PROVE TypeOK'
  BY <1>3, TakeMoves DEF TypeOK, Take
<1>4. ASSUME NEW e \in Execs, Die(e) PROVE TypeOK'
  <2>1. exec[e].job \in Jobs
    BY <1>4 DEF TypeOK, Die, ExecState
  <2> QED BY <1>4, <2>1, ReturnMoves, SpendType DEF TypeOK, Die
<1>5. ASSUME NEW e \in Execs, Stall(e) PROVE TypeOK'
  <2> DEFINE q == [exec[e] EXCEPT !.dead = TRUE]
  <2>0. exec[e] \in ExecState /\ (exec[e].pc # "idle" <=> exec[e].job # None)
    BY DEF TypeOK
  <2>1. q \in ExecState /\ (q.pc # "idle" <=> q.job # None)
    BY <2>0 DEF ExecState
  <2>2. exec' = [exec EXCEPT ![e] = q]
    BY <1>5 DEF Stall
  <2> HIDE DEF q
  <2> QED BY <1>5, <2>1, <2>2, ExecMoves, SpendType DEF TypeOK, Stall, fail_active
<1> QED BY <1>1, <1>2, <1>3, <1>4, <1>5, ExecType DEF Next, Fault

\* Every variable keeps to its domain.
THEOREM TypeCorrect == Spec => []TypeOK
BY InitType, StepType, PTL DEF Spec

-----------------------------------------------------------------------------
(* The name lock.                                                           *)

\* A step that gives a live execution up, or a requeue: all that disturbs the lock.
Disturb == (\E e \in Execs : Stall(e)) \/ (\E j \in Jobs : Requeue(j))

LockInv == TypeOK /\ OneAtWork /\ AtMostOneActive

LEMMA InitLock == Init => LockInv
<1> SUFFICES ASSUME Init PROVE LockInv
  OBVIOUS
<1>1. TypeOK
  BY InitType
<1> QED BY <1>1 DEF LockInv, Init, OneAtWork, AtMostOneActive, Idle, ACTIVE

\* While one execution works no other does.
LEMMA WorksAlone ==
    ASSUME LockInv, NEW e \in Execs, exec[e].pc # "idle"
    PROVE  /\ \A d \in Execs \ {e} : exec[d].pc = "idle" /\ exec[d].job = None
           /\ exec[e].job \in Jobs /\ row[exec[e].job] \in ACTIVE
           /\ \A j \in Jobs \ {exec[e].job} : row[j] \notin ACTIVE
<1> USE DEF LockInv, ACTIVE
<1>1. \A d \in Execs : exec[d].pc # "idle" => exec[d].job \in Jobs
  BY DEF TypeOK, ExecState
<1>2. \A d \in Execs : exec[d].pc # "idle" => row[exec[d].job] \in ACTIVE
  BY DEF OneAtWork
<1>3. \A d \in Execs \ {e} : exec[d].pc = "idle"
  BY <1>1, <1>2 DEF AtMostOneActive, OneAtWork
<1> QED BY <1>1, <1>2, <1>3 DEF TypeOK, AtMostOneActive

\* An execution at work goes from one stage to another; rows and jobs rest.
LEMMA WorkGoesOn ==
    ASSUME LockInv, TypeOK', NEW e \in Execs, exec[e].pc \notin {"idle", "claim"},
           exec'[e].pc \notin {"idle", "claim"},
           exec'[e].job = exec[e].job, exec'[e].dead = exec[e].dead,
           \A d \in Execs \ {e} : exec'[d] = exec[d], UNCHANGED <<post, row, rq>>
    PROVE  LockInv'
BY WorksAlone DEF LockInv, OneAtWork, AtMostOneActive

\* The job of the execution at work is over: its row and its job settle.
LEMMA WorkEnds ==
    ASSUME LockInv, TypeOK', NEW e \in Execs, exec[e].pc # "idle", exec'[e] = Idle,
           \A d \in Execs \ {e} : exec'[d] = exec[d], UNCHANGED post,
           row' \in {[row EXCEPT ![exec[e].job] = "done"], [row EXCEPT ![exec[e].job] = "failed"]},
           rq' = [rq EXCEPT ![exec[e].job] = "finished"]
    PROVE  LockInv'
<1>1. exec[e].job \in Jobs /\ rq[exec[e].job] = "started"
  BY WorksAlone DEF LockInv, OneAtWork
<1>2. \A j \in Jobs \ {exec[e].job} : row'[j] = row[j] /\ rq'[j] = rq[j]
  BY <1>1 DEF LockInv, TypeOK
<1>3. row'[exec[e].job] \in {"done", "failed"} /\ rq'[exec[e].job] = "finished"
  BY <1>1 DEF LockInv, TypeOK
<1> QED BY <1>1, <1>2, <1>3, WorksAlone DEF LockInv, OneAtWork, AtMostOneActive, Idle, ACTIVE

LEMMA ExecLock ==
    ASSUME LockInv, NEW e \in Execs, ExecStep(e) PROVE LockInv'
<1>1. TypeOK /\ TypeOK'
  BY ExecType DEF LockInv
<1>2. ASSUME exec[e].pc # "idle" PROVE exec[e] \in ExecState /\ ~exec[e].dead
  BY <1>1, <1>2 DEF TypeOK, LockInv, OneAtWork
<1> USE DEF Working, Stages
<1>3. CASE Claim(e)
  <2>1. /\ exec'[e] = [exec[e] EXCEPT !.pc = "check"]
        /\ \A d \in Execs \ {e} : exec'[d] = exec[d]
        /\ exec[e].pc = "claim"
    BY <1>1, <1>3, GotoMoves DEF Claim
  <2>2. exec[e] \in ExecState /\ exec[e].job \in Jobs
    BY <1>2, <2>1, WorksAlone
  <2>3. exec'[e].job = exec[e].job /\ exec'[e].dead = exec[e].dead /\ exec'[e].pc = "check"
    BY <2>1, <2>2 DEF ExecState
  <2>4. row' = [row EXCEPT ![exec[e].job] = "running"] /\ UNCHANGED <<post, rq>>
    BY <1>3 DEF Claim
  <2>5. /\ \A j \in Jobs \ {exec[e].job} : row'[j] = row[j] /\ row[j] \notin ACTIVE
        /\ row'[exec[e].job] = "running" /\ row[exec[e].job] = "queued"
        /\ rq[exec[e].job] = "started"
    BY <2>1, <2>2, <2>4, WorksAlone DEF LockInv, OneAtWork, TypeOK
  <2>6. \A d \in Execs \ {e} : exec[d].pc = "idle" /\ exec[d].job = None
    BY <2>1, WorksAlone
  <2>7. AtMostOneActive'
    BY <2>5 DEF AtMostOneActive
  <2>8. OneAtWork'
    <3>1. \A j \in Jobs : rq'[j] = "queued" => row'[j] = "queued"
      BY <2>4, <2>5 DEF LockInv, OneAtWork
    <3>2. \A j \in Jobs : post'[j] # "answered" => row'[j] = "absent" /\ rq'[j] = "missing"
      BY <2>4, <2>5 DEF LockInv, OneAtWork
    <3>3. \A d \in Execs : exec'[d].pc # "idle" => d = e
      BY <2>1, <2>6
    <3>4. exec'[e].job # None /\ ~exec'[e].dead /\ exec'[e].pc # "claim"
      BY <1>2, <2>1, <2>2, <2>3
    <3>5. rq'[exec'[e].job] = "started" /\ row'[exec'[e].job] = "running"
      BY <2>3, <2>4, <2>5
    <3>6. \A d \in Execs \ {e} : exec'[d].job = None
      BY <2>1, <2>6
    <3> QED BY <3>1, <3>2, <3>3, <3>4, <3>5, <3>6 DEF OneAtWork
  <2> QED BY <1>1, <2>7, <2>8 DEF LockInv
<1>4. CASE ClaimRefused(e)
  BY <1>4 DEF ClaimRefused, LockInv, OneAtWork, CLAIMABLE
<1>5. ASSUME exec[e].pc \notin {"idle", "claim"}, UNCHANGED <<post, row, rq>>,
             NEW pc \in Working \ {"claim"}, Goto(e, pc)
      PROVE  LockInv'
  <2>1. /\ exec'[e] = [exec[e] EXCEPT !.pc = pc]
        /\ \A d \in Execs \ {e} : exec'[d] = exec[d]
    BY <1>1, <1>5, GotoMoves
  <2>2. exec'[e].job = exec[e].job /\ exec'[e].dead = exec[e].dead /\ exec'[e].pc = pc
    BY <1>2, <1>5, <2>1 DEF ExecState
  <2> QED BY <1>1, <1>5, <2>1, <2>2, WorkGoesOn
<1>6. ASSUME exec[e].pc \notin {"idle", "claim"}, UNCHANGED <<post, row, rq>>,
             NEW pc \in Working \ {"claim"}, NEW f \in Files, Record(e, f, pc)
      PROVE  LockInv'
  <2>1. /\ exec'[e] = [pc |-> pc, job |-> exec[e].job, dead |-> exec[e].dead,
                      installed |-> exec[e].installed \cup {f}]
        /\ \A d \in Execs \ {e} : exec'[d] = exec[d]
    BY <1>1, <1>6, RecordMoves
  <2> QED BY <1>1, <1>6, <2>1, WorkGoesOn
<1>7. CASE Succeed(e) \/ Fail(e)
  <2>1. exec'[e] = Idle /\ \A d \in Execs \ {e} : exec'[d] = exec[d]
    BY <1>1, <1>7, ReturnMoves DEF Succeed, Fail, Return
  <2> QED BY <1>1, <1>2, <1>7, <2>1, WorkEnds DEF Succeed, Fail, Return
<1>8. CASE Check(e)
  BY <1>5, <1>8 DEF Check
<1>9. CASE InstallExtract(e) \/ InstallPreset(e) \/ Build(e) \/ Calibrate(e)
  BY <1>5, <1>9 DEF InstallExtract, InstallPreset, Build, Calibrate
<1>10. CASE RecordExtract(e) \/ RecordPreset(e) \/ RegisterPatch(e)
  BY <1>5, <1>6, <1>10 DEF RecordExtract, RecordPreset, RegisterPatch, Files, Locks
<1>11. CASE create_scenario(e) \/ CleanUp(e)
  BY <1>5, <1>11 DEF create_scenario, CleanUp
<1>12. CASE Raise(e) \/ Timeout(e) \/ StoreError(e)
  BY <1>5, <1>12 DEF Raise, Timeout, StoreError
<1> QED BY <1>3, <1>4, <1>7, <1>8, <1>9, <1>10, <1>11, <1>12 DEF ExecStep

LEMMA RequestLock ==
    ASSUME LockInv, TypeOK', NEW j \in Jobs, Request(j) PROVE LockInv'
<1> USE DEF LockInv
<1>1. CASE CheckFiles(j)
  BY <1>1 DEF CheckFiles, OneAtWork, AtMostOneActive, TypeOK
<1>2. CASE create_corridor(j)
  <2>1. \A e \in Execs : exec[e].pc # "idle" => exec[e].job \in Jobs
    BY DEF TypeOK, ExecState
  <2>2. \A e \in Execs : exec[e].pc = "idle"
    BY <1>2, <2>1 DEF create_corridor, OneAtWork, ACTIVE
  <2>3. /\ row' = [row EXCEPT ![j] = "queued"] /\ rq' = [rq EXCEPT ![j] = "queued"]
        /\ post' = [post EXCEPT ![j] = "answered"] /\ exec' = exec
    BY <1>2 DEF create_corridor
  <2> QED BY <1>2, <2>2, <2>3 DEF create_corridor, OneAtWork, AtMostOneActive, TypeOK, ACTIVE
<1>3. CASE CorridorNameTaken(j)
  BY <1>3 DEF CorridorNameTaken, OneAtWork, AtMostOneActive, TypeOK
<1> QED BY <1>1, <1>2, <1>3 DEF Request

LEMMA OtherLock ==
    ASSUME ~Disturb, LockInv, TypeOK',
           \/ \E j \in Jobs : Operator(j) \/ Reap(j)
           \/ \E e \in Execs, j \in Jobs : Take(e, j)
           \/ \E e \in Execs : Fault(e)
    PROVE  LockInv'
<1> USE DEF LockInv
<1>1. ASSUME NEW j \in Jobs, Operator(j) PROVE LockInv'
  BY <1>1 DEF Operator, DeleteLeftovers, Disturb, OneAtWork, AtMostOneActive
<1>2. ASSUME NEW j \in Jobs, Reap(j) PROVE LockInv'
  <2>1. \A e \in Execs : exec[e].pc # "idle" => exec[e].job # j
    BY <1>2 DEF Reap, OneAtWork
  <2>2. post[j] = "answered"
    BY <1>2 DEF Reap, OneAtWork
  <2>3. \A k \in Jobs : /\ (row'[k] = row[k] \/ (k = j /\ row'[k] = "failed"))
                         /\ rq'[k] = IF k = j THEN "failed" ELSE rq[k]
    BY <1>2 DEF Reap, fail_active, TypeOK
  <2>4. UNCHANGED <<post, exec>> /\ \A e \in Execs : exec[e].pc # "idle" => exec[e].job \in Jobs
    BY <1>2 DEF Reap, TypeOK, ExecState
  <2> QED BY <2>1, <2>2, <2>3, <2>4 DEF OneAtWork, AtMostOneActive, ACTIVE
<1>3. ASSUME NEW e \in Execs, NEW j \in Jobs, Take(e, j) PROVE LockInv'
  <2>1. /\ exec'[e] = [pc |-> "claim", job |-> j, installed |-> {}, dead |-> FALSE]
        /\ \A d \in Execs \ {e} : exec'[d] = exec[d]
    BY <1>3, TakeMoves
  <2>2. /\ rq[j] = "queued" /\ row[j] = "queued" /\ UNCHANGED <<post, row>>
        /\ rq' = [rq EXCEPT ![j] = "started"]
    BY <1>3 DEF Take, OneAtWork
  <2>3. \A d \in Execs : exec[d].pc # "idle" => exec[d].job \in Jobs /\ exec[d].job # j
    BY <2>2 DEF OneAtWork, TypeOK, ExecState
  <2>4. \A d \in Execs : exec[d].pc = "idle" => exec[d].job # j
    BY DEF TypeOK
  <2> QED BY <2>1, <2>2, <2>3, <2>4 DEF OneAtWork, AtMostOneActive, TypeOK
<1>4. ASSUME NEW e \in Execs, Die(e) PROVE LockInv'
  <2>1. exec'[e] = Idle /\ \A d \in Execs \ {e} : exec'[d] = exec[d]
    BY <1>4, ReturnMoves DEF Die
  <2>2. \A d \in Execs : exec[d].pc # "idle" => exec[d].job # None
    BY DEF TypeOK
  <2>3. UNCHANGED <<post, row, rq>>
    BY <1>4 DEF Die
  <2> QED BY <2>1, <2>2, <2>3 DEF OneAtWork, AtMostOneActive, Idle
<1>5. ASSUME NEW e \in Execs, Stall(e) PROVE FALSE
  BY <1>5 DEF Disturb
<1> QED BY <1>1, <1>2, <1>3, <1>4, <1>5 DEF Fault

LEMMA StepLock == ASSUME ~Disturb, LockInv, [Next]_vars PROVE LockInv'
<1>1. TypeOK'
  BY StepType DEF LockInv
<1>2. CASE UNCHANGED vars
  BY <1>1, <1>2 DEF vars, LockInv, OneAtWork, AtMostOneActive
<1> QED BY <1>1, <1>2, ExecLock, RequestLock, OtherLock DEF Next

-----------------------------------------------------------------------------
(* The files.                                                               *)

CalmInv == LockInv /\ FilesAtStage /\ AllDoneInstalled

LEMMA InitFiles == Init => CalmInv
<1> SUFFICES ASSUME Init PROVE CalmInv
  OBVIOUS
<1>1. LockInv
  BY InitLock
<1> QED BY <1>1 DEF Init, CalmInv, FilesAtStage, AtStage, AllDoneInstalled, Installed, Idle

\* Execution e, at work, touches only what is its own or not there: what the
\* others hold and what is done stays.
LEMMA StageMoves ==
    ASSUME CalmInv, LockInv', NEW e \in Execs, exec[e].pc # "idle",
           \A d \in Execs \ {e} : exec'[d] = exec[d],
           AtStage(e)', row' = row, scenario \subseteq scenario',
           \A f \in Locks : file'[f] = file[f] \/ file[f] \in {None, exec[e].job}
    PROVE  CalmInv'
<1> USE DEF CalmInv
<1>1. \A d \in Execs \ {e} : exec[d].pc = "idle" /\ exec[d].job = None
  BY WorksAlone
<1>2. \A d \in Execs : AtStage(d)'
  BY <1>1 DEF FilesAtStage, AtStage
<1>3. row[exec[e].job] \in ACTIVE
  BY WorksAlone
<1>4. AllDoneInstalled'
  BY <1>3 DEF AllDoneInstalled, Installed, ACTIVE
<1> QED BY <1>2, <1>4 DEF FilesAtStage

LEMMA ExecFiles ==
    ASSUME CalmInv, NEW e \in Execs, ExecStep(e) PROVE CalmInv'
<1> DEFINE j == exec[e].job
<1> USE DEF Working, Stages, CalmInv
<1>1. TypeOK /\ LockInv' /\ AtStage(e)
  BY ExecLock DEF LockInv, FilesAtStage
<1>2. /\ exec[e] \in ExecState /\ exec[e].installed \subseteq Files
      /\ file \in [Files -> Jobs \cup {None}] /\ Files = {"extract", "preset", "patch"}
  BY <1>1 DEF TypeOK, ExecState, Files, Locks
<1>3. ASSUME NEW pc \in Working, exec[e].pc # "idle", Goto(e, pc)
      PROVE  /\ exec'[e].pc = pc /\ exec'[e].job = j
             /\ exec'[e].installed = exec[e].installed
             /\ \A d \in Execs \ {e} : exec'[d] = exec[d]
  <2>1. /\ exec'[e] = [exec[e] EXCEPT !.pc = pc]
        /\ \A d \in Execs \ {e} : exec'[d] = exec[d]
    BY <1>1, <1>3, GotoMoves
  <2> QED BY <1>2, <2>1 DEF ExecState
<1>4. ASSUME NEW pc \in Working, NEW f \in Files, exec[e].pc # "idle", Record(e, f, pc)
      PROVE  /\ exec'[e].pc = pc /\ exec'[e].job = j
             /\ exec'[e].installed = exec[e].installed \cup {f}
             /\ \A d \in Execs \ {e} : exec'[d] = exec[d]
  <2>1. /\ exec'[e] = [pc |-> pc, job |-> exec[e].job, dead |-> exec[e].dead,
                      installed |-> exec[e].installed \cup {f}]
        /\ \A d \in Execs \ {e} : exec'[d] = exec[d]
    BY <1>1, <1>4, RecordMoves
  <2> QED BY <2>1
<1>5. CASE Claim(e)
  <2>1. /\ exec[e].pc = "claim" /\ exec'[e].pc = "check" /\ exec'[e].installed = {}
        /\ \A d \in Execs \ {e} : exec'[d] = exec[d]
        /\ row' = [row EXCEPT ![j] = "running"]
        /\ UNCHANGED <<file, scenario>>
    BY <1>1, <1>3, <1>5 DEF Claim, AtStage
  <2>2. AllDoneInstalled'
    BY <1>1, <2>1 DEF AllDoneInstalled, Installed, LockInv, TypeOK
  <2>3. \A d \in Execs : AtStage(d)'
    BY <2>1 DEF FilesAtStage, AtStage, Taken
  <2> QED BY <1>1, <2>2, <2>3 DEF FilesAtStage
<1>6. CASE ClaimRefused(e)
  BY <1>6 DEF ClaimRefused, LockInv, OneAtWork, CLAIMABLE
<1>7. CASE Check(e) \/ Calibrate(e) \/ Raise(e) \/ Timeout(e) \/ StoreError(e)
  <2>1. UNCHANGED <<file, scenario, row>> /\ exec[e].pc # "idle"
    BY <1>7 DEF Check, Calibrate, Raise, Timeout, StoreError
  <2>2. \/ Taken /\ Goto(e, "cleanup")
        \/ exec[e].pc = "check" /\ ~Taken /\ Goto(e, "extract")
        \/ exec[e].pc = "demand" /\ Goto(e, "install")
        \/ Goto(e, "cleanup")
    BY <1>7 DEF Check, Calibrate, Raise, Timeout, StoreError
  <2>3. AtStage(e)'
    BY <1>1, <1>3, <2>1, <2>2 DEF AtStage, Taken
  <2>4. \A d \in Execs \ {e} : exec'[d] = exec[d]
    BY <1>3, <2>1, <2>2
  <2> QED BY <1>1, <2>1, <2>3, <2>4, StageMoves
<1>8. CASE InstallExtract(e)
  <2>1. /\ exec[e].pc = "extract" /\ Goto(e, "extracted") /\ UNCHANGED <<row, scenario>>
        /\ file' = [file EXCEPT !["extract"] = j] /\ file["extract"] = None
        /\ file["preset"] = None
    BY <1>1, <1>8 DEF InstallExtract, Install, AtStage, Taken, Locks
  <2>2. AtStage(e)'
    BY <1>1, <1>2, <1>3, <2>1 DEF AtStage
  <2>3. /\ \A d \in Execs \ {e} : exec'[d] = exec[d]
        /\ \A f \in Locks : file'[f] = file[f] \/ file[f] \in {None, j}
    BY <1>2, <1>3, <2>1 DEF Locks
  <2> QED BY <1>1, <2>1, <2>2, <2>3, StageMoves
<1>9. CASE InstallPreset(e)
  <2>1. /\ exec[e].pc = "install" /\ Goto(e, "renamed") /\ UNCHANGED <<row, scenario>>
        /\ file' = [file EXCEPT !["preset"] = j] /\ file["preset"] = None
        /\ file["extract"] = j
    BY <1>1, <1>9 DEF InstallPreset, Install, AtStage
  <2>2. AtStage(e)'
    BY <1>1, <1>2, <1>3, <2>1 DEF AtStage
  <2>3. /\ \A d \in Execs \ {e} : exec'[d] = exec[d]
        /\ \A f \in Locks : file'[f] = file[f] \/ file[f] \in {None, j}
    BY <1>2, <1>3, <2>1 DEF Locks
  <2> QED BY <1>1, <2>1, <2>2, <2>3, StageMoves
<1>10. CASE Build(e)
  <2>1. /\ exec[e].pc = "build" /\ Goto(e, "demand") /\ UNCHANGED <<row, scenario>>
        /\ file' = [file EXCEPT !["patch"] = j] \/ file' = file
    BY <1>10 DEF Build, Install
  <2>2. AtStage(e)'
    BY <1>1, <1>2, <1>3, <2>1 DEF AtStage
  <2>3. /\ \A d \in Execs \ {e} : exec'[d] = exec[d]
        /\ \A f \in Locks : file'[f] = file[f]
    BY <1>2, <1>3, <2>1 DEF Locks
  <2> QED BY <1>1, <2>1, <2>2, <2>3, StageMoves
<1>11. CASE RecordExtract(e) \/ RecordPreset(e) \/ RegisterPatch(e)
  <2>1. UNCHANGED <<file, scenario, row>> /\ exec[e].pc # "idle"
    BY <1>11 DEF RecordExtract, RecordPreset, RegisterPatch
  <2>2. \/ exec[e].pc = "extracted" /\ Record(e, "extract", "network")
        \/ exec[e].pc = "renamed" /\ Record(e, "preset", "store")
        \/ exec[e].pc = "network" /\ file["patch"] = None /\ Record(e, "patch", "build")
        \/ exec[e].pc = "network" /\ Goto(e, "build")
        \/ exec[e].pc = "network" /\ Goto(e, "demand")
    BY <1>11 DEF RecordExtract, RecordPreset, RegisterPatch
  <2>3. AtStage(e)'
    BY <1>1, <1>2, <1>3, <1>4, <2>1, <2>2 DEF AtStage
  <2>4. \A d \in Execs \ {e} : exec'[d] = exec[d]
    BY <1>2, <1>3, <1>4, <2>1, <2>2
  <2> QED BY <1>1, <2>1, <2>3, <2>4, StageMoves
<1>12. CASE create_scenario(e)
  <2>1. /\ exec[e].pc = "store" /\ Goto(e, "report") /\ UNCHANGED <<row, file>>
        /\ scenario' = scenario \cup {j}
    BY <1>12 DEF create_scenario
  <2>2. AtStage(e)'
    BY <1>1, <1>3, <2>1 DEF AtStage
  <2> QED BY <1>1, <1>3, <2>1, <2>2, StageMoves
<1>13. CASE CleanUp(e)
  <2>1. /\ exec[e].pc = "cleanup" /\ Goto(e, "fail") /\ UNCHANGED <<row, scenario>>
        /\ \A f \in Files : file'[f] = IF f \in exec[e].installed THEN None ELSE file[f]
    BY <1>13 DEF CleanUp
  <2>2. \A f \in Files : file'[f] = file[f] \/ file[f] \in {None, j}
    BY <1>1, <2>1 DEF AtStage
  <2>3. AtStage(e)' /\ \A d \in Execs \ {e} : exec'[d] = exec[d]
    BY <1>1, <1>2, <1>3, <2>1 DEF AtStage, ExecState
  <2> QED BY <1>1, <2>1, <2>2, <2>3, StageMoves DEF Files
<1>14. CASE Succeed(e) \/ Fail(e)
  <2>1. /\ exec[e].pc # "idle" /\ exec'[e] = Idle
        /\ \A d \in Execs \ {e} : exec'[d] = exec[d]
        /\ UNCHANGED <<file, scenario>>
    BY <1>1, <1>14, ReturnMoves DEF Succeed, Fail, Return
  <2>2. \A d \in Execs : AtStage(d)'
    BY <2>1 DEF FilesAtStage, AtStage, Taken, Idle
  <2>3. \A k \in Jobs : row'[k] = "done" => row[k] = "done" \/ (k = j /\ exec[e].pc = "report")
    BY <1>14 DEF Succeed, Fail, LockInv, TypeOK
  <2>4. AllDoneInstalled'
    BY <1>1, <2>1, <2>3 DEF AllDoneInstalled, Installed, AtStage, Locks
  <2> QED BY <1>1, <2>2, <2>4 DEF FilesAtStage
<1> QED BY <1>5, <1>6, <1>7, <1>8, <1>9, <1>10, <1>11, <1>12, <1>13, <1>14 DEF ExecStep

LEMMA OtherFiles ==
    ASSUME CalmInv, LockInv',
           \/ \E j \in Jobs : Request(j) \/ Operator(j) \/ Reap(j)
           \/ \E e \in Execs, j \in Jobs : Take(e, j)
           \/ \E e \in Execs : Die(e)
    PROVE  CalmInv'
<1> USE DEF CalmInv
<1>1. ASSUME NEW j \in Jobs, DeleteLeftovers(j) PROVE CalmInv'
  <2>1. \A e \in Execs : exec[e].pc = "idle"
    <3>1. ASSUME NEW e \in Execs, exec[e].pc # "idle" PROVE FALSE
      BY <1>1, <3>1, WorksAlone DEF DeleteLeftovers
    <3> QED BY <3>1
  <2>2. \A f \in Files : file'[f] = file[f] \/ file[f] = j
    BY <1>1 DEF DeleteLeftovers
  <2>3. UNCHANGED <<row, scenario, exec>> /\ row[j] = "failed"
    BY <1>1 DEF DeleteLeftovers
  <2>4. FilesAtStage'
    BY <2>1, <2>3 DEF FilesAtStage, AtStage
  <2>5. AllDoneInstalled'
    BY <2>2, <2>3 DEF AllDoneInstalled, Installed, Files
  <2> QED BY <2>4, <2>5
<1>2. ASSUME NEW j \in Jobs, Request(j) \/ Requeue(j) \/ Reap(j) PROVE CalmInv'
  <2>1. UNCHANGED <<file, scenario, exec>>
    BY <1>2 DEF Request, CheckFiles, create_corridor, CorridorNameTaken, Requeue, Reap
  <2>2. \A k \in Jobs : row'[k] = "done" => row[k] = "done"
    BY <1>2 DEF Request, CheckFiles, create_corridor, CorridorNameTaken, Requeue, Reap, fail_active,
                LockInv, TypeOK
  <2> QED BY <2>1, <2>2 DEF FilesAtStage, AtStage, AllDoneInstalled, Installed, Taken
<1>3. ASSUME NEW e \in Execs, NEW j \in Jobs, Take(e, j) PROVE CalmInv'
  <2>1. /\ exec'[e] = [pc |-> "claim", job |-> j, installed |-> {}, dead |-> FALSE]
        /\ \A d \in Execs \ {e} : exec'[d] = exec[d]
        /\ UNCHANGED <<file, scenario, row>>
    BY <1>3, TakeMoves DEF Take, LockInv
  <2> QED BY <2>1 DEF FilesAtStage, AtStage, AllDoneInstalled, Installed, Taken
<1>4. ASSUME NEW e \in Execs, Die(e) PROVE CalmInv'
  <2>1. /\ exec'[e] = Idle /\ \A d \in Execs \ {e} : exec'[d] = exec[d]
        /\ UNCHANGED <<file, scenario, row>>
    BY <1>4, ReturnMoves DEF Die, LockInv
  <2> QED BY <2>1 DEF FilesAtStage, AtStage, AllDoneInstalled, Installed, Taken, Idle
<1> QED BY <1>1, <1>2, <1>3, <1>4 DEF Operator

LEMMA StepFiles == ASSUME ~Disturb, CalmInv, [Next]_vars PROVE CalmInv'
<1>1. LockInv'
  BY StepLock DEF CalmInv
<1>2. CASE UNCHANGED vars
  BY <1>1, <1>2 DEF vars, CalmInv, FilesAtStage, AtStage, AllDoneInstalled, Installed, Taken
<1>3. ASSUME NEW e \in Execs, Stall(e) PROVE FALSE
  BY <1>3 DEF Disturb
<1> QED BY <1>1, <1>2, <1>3, ExecFiles, OtherFiles DEF Next, Fault

-----------------------------------------------------------------------------
(* What a failure leaves.                                                   *)

LEMMA InitNothing == Init => NothingLeft
BY DEF Init, NothingLeft, Idle, Leaves, Files, Locks

\* Execution e, at work for job j, writes only its own job's bytes.
LEMMA OthersLeft ==
    ASSUME CalmInv, CalmInv', NothingLeft, NEW e \in Execs, NEW j \in Jobs,
           exec[e].pc # "idle", exec[e].job = j,
           \A d \in Execs \ {e} : exec'[d] = exec[d],
           \A f \in Locks : file'[f] = file[f] \/ file'[f] \in {None, j},
           \A k \in Jobs \ {j} : row'[k] = row[k],
           killed \subseteq killed',
           \/ exec'[e].job = j /\ (j \notin killed => Recorded(e)')
           \/ exec'[e] = Idle /\ (row'[j] = "done" \/ j \in killed' \/ ~Leaves(j)')
    PROVE  NothingLeft'
<1>1. \A d \in Execs \ {e} : exec[d].pc = "idle" /\ exec[d].job = None
  BY WorksAlone DEF CalmInv
<1>2. ASSUME NEW d \in Execs, exec'[d].pc # "idle", exec'[d].job \notin killed'
      PROVE  Recorded(d)'
  BY <1>1, <1>2 DEF Idle
<1>3. ASSUME NEW k \in Jobs, row'[k] # "done", k \notin killed', \A d \in Execs : exec'[d].job # k
      PROVE  ~Leaves(k)'
  <2>1. CASE k = j
    BY <1>3, <2>1
  <2>2. CASE k # j
    <3>1. ~Leaves(k)
      BY <1>3, <2>2 DEF NothingLeft
    <3> QED BY <2>2, <3>1 DEF Leaves
  <2> QED BY <2>1, <2>2
<1> QED BY <1>2, <1>3 DEF NothingLeft

LEMMA ExecLeaves ==
    ASSUME CalmInv, CalmInv', NothingLeft, NEW e \in Execs, ExecStep(e), ~Timeout(e)
    PROVE  NothingLeft'
<1> USE DEF Working, Stages
<1>1. TypeOK /\ AtStage(e)
  BY DEF CalmInv, LockInv, FilesAtStage
<1>2. exec[e].pc # "idle"
  BY DEF ExecStep, Claim, ClaimRefused, Check, InstallExtract, RecordExtract, RegisterPatch,
         Build, Calibrate, InstallPreset, RecordPreset, create_scenario, Succeed, Raise,
         Timeout, StoreError, CleanUp, Fail
<1> PICK j \in Jobs : exec[e].job = j
  BY <1>2, WorksAlone DEF CalmInv
<1> PICK held : exec[e].installed = held
  OBVIOUS
<1>3. /\ exec[e] \in ExecState /\ file \in [Files -> Jobs \cup {None}]
      /\ row \in [Jobs -> ACTIVE \cup SETTLED \cup {"absent"}]
      /\ Files = {"extract", "preset", "patch"} /\ Locks = {"extract", "preset"}
  BY <1>1 DEF TypeOK, Files, Locks
<1>4. j \notin killed => Recorded(e)
  BY <1>2 DEF NothingLeft
<1>5. ASSUME NEW pc \in Working, Goto(e, pc)
      PROVE  /\ exec'[e].pc = pc /\ exec'[e].job = j /\ exec'[e].installed = held
             /\ \A d \in Execs \ {e} : exec'[d] = exec[d]
  <2>1. /\ exec'[e] = [exec[e] EXCEPT !.pc = pc]
        /\ \A d \in Execs \ {e} : exec'[d] = exec[d]
    BY <1>1, <1>2, <1>5, GotoMoves
  <2> QED BY <1>3, <2>1 DEF ExecState
<1>6. ASSUME NEW pc \in Working, NEW f \in Files, Record(e, f, pc)
      PROVE  /\ exec'[e].pc = pc /\ exec'[e].job = j /\ exec'[e].installed = held \cup {f}
             /\ \A d \in Execs \ {e} : exec'[d] = exec[d]
  <2>1. /\ exec'[e] = [pc |-> pc, job |-> exec[e].job, dead |-> exec[e].dead,
                      installed |-> exec[e].installed \cup {f}]
        /\ \A d \in Execs \ {e} : exec'[d] = exec[d]
    BY <1>1, <1>2, <1>6, RecordMoves
  <2> QED BY <2>1
<1>7. CASE Claim(e) \/ Check(e) \/ Calibrate(e) \/ Raise(e) \/ StoreError(e) \/ create_scenario(e)
  <2>1. UNCHANGED <<file, killed>> /\ \A k \in Jobs \ {j} : row'[k] = row[k]
    BY <1>3, <1>7 DEF Claim, Check, Calibrate, Raise, StoreError, create_scenario
  <2>2. \/ exec[e].pc = "claim" /\ Goto(e, "check")
        \/ exec[e].pc = "check" /\ Goto(e, "extract")
        \/ exec[e].pc = "demand" /\ Goto(e, "install")
        \/ exec[e].pc = "store" /\ Goto(e, "report")
        \/ exec[e].pc \notin {"extracted", "renamed"} /\ Goto(e, "cleanup")
    BY <1>7 DEF Claim, Check, Calibrate, Raise, StoreError, create_scenario
  <2>3. j \notin killed => Recorded(e)'
    BY <1>4, <1>5, <2>1, <2>2 DEF Recorded, Leaves
  <2>4. exec'[e].job = j /\ \A d \in Execs \ {e} : exec'[d] = exec[d]
    BY <1>5, <2>2
  <2> QED BY <1>2, <2>1, <2>3, <2>4, OthersLeft
<1>8. CASE InstallExtract(e)
  <2>1. /\ Goto(e, "extracted") /\ UNCHANGED <<row, killed>>
        /\ \A f \in Locks : file'[f] = file[f] \/ file'[f] = j
    BY <1>3, <1>8 DEF InstallExtract, Install
  <2>2. Recorded(e)'
    BY <1>5, <2>1 DEF Recorded
  <2> QED BY <1>2, <1>5, <2>1, <2>2, OthersLeft
<1>9. CASE InstallPreset(e)
  <2>1. /\ exec[e].pc = "install" /\ Goto(e, "renamed") /\ UNCHANGED <<row, killed>>
        /\ \A f \in Locks : file'[f] = file[f] \/ file'[f] = j
    BY <1>3, <1>9 DEF InstallPreset, Install
  <2>2. file["extract"] = j
    BY <1>1, <2>1 DEF AtStage
  <2>3. j \notin killed => Recorded(e)'
    BY <1>3, <1>4, <1>5, <2>1, <2>2 DEF Recorded
  <2> QED BY <1>2, <1>5, <2>1, <2>3, OthersLeft
<1>10. CASE RecordExtract(e) \/ RecordPreset(e) \/ RegisterPatch(e)
  <2>1. UNCHANGED <<file, row, killed>>
    BY <1>10 DEF RecordExtract, RecordPreset, RegisterPatch
  <2>2. \/ exec[e].pc = "extracted" /\ file["preset"] = None /\ Record(e, "extract", "network")
        \/ exec[e].pc = "renamed" /\ Record(e, "preset", "store")
        \/ exec[e].pc = "network" /\ Record(e, "patch", "build")
        \/ exec[e].pc = "network" /\ Goto(e, "build")
        \/ exec[e].pc = "network" /\ Goto(e, "demand")
    BY <1>1, <1>10 DEF RecordExtract, RecordPreset, RegisterPatch, AtStage
  <2>3. j \notin killed => Recorded(e)'
    BY <1>3, <1>4, <1>5, <1>6, <2>1, <2>2 DEF Recorded
  <2>4. exec'[e].job = j /\ \A d \in Execs \ {e} : exec'[d] = exec[d]
    BY <1>3, <1>5, <1>6, <2>2
  <2> QED BY <1>2, <2>1, <2>3, <2>4, OthersLeft
<1>11. CASE Build(e)
  <2>1. /\ exec[e].pc = "build" /\ Goto(e, "demand") /\ UNCHANGED <<row, killed>>
        /\ \A f \in Locks : file'[f] = file[f]
    BY <1>3, <1>11 DEF Build, Install
  <2>2. j \notin killed => Recorded(e)'
    BY <1>4, <1>5, <2>1 DEF Recorded
  <2> QED BY <1>2, <1>5, <2>1, <2>2, OthersLeft
<1>12. CASE CleanUp(e)
  <2>1. /\ exec[e].pc = "cleanup" /\ Goto(e, "fail") /\ UNCHANGED <<row, killed>>
        /\ \A f \in Locks : file'[f] = IF f \in held THEN None ELSE file[f]
    BY <1>3, <1>12 DEF CleanUp
  <2>2. j \notin killed => Recorded(e)'
    BY <1>4, <1>5, <2>1 DEF Recorded, Leaves
  <2> QED BY <1>2, <1>5, <2>1, <2>2, OthersLeft
<1>13. CASE Succeed(e) \/ Fail(e)
  <2>1. /\ exec'[e] = Idle /\ \A d \in Execs \ {e} : exec'[d] = exec[d]
        /\ UNCHANGED <<file, killed>>
    BY <1>1, <1>13, ReturnMoves DEF Succeed, Fail, Return
  <2>2. row'[j] = "done" \/ exec[e].pc = "fail"
    BY <1>3, <1>13 DEF Succeed, Fail
  <2>3. row'[j] = "done" \/ j \in killed' \/ ~Leaves(j)'
    BY <1>4, <2>1, <2>2 DEF Recorded, Leaves
  <2>4. \A k \in Jobs \ {j} : row'[k] = row[k]
    BY <1>3, <1>13 DEF Succeed, Fail
  <2> QED BY <1>2, <2>1, <2>3, <2>4, OthersLeft
<1>14. CASE ClaimRefused(e)
  BY <1>14 DEF ClaimRefused, CalmInv, LockInv, OneAtWork, CLAIMABLE
<1> QED BY <1>7, <1>8, <1>9, <1>10, <1>11, <1>12, <1>13, <1>14 DEF ExecStep

LEMMA StepLeaves ==
    ASSUME CalmInv, CalmInv', NothingLeft, [Next]_vars, ~Disturb, \A e \in Execs : ~Timeout(e)
    PROVE  NothingLeft'
<1>0. TypeOK
  BY DEF CalmInv, LockInv
<1>1. CASE UNCHANGED vars
  BY <1>1 DEF vars, NothingLeft, Recorded, Leaves
<1>2. ASSUME NEW j \in Jobs, Request(j) \/ Reap(j) PROVE NothingLeft'
  <2>1. UNCHANGED <<file, exec, killed>> /\ \A k \in Jobs : row'[k] # "done" => row[k] # "done"
    BY <1>0, <1>2 DEF Request, CheckFiles, create_corridor, CorridorNameTaken, Reap, fail_active,
                      TypeOK, ACTIVE, CalmInv, LockInv, OneAtWork
  <2> QED BY <2>1 DEF NothingLeft, Recorded, Leaves
<1>3. ASSUME NEW j \in Jobs, Requeue(j) PROVE FALSE
  BY <1>3 DEF Disturb
<1>4. ASSUME NEW j \in Jobs, DeleteLeftovers(j) PROVE NothingLeft'
  <2>1. \A e \in Execs : exec[e].pc = "idle"
    <3>1. ASSUME NEW e \in Execs, exec[e].pc # "idle" PROVE FALSE
      BY <1>4, <3>1, WorksAlone DEF DeleteLeftovers, CalmInv
    <3> QED BY <3>1
  <2>2. \A f \in Locks : file'[f] = file[f] \/ file'[f] = None
    BY <1>4 DEF DeleteLeftovers, Files
  <2>3. UNCHANGED <<row, killed, exec>>
    BY <1>4 DEF DeleteLeftovers
  <2> QED BY <2>1, <2>2, <2>3 DEF NothingLeft, Leaves
<1>5. ASSUME NEW e \in Execs, NEW j \in Jobs, Take(e, j) PROVE NothingLeft'
  <2>1. /\ exec'[e] = [pc |-> "claim", job |-> j, installed |-> {}, dead |-> FALSE]
        /\ \A d \in Execs \ {e} : exec'[d] = exec[d]
        /\ UNCHANGED <<file, row, killed>> /\ rq[j] = "queued" /\ exec[e].pc = "idle"
    BY <1>0, <1>5, TakeMoves DEF Take
  <2>2. row[j] # "done" /\ \A d \in Execs : exec[d].job # j
    BY <1>0, <2>1 DEF CalmInv, LockInv, OneAtWork, TypeOK
  <2>3. j \notin killed => Recorded(e)'
    BY <2>1, <2>2 DEF NothingLeft, Recorded, Leaves
  <2>4. ASSUME NEW d \in Execs \ {e}, exec'[d].pc # "idle", exec'[d].job \notin killed'
        PROVE  Recorded(d)'
    BY <2>1, <2>4 DEF NothingLeft, Recorded, Leaves
  <2>5. exec[e].job = None
    BY <1>0, <2>1 DEF TypeOK
  <2>6. ASSUME NEW k \in Jobs, row'[k] # "done", k \notin killed',
               \A d \in Execs : exec'[d].job # k
        PROVE  ~Leaves(k)'
    BY <2>1, <2>5, <2>6 DEF NothingLeft, Leaves
  <2> QED BY <2>1, <2>3, <2>4, <2>6 DEF NothingLeft
<1>6. ASSUME NEW e \in Execs, Die(e) PROVE NothingLeft'
  <2> PICK j \in Jobs : exec[e].job = j
    BY <1>6, WorksAlone DEF Die, CalmInv
  <2>1. /\ exec'[e] = Idle /\ \A d \in Execs \ {e} : exec'[d] = exec[d]
        /\ UNCHANGED <<file, row>> /\ killed' = killed \cup {j} /\ exec[e].pc # "idle"
    BY <1>0, <1>6, ReturnMoves DEF Die
  <2> QED BY <2>1, OthersLeft
<1>7. ASSUME NEW e \in Execs, Stall(e) PROVE FALSE
  BY <1>7 DEF Disturb
<1> QED BY <1>1, <1>2, <1>3, <1>4, <1>5, <1>6, <1>7, ExecLeaves DEF Next, Operator, Fault

-----------------------------------------------------------------------------
(* Until something disturbs it, all of it holds.                            *)

\* What disturbs the lock is counted for good.
LEMMA StaysCalm ==
    ASSUME TypeOK, [Next]_vars
    PROVE  (Undisturbed' => Undisturbed /\ ~Disturb) /\ (Kept' => Kept)
<1>1. CASE Disturb
  BY <1>1 DEF Disturb, Stall, Requeue, Spend, Undisturbed, Kept, TypeOK, Usage
<1>2. CASE ~Disturb
  <2>1. used' = used \/ \E what \in {"deaths", "timeouts", "storeErrors"} : Spend(what)
    BY <1>2 DEF Disturb, Next, vars, Request, CheckFiles, create_corridor, CorridorNameTaken,
                Operator, DeleteLeftovers, Reap, Take, Fault, Die, ExecStep, Claim, ClaimRefused,
                Check, InstallExtract, RecordExtract, RegisterPatch, Build, Calibrate,
                InstallPreset, RecordPreset, create_scenario, Succeed, Raise, Timeout, StoreError,
                CleanUp, Fail
  <2> QED BY <1>2, <2>1 DEF Spend, Undisturbed, Kept, TypeOK, Usage
<1> QED BY <1>1, <1>2

LEMMA StepCorridor == CorridorInv /\ [Next]_vars => CorridorInv'
<1> SUFFICES ASSUME CorridorInv, [Next]_vars PROVE CorridorInv'
  OBVIOUS
<1> USE DEF CorridorInv
<1>1. TypeOK'
  BY StepType
<1>2. Undisturbed' => CalmInv /\ CalmInv'
  BY StaysCalm, StepFiles DEF CalmInv, LockInv
<1>3. Kept' => Undisturbed' /\ \A e \in Execs : ~Timeout(e)
  BY DEF Timeout, Spend, Kept, TypeOK, Usage
<1>4. Kept' => NothingLeft'
  BY <1>2, <1>3, StaysCalm, StepLeaves DEF Kept
<1> QED BY <1>1, <1>2, <1>4 DEF CalmInv, LockInv

LEMMA CorridorKept == Spec => []CorridorInv
<1>1. Init => CorridorInv
  BY InitFiles, InitNothing DEF CorridorInv, CalmInv, LockInv
<1> QED BY <1>1, StepCorridor, PTL DEF Spec

\* The name lock of create_corridor is enough, whatever is killed: until an
\* execution is given up alive or a failed job is requeued, two onboardings of one
\* name are never under way together.
THEOREM NameIsLocked == Spec => [](Undisturbed => AtMostOneActive)
<1>1. CorridorInv => (Undisturbed => AtMostOneActive)
  BY DEF CorridorInv
<1> QED BY CorridorKept, <1>1, PTL

\* Under the same condition a corridor reported done is the one at the two paths.
THEOREM DoneStaysInstalled == Spec => []DoneIsInstalled
<1>1. CorridorInv => DoneIsInstalled
  BY DEF CorridorInv, DoneIsInstalled
<1> QED BY CorridorKept, <1>1, PTL

\* As long as no timeout falls between a rename and its record either, a failed
\* onboarding that was not killed leaves nothing at the two locked paths.
THEOREM FailuresFreeNames == Spec => []FailureFreesTheName
<1>1. CorridorInv => FailureFreesTheName
  BY DEF CorridorInv, FailureFreesTheName, NothingLeft
<1> QED BY CorridorKept, <1>1, PTL

\* Under the condition of the lock a clean-up removes only what its own job wrote.
THEOREM CleanUpIsOwn == Spec => CleanUpKeepsOthers
<1>1. ASSUME CorridorInv, Undisturbed, [Next]_vars,
             NEW f \in Files, file[f] # None, file'[f] = None
      PROVE  OwnFile(f)
  <2>0. TypeOK
    BY <1>1 DEF CorridorInv
  <2>1. ASSUME NEW e \in Execs, CleanUp(e) PROVE OwnFile(f)
    BY <1>1, <2>1 DEF CleanUp, CorridorInv, FilesAtStage, AtStage, OwnFile
  <2>2. ASSUME NEW j \in Jobs, DeleteLeftovers(j) PROVE OwnFile(f)
    BY <1>1, <2>2 DEF DeleteLeftovers, OwnFile
  <2>3. ASSUME NEW e \in Execs, InstallExtract(e) \/ InstallPreset(e) \/ Build(e) PROVE FALSE
    <3>1. exec[e].job # None
      BY <2>0, <2>3 DEF TypeOK, InstallExtract, InstallPreset, Build
    <3> QED BY <1>1, <2>0, <2>3, <3>1 DEF InstallExtract, InstallPreset, Build, Install, TypeOK
  <2>4. file' # file
    BY <1>1
  <2> QED BY <1>1, <2>1, <2>2, <2>3, <2>4
          DEF Next, vars, Request, CheckFiles, create_corridor, CorridorNameTaken, Operator, Requeue,
              Reap, Take, Fault, Die, Stall, ExecStep, Claim, ClaimRefused, Check, RecordExtract,
              RegisterPatch, Calibrate, RecordPreset, create_scenario, Succeed, Raise, Timeout,
              StoreError, Fail
<1>2. CorridorInv /\ [Next]_vars => [Undisturbed => OnlyOwnRemoved]_vars
  BY <1>1 DEF OnlyOwnRemoved
<1> QED BY CorridorKept, <1>2, PTL DEF Spec, CleanUpKeepsOthers

-----------------------------------------------------------------------------
(* The name as the API grants it.                                           *)

\* Only the request that finds nobody active, the report of done and the verdicts
\* of failure move the name; the last two only from the one that holds it.
LEMMA RowMoves ==
    ASSUME CalmInv, [Next]_vars, ~Disturb, row' # row
    PROVE  \E j \in Jobs :
             /\ \A k \in Jobs \ {j} : row'[k] = row[k]
             /\ \/ row[j] = "absent" /\ row'[j] = "queued" /\ \A k \in Jobs : row[k] \notin ACTIVE
                \/ row[j] = "queued" /\ row'[j] = "running"
                \/ row[j] = "running" /\ row'[j] = "done" /\ file["preset"] = j
                \/ row[j] \in ACTIVE /\ row'[j] = "failed"
<1> USE DEF CalmInv, LockInv
<1>0. row \in [Jobs -> ACTIVE \cup SETTLED \cup {"absent"}]
  BY DEF TypeOK
<1>1. ASSUME NEW j \in Jobs, create_corridor(j)
      PROVE  /\ row[j] = "absent" /\ row'[j] = "queued" /\ \A k \in Jobs : row[k] \notin ACTIVE
             /\ \A k \in Jobs \ {j} : row'[k] = row[k]
  BY <1>0, <1>1 DEF create_corridor, OneAtWork
<1>2. ASSUME NEW j \in Jobs, Reap(j)
      PROVE  /\ row[j] \in ACTIVE /\ row'[j] = "failed"
             /\ \A k \in Jobs \ {j} : row'[k] = row[k]
  BY <1>0, <1>2 DEF Reap, fail_active
<1>3. ASSUME NEW e \in Execs, Claim(e) \/ Succeed(e) \/ Fail(e)
      PROVE  LET j == exec[e].job IN
             /\ j \in Jobs /\ \A k \in Jobs \ {j} : row'[k] = row[k]
             /\ \/ row[j] = "queued" /\ row'[j] = "running"
                \/ row[j] = "running" /\ row'[j] = "done" /\ file["preset"] = j
                \/ row[j] \in ACTIVE /\ row'[j] = "failed"
  <2>1. exec[e].job \in Jobs
    BY <1>3, WorksAlone DEF Claim, Succeed, Fail
  <2>2. CASE Claim(e)
    BY <1>0, <2>1, <2>2 DEF Claim, OneAtWork
  <2>3. CASE Succeed(e)
    BY <1>0, <2>1, <2>3 DEF Succeed, OneAtWork, FilesAtStage, AtStage
  <2>4. CASE Fail(e)
    BY <1>0, <2>1, <2>4 DEF Fail, OneAtWork, ACTIVE
  <2> QED BY <1>3, <2>2, <2>3, <2>4
<1>4. \/ \E j \in Jobs : create_corridor(j) \/ Reap(j)
      \/ \E e \in Execs : Claim(e) \/ Succeed(e) \/ Fail(e)
  BY DEF Next, vars, Request, CheckFiles, CorridorNameTaken, Operator, Requeue, DeleteLeftovers,
         Take, Fault, Die, Stall, Disturb, ExecStep, ClaimRefused, Check, InstallExtract,
         RecordExtract, RegisterPatch, Build, Calibrate, InstallPreset, RecordPreset,
         create_scenario, Raise, Timeout, StoreError, CleanUp
<1> QED BY <1>1, <1>2, <1>3, <1>4

LEMMA RegistryStep ==
    ASSUME CalmInv, [Next]_vars, ~Disturb PROVE [Registry!Next]_<<Holding, Done>>
<1>1. CASE row' = row
  BY <1>1 DEF Holding, Done
<1>2. CASE row' # row
  <2>1. PICK j \in Jobs :
             /\ \A k \in Jobs \ {j} : row'[k] = row[k]
             /\ \/ row[j] = "absent" /\ row'[j] = "queued" /\ \A k \in Jobs : row[k] \notin ACTIVE
                \/ row[j] = "queued" /\ row'[j] = "running"
                \/ row[j] = "running" /\ row'[j] = "done" /\ file["preset"] = j
                \/ row[j] \in ACTIVE /\ row'[j] = "failed"
    BY <1>2, RowMoves
  <2>2. \A k \in Jobs : row[j] \in ACTIVE /\ row[k] \in ACTIVE => k = j
    BY DEF CalmInv, LockInv, AtMostOneActive
  <2>3. \A k \in Jobs : row[k] = "done" => file["preset"] = k
    BY DEF CalmInv, AllDoneInstalled, Installed, Locks
  <2>4. CASE row[j] = "absent" /\ row'[j] = "queued" /\ \A k \in Jobs : row[k] \notin ACTIVE
    <3>1. Registry!Acquire(j)
      BY <2>1, <2>4 DEF Registry!Acquire, Holding, Done, ACTIVE
    <3> QED BY <3>1 DEF Registry!Next
  <2>5. CASE row[j] = "queued" /\ row'[j] = "running"
    BY <2>1, <2>5 DEF Holding, Done, ACTIVE
  <2>6. CASE row[j] = "running" /\ row'[j] = "done" /\ file["preset"] = j
    <3>1. Registry!Install(j)
      BY <2>1, <2>2, <2>3, <2>6 DEF Registry!Install, Holding, Done, ACTIVE
    <3> QED BY <3>1 DEF Registry!Next
  <2>7. CASE row[j] \in ACTIVE /\ row'[j] = "failed"
    <3>1. Registry!GiveUp(j)
      BY <2>1, <2>2, <2>7 DEF Registry!GiveUp, Holding, Done, ACTIVE
    <3> QED BY <3>1 DEF Registry!Next
  <2> QED BY <2>1, <2>4, <2>5, <2>6, <2>7
<1> QED BY <1>1, <1>2

\* Lock, looks and jobs together keep NameRegistry's promise until an execution is
\* given up alive or a failed job is requeued.
THEOREM NameIsRegistered == Spec => RegistryKept
<1>1. Init => Registry!Init
  BY DEF Init, Registry!Init, Holding, Done, ACTIVE
<1>2. ASSUME CorridorInv, [Next]_vars, Undisturbed' PROVE [Registry!Next]_<<Holding, Done>>
  BY <1>2, StaysCalm, RegistryStep DEF CorridorInv, CalmInv, LockInv
<1>3. CorridorInv /\ [Next]_vars => [Undisturbed' => [Registry!Next]_<<Holding, Done>>]_vars
  BY <1>2
<1> QED BY <1>1, <1>3, CorridorKept, PTL DEF Spec, RegistryKept

\* ... so that the corridor installed under a name is there for good: no later
\* request takes it over, however the rows and the files are looked at.
InstalledForGood == [][Undisturbed' /\ Done # {} => Done' = Done]_vars

THEOREM CorridorIsForGood == Spec => InstalledForGood
<1>1. [Registry!Next]_<<Holding, Done>> => (Done # {} => Done' = Done)
  BY DEF Registry!Next, Registry!Acquire, Registry!Install, Registry!GiveUp
<1>2. [Undisturbed' => [Registry!Next]_<<Holding, Done>>]_vars
        => [Undisturbed' /\ Done # {} => Done' = Done]_vars
  BY <1>1
<1> QED BY <1>2, NameIsRegistered, PTL DEF RegistryKept, InstalledForGood

-----------------------------------------------------------------------------
(* The rows a client sees.                                                  *)

\* Rows an execution is at work on.
AtWork(e) == exec[e].pc \notin {"idle", "claim"}
busy == {exec[e].job : e \in {f \in Execs : AtWork(f)}}

Contract == INSTANCE RowContract WITH Rows <- Jobs

LEMMA InitRows == Init => RowsInv
<1>1. Init => OnePerJob
  BY DEF Init, OnePerJob, Idle
<1> QED BY <1>1, InitType DEF RowsInv

\* An execution that goes on holds its job; one that ends leaves it to no other.
LEMMA StaysAtWork ==
    ASSUME TypeOK, OnePerJob, TypeOK', NEW e \in Execs, exec[e].pc # "idle",
           exec'[e].pc \notin {"idle", "claim"}, exec'[e].job = exec[e].job,
           exec'[e].dead = exec[e].dead, \A d \in Execs \ {e} : exec'[d] = exec[d],
           UNCHANGED <<post, rq>>,
           \/ UNCHANGED row /\ exec[e].pc # "claim"
           \/ row' = [row EXCEPT ![exec[e].job] = "running"]
    PROVE  OnePerJob'
<1>1. exec[e].job \in Jobs /\ post[exec[e].job] = "answered"
  BY DEF TypeOK, ExecState, OnePerJob
<1>2. row'[exec[e].job] = "running" /\ \A j \in Jobs \ {exec[e].job} : row'[j] = row[j]
  BY <1>1 DEF TypeOK, OnePerJob
<1>3. \A d \in Execs \ {e} : exec[d].pc # "idle" =>
        exec[d].job \in Jobs /\ exec[d].job # exec[e].job
  BY DEF TypeOK, ExecState, OnePerJob
<1> QED BY <1>1, <1>2, <1>3 DEF OnePerJob

LEMMA WorkIsOver ==
    ASSUME TypeOK, OnePerJob, TypeOK', NEW e \in Execs, exec[e].pc # "idle", exec'[e] = Idle,
           \A d \in Execs \ {e} : exec'[d] = exec[d], UNCHANGED post,
           \A j \in Jobs \ {exec[e].job} : row'[j] = row[j] /\ rq'[j] = rq[j]
    PROVE  OnePerJob'
<1>1. exec[e].job \in Jobs /\ post[exec[e].job] = "answered"
  BY DEF TypeOK, ExecState, OnePerJob
<1>2. \A d \in Execs \ {e} : exec[d].pc # "idle" =>
        exec[d].job \in Jobs /\ exec[d].job # exec[e].job
  BY DEF TypeOK, ExecState, OnePerJob
<1>3. \A d \in Execs : exec'[d].pc # "idle" => d # e /\ exec'[d] = exec[d]
  BY DEF Idle
<1>4. \A d \in Execs : exec'[d].job = None <=> exec'[d].pc = "idle"
  BY DEF TypeOK
<1> QED BY <1>1, <1>2, <1>3, <1>4 DEF OnePerJob

LEMMA ExecRows ==
    ASSUME TypeOK, OnePerJob, TypeOK', NEW e \in Execs, ExecStep(e)
    PROVE  OnePerJob' /\ [Contract!Next]_<<row, busy>>
<1> USE DEF Working, Stages
<1> DEFINE j == exec[e].job
<1>0. exec[e].pc # "idle"
  BY DEF ExecStep, Claim, ClaimRefused, Check, InstallExtract, RecordExtract, RegisterPatch,
         Build, Calibrate, InstallPreset, RecordPreset, create_scenario, Succeed, Raise, Timeout,
         StoreError, CleanUp, Fail
<1>1. /\ exec[e] \in ExecState /\ j \in Jobs /\ ~exec[e].dead
      /\ \A d \in Execs \ {e} : exec[d].job # j
  BY <1>0 DEF TypeOK, OnePerJob, ExecState
<1>2. CASE Claim(e)
  <2>1. /\ exec'[e] = [exec[e] EXCEPT !.pc = "check"]
        /\ \A d \in Execs \ {e} : exec'[d] = exec[d]
    BY <1>0, <1>2, GotoMoves DEF Claim
  <2>2. exec'[e].pc = "check" /\ exec'[e].job = j /\ exec'[e].dead = exec[e].dead
    BY <1>1, <2>1 DEF ExecState
  <2>3. OnePerJob'
    BY <1>0, <1>2, <2>1, <2>2, StaysAtWork DEF Claim
  <2>4. j \notin busy /\ busy' = busy \cup {j}
    <3>1. ~AtWork(e) /\ AtWork(e)' /\ exec'[e].job = j
      BY <1>2, <2>2 DEF Claim, AtWork
    <3>2. \A d \in Execs \ {e} : (AtWork(d)' <=> AtWork(d)) /\ exec'[d].job = exec[d].job
      BY <2>1 DEF AtWork
    <3> HIDE DEF AtWork
    <3> QED BY <1>1, <3>1, <3>2 DEF busy
  <2>5. Contract!Take(j)
    BY <1>2, <2>4 DEF Claim, CLAIMABLE, Contract!Take, Contract!Becomes
  <2> QED BY <1>1, <2>3, <2>5 DEF Contract!Next
<1>3. CASE Succeed(e) \/ Fail(e)
  <2>1. exec'[e] = Idle /\ \A d \in Execs \ {e} : exec'[d] = exec[d]
    BY <1>3, ReturnMoves DEF Succeed, Fail, Return
  <2>2. /\ row' = [row EXCEPT ![j] = "done"] \/ row' = [row EXCEPT ![j] = "failed"]
        /\ rq' = [rq EXCEPT ![j] = "finished"] /\ UNCHANGED post
        /\ AtWork(e)
    BY <1>1, <1>3 DEF Succeed, Fail, Return, AtWork
  <2>3. OnePerJob'
    BY <1>0, <1>1, <2>1, <2>2, WorkIsOver DEF TypeOK
  <2>4. j \in busy /\ busy' = busy \ {j}
    BY <1>1, <2>1, <2>2 DEF busy, AtWork, Idle
  <2>5. Contract!Report(j)
    BY <2>2, <2>4 DEF Contract!Report, Contract!Becomes
  <2> QED BY <1>1, <2>3, <2>5 DEF Contract!Next
<1>4. CASE ClaimRefused(e)
  <2>1. exec'[e] = Idle /\ \A d \in Execs \ {e} : exec'[d] = exec[d]
    BY <1>4, ReturnMoves DEF ClaimRefused, Return
  <2>2. rq' = [rq EXCEPT ![j] = "finished"] /\ UNCHANGED <<post, row>> /\ ~AtWork(e)
    BY <1>1, <1>4 DEF ClaimRefused, Return, AtWork
  <2>3. OnePerJob'
    BY <1>0, <1>1, <2>1, <2>2, WorkIsOver DEF TypeOK
  <2>4. busy' = busy
    BY <1>1, <2>1, <2>2 DEF busy, AtWork, Idle
  <2> QED BY <2>2, <2>3, <2>4
<1>5. ASSUME AtWork(e), UNCHANGED <<post, row, rq>>,
             exec'[e].pc \in Working \ {"claim"}, exec'[e].job = j,
             exec'[e].dead = exec[e].dead, \A d \in Execs \ {e} : exec'[d] = exec[d]
      PROVE  OnePerJob' /\ [Contract!Next]_<<row, busy>>
  <2>1. OnePerJob'
    BY <1>0, <1>5, StaysAtWork DEF AtWork
  <2>2. AtWork(e)' /\ \A d \in Execs : (AtWork(d)' <=> AtWork(d)) /\ exec'[d].job = exec[d].job
    BY <1>5 DEF AtWork
  <2>3. busy' = busy
    BY <2>2 DEF busy
  <2> QED BY <1>5, <2>1, <2>3
<1>6. ASSUME AtWork(e), UNCHANGED <<post, row, rq>>, NEW pc \in Working \ {"claim"}, Goto(e, pc)
      PROVE  OnePerJob' /\ [Contract!Next]_<<row, busy>>
  <2>1. /\ exec'[e] = [exec[e] EXCEPT !.pc = pc]
        /\ \A d \in Execs \ {e} : exec'[d] = exec[d]
    BY <1>0, <1>6, GotoMoves
  <2>2. exec'[e].pc = pc /\ exec'[e].job = j /\ exec'[e].dead = exec[e].dead
    BY <1>1, <2>1 DEF ExecState
  <2> QED BY <1>5, <1>6, <2>1, <2>2
<1>7. ASSUME AtWork(e), UNCHANGED <<post, row, rq>>, NEW pc \in Working \ {"claim"},
             NEW f \in Files, Record(e, f, pc)
      PROVE  OnePerJob' /\ [Contract!Next]_<<row, busy>>
  <2>1. /\ exec'[e] = [pc |-> pc, job |-> exec[e].job, dead |-> exec[e].dead,
                      installed |-> exec[e].installed \cup {f}]
        /\ \A d \in Execs \ {e} : exec'[d] = exec[d]
    BY <1>0, <1>7, RecordMoves
  <2> QED BY <1>5, <1>7, <2>1
<1>8. CASE Check(e)
  BY <1>6, <1>8 DEF Check, AtWork
<1>9. CASE InstallExtract(e) \/ InstallPreset(e) \/ Build(e) \/ Calibrate(e)
  BY <1>6, <1>9 DEF InstallExtract, InstallPreset, Build, Calibrate, AtWork
<1>10. CASE RecordExtract(e) \/ RecordPreset(e) \/ RegisterPatch(e)
  BY <1>6, <1>7, <1>10 DEF RecordExtract, RecordPreset, RegisterPatch, Files, Locks, AtWork
<1>11. CASE create_scenario(e) \/ CleanUp(e)
  BY <1>6, <1>11 DEF create_scenario, CleanUp, AtWork
<1>12. CASE Raise(e) \/ Timeout(e) \/ StoreError(e)
  BY <1>6, <1>12 DEF Raise, Timeout, StoreError, AtWork
<1> QED BY <1>2, <1>3, <1>4, <1>8, <1>9, <1>10, <1>11, <1>12 DEF ExecStep

LEMMA OtherRows ==
    ASSUME TypeOK, OnePerJob, TypeOK',
           \/ \E j \in Jobs : Request(j) \/ Operator(j) \/ Reap(j)
           \/ \E e \in Execs, j \in Jobs : Take(e, j)
           \/ \E e \in Execs : Die(e)
    PROVE  OnePerJob' /\ [Contract!Next]_<<row, busy>>
<1>0. \A e \in Execs : exec[e].pc # "idle" => exec[e].job \in Jobs
  BY DEF TypeOK, ExecState
<1>1. ASSUME NEW j \in Jobs, create_corridor(j)
      PROVE  OnePerJob' /\ [Contract!Next]_<<row, busy>>
  <2>1. /\ row' = [row EXCEPT ![j] = "queued"] /\ rq' = [rq EXCEPT ![j] = "queued"]
        /\ post' = [post EXCEPT ![j] = "answered"] /\ exec' = exec /\ row[j] = "absent"
        /\ rq[j] = "missing"
    BY <1>1 DEF create_corridor, OnePerJob
  <2>2. \A e \in Execs : exec[e].pc # "idle" => exec[e].job # j
    BY <2>1 DEF OnePerJob
  <2>3. OnePerJob'
    <3>1. /\ \A k \in Jobs \ {j} : row'[k] = row[k] /\ rq'[k] = rq[k] /\ post'[k] = post[k]
          /\ post'[j] = "answered"
      BY <2>1 DEF TypeOK
    <3> QED BY <1>0, <2>1, <2>2, <3>1 DEF OnePerJob
  <2>4. row' = [k \in Jobs |-> IF k \in {j} THEN "queued" ELSE row[k]]
    BY <2>1 DEF TypeOK
  <2>5. busy' = busy
    BY <2>1 DEF busy, AtWork
  <2>6. Contract!Create({j}) /\ {j} \in SUBSET Jobs
    BY <2>1, <2>4, <2>5 DEF Contract!Create
  <2> QED BY <2>3, <2>6 DEF Contract!Next
<1>2. ASSUME NEW j \in Jobs, Reap(j) PROVE OnePerJob' /\ [Contract!Next]_<<row, busy>>
  <2>1. \A e \in Execs : exec[e].pc # "idle" => exec[e].job # j
    BY <1>2 DEF Reap, OnePerJob
  <2>2. /\ post[j] = "answered" /\ UNCHANGED <<post, exec>>
        /\ rq' = [rq EXCEPT ![j] = "failed"]
        /\ row' = IF row[j] \in ACTIVE THEN [row EXCEPT ![j] = "failed"] ELSE row
    BY <1>2 DEF Reap, OnePerJob, fail_active
  <2>3. OnePerJob'
    BY <1>0, <2>1, <2>2 DEF OnePerJob, TypeOK
  <2>4. busy' = busy
    BY <2>2 DEF busy, AtWork
  <2> QED BY <2>2, <2>3, <2>4 DEF ACTIVE, Contract!Next, Contract!GiveUp, Contract!Becomes
<1>3. ASSUME NEW e \in Execs, NEW j \in Jobs, Take(e, j)
      PROVE  OnePerJob' /\ [Contract!Next]_<<row, busy>>
  <2>1. /\ exec'[e] = [pc |-> "claim", job |-> j, installed |-> {}, dead |-> FALSE]
        /\ \A d \in Execs \ {e} : exec'[d] = exec[d]
    BY <1>3, TakeMoves
  <2>2. /\ rq[j] = "queued" /\ UNCHANGED <<post, row>> /\ exec[e].pc = "idle"
        /\ rq' = [rq EXCEPT ![j] = "started"]
    BY <1>3 DEF Take
  <2>3. \A d \in Execs : exec[d].job # j
    BY <2>2 DEF OnePerJob, TypeOK
  <2>4. OnePerJob'
    BY <1>0, <2>1, <2>2, <2>3 DEF OnePerJob, TypeOK
  <2>5. busy' = busy
    BY <2>1, <2>2 DEF busy, AtWork
  <2> QED BY <2>2, <2>4, <2>5
<1>4. ASSUME NEW e \in Execs, Die(e) PROVE OnePerJob' /\ [Contract!Next]_<<row, busy>>
  <2> DEFINE j == exec[e].job
  <2>1. exec'[e] = Idle /\ \A d \in Execs \ {e} : exec'[d] = exec[d]
    BY <1>4, ReturnMoves DEF Die
  <2>2. UNCHANGED <<post, row, rq>> /\ exec[e].pc # "idle" /\ j \in Jobs
    BY <1>0, <1>4 DEF Die
  <2>3. OnePerJob'
    BY <2>1, <2>2, WorkIsOver
  <2>4. \A d \in Execs \ {e} : exec[d].job # j
    BY <2>2 DEF OnePerJob
  <2>5. CASE AtWork(e)
    <3>1. j \in busy /\ busy' = busy \ {j}
      BY <2>1, <2>4, <2>5 DEF busy, AtWork, Idle
    <3>2. Contract!Vanish(j)
      BY <2>2, <3>1 DEF Contract!Vanish
    <3> QED BY <2>2, <2>3, <3>2 DEF Contract!Next
  <2>6. CASE ~AtWork(e)
    <3>1. busy' = busy
      BY <2>1, <2>4, <2>6 DEF busy, AtWork, Idle
    <3> QED BY <2>2, <2>3, <3>1
  <2> QED BY <2>5, <2>6
<1>5. ASSUME NEW j \in Jobs, CheckFiles(j) \/ CorridorNameTaken(j) \/ Operator(j)
      PROVE  OnePerJob' /\ [Contract!Next]_<<row, busy>>
  <2>1. UNCHANGED <<row, exec>>
    BY <1>5 DEF CheckFiles, CorridorNameTaken, Operator, Requeue, DeleteLeftovers
  <2>2. /\ \A k \in Jobs : post'[k] # "answered" => post[k] # "answered"
        /\ rq' = rq \/ (rq[j] = "failed" /\ rq' = [rq EXCEPT ![j] = "queued"])
    BY <1>5 DEF CheckFiles, CorridorNameTaken, Operator, Requeue, DeleteLeftovers, TypeOK
  <2>3. OnePerJob'
    BY <1>0, <2>1, <2>2 DEF OnePerJob, TypeOK
  <2> QED BY <2>1, <2>3 DEF busy, AtWork
<1> QED BY <1>1, <1>2, <1>3, <1>4, <1>5 DEF Request

LEMMA StepRows ==
    ASSUME RowsInv, [Next]_vars
    PROVE  RowsInv' /\ (Unstalled' => [Contract!Next]_<<row, busy>>)
<1> USE DEF RowsInv
<1>1. TypeOK'
  BY StepType
<1>2. CASE \E e \in Execs : Stall(e)
  BY <1>1, <1>2 DEF Stall, Spend, Unstalled, TypeOK, Usage
<1>3. CASE ~\E e \in Execs : Stall(e)
  <2>1. used' = used \/ \E what \in {"deaths", "timeouts", "storeErrors", "requeues"} : Spend(what)
    BY <1>3 DEF Next, vars, Request, CheckFiles, create_corridor, CorridorNameTaken,
                Operator, Requeue, DeleteLeftovers, Reap, Take, Fault, Die, ExecStep, Claim,
                ClaimRefused, Check, InstallExtract, RecordExtract, RegisterPatch, Build, Calibrate,
                InstallPreset, RecordPreset, create_scenario, Succeed, Raise, Timeout, StoreError,
                CleanUp, Fail
  <2>2. Unstalled' => Unstalled
    BY <2>1 DEF Spend, Unstalled, TypeOK, Usage
  <2>3. ASSUME Unstalled', UNCHANGED vars PROVE OnePerJob' /\ UNCHANGED <<row, busy>>
    BY <2>2, <2>3 DEF vars, OnePerJob, busy, AtWork
  <2>4. ASSUME Unstalled', Next PROVE OnePerJob' /\ [Contract!Next]_<<row, busy>>
    BY <1>1, <1>3, <2>2, <2>4, ExecRows, OtherRows DEF Next, Fault
  <2> QED BY <1>1, <2>3, <2>4
<1> QED BY <1>2, <1>3

\* Until an execution is given up alive, the corridors rows implement RowContract,
\* requeues of failed jobs included.
RowsKept == Contract!Init /\ [][Unstalled' => [Contract!Next]_<<row, busy>>]_vars

THEOREM ImplementsRowContract == Spec => RowsKept
<1>1. Init => Contract!Init
  BY DEF Init, Contract!Init, busy, AtWork, Idle
<1>2. RowsInv /\ [Next]_vars => RowsInv'
  BY StepRows
<1>3. RowsInv /\ [Next]_vars => [Unstalled' => [Contract!Next]_<<row, busy>>]_vars
  BY StepRows
<1> QED BY <1>1, <1>2, <1>3, InitRows, PTL DEF Spec, RowsKept

=============================================================================
