------------------------- MODULE SweepFanout_proofs -------------------------
(***************************************************************************)
(* Theorems about SweepFanout, for every grid, every number of executions  *)
(* and every bound.                                                        *)
(***************************************************************************)
EXTENDS SweepFanout, FiniteSetTheorems, TLAPS

USE NoneAssumption, BoundsAssumption

-----------------------------------------------------------------------------
(* The inductive invariants.                                              *)

\* Why no cell runs twice, inductively: an id an execution holds names a row, a
\* job waits only for a row that waits, and an execution about to enqueue a row
\* has seen it wait or finds its job there.
Once ==
    /\ \A e \in Execs, c \in Cells :
         exec[e].grid[c] # None => run[exec[e].grid[c]] # "absent"
    /\ \A e \in Execs : exec[e].pc \in {"dispatch", "queueing"} =>
         exec[e].grid \in [Cells -> RunIds]
    /\ \A c \in Cells : grid[c] # None => run[grid[c]] # "absent"
    /\ \A e \in Execs : exec[e].pc = "queueing" =>
         /\ exec[e].at \in Cells
         /\ \/ run[exec[e].grid[exec[e].at]] = "queued"
            \/ runJob[exec[e].grid[exec[e].at]] # "missing"
    /\ \A r \in RunIds : runJob[r] = "queued" => run[r] = "queued"
    /\ \A r \in RunIds : runJob[r] # "missing" => run[r] # "absent"
    /\ \A r \in RunIds : run[r] \in {"absent", "queued"} => ran[r] = 0

\* Why the grid and the rows agree while no live execution is given up: one
\* execution works at a time, on the grid the row holds.
Sole ==
    \A e \in Execs :
        /\ ~exec[e].dead
        /\ exec[e].pc # "idle" =>
             /\ sweepJob = "started"
             /\ exec[e].grid = grid
             /\ \A f \in Execs \ {e} : exec[f].pc = "idle"

\* The cells execution e has yet to dispatch, and the orphans of the others.
Ahead(e) == exec[e].todo \cup (IF exec[e].pc = "queueing" THEN {exec[e].at} ELSE {})
PassedBy(e) == {r \in Orphans : \A c \in Ahead(e) : exec[e].grid[c] # r}

AtMost(n, S) == IsFiniteSet(S) /\ Cardinality(S) <= n

\* Why a fan-out that is done has left no run behind, inductively: what the
\* execution at work has passed by was not waiting, or its job has been lost.
Delivered ==
    /\ \A r \in RunIds : runJob[r] \in {"started", "finished"} => run[r] # "queued"
    /\ \A e \in Execs : exec[e].pc \in {"dispatch", "queueing"} => AtMost(used.losses, PassedBy(e))
    /\ sweep = "done" =>
         sweepJob = "finished" /\ AtMost(used.losses, Orphans) /\ \A c \in Cells : grid[c] # None

FanoutInv ==
    TypeOK /\ Once /\ NoCellRunsTwice /\ (Unstalled => Sole /\ Paired /\ Delivered)

-----------------------------------------------------------------------------
(* Type correctness.                                                        *)

LEMMA InitType == Init => TypeOK
BY DEF Init, TypeOK, ACTIVE, SETTLED, Nothing, Idle, ExecState, Working

LEMMA IdleType == Idle \in ExecState
BY DEF Idle, Nothing, ExecState, Working

\* The two states Look may leave an execution in.
Found(e, c) == [Turn(e, c) EXCEPT !.pc = "queueing", !.at = c]

LEMMA LookStates ==
    ASSUME NEW e \in Execs, exec[e] \in ExecState, NEW c \in Cells
    PROVE  /\ Turn(e, c) \in ExecState /\ Found(e, c) \in ExecState
           /\ Turn(e, c).grid = exec[e].grid /\ Found(e, c).grid = exec[e].grid
           /\ Turn(e, c).dead = exec[e].dead /\ Found(e, c).dead = exec[e].dead
           /\ Turn(e, c).pc = exec[e].pc /\ Found(e, c).pc = "queueing"
           /\ Found(e, c).at = c
           /\ Turn(e, c).todo = exec[e].todo \ {c} /\ Found(e, c).todo = exec[e].todo \ {c}
<1>1. /\ Turn(e, c) \in ExecState /\ Turn(e, c).grid = exec[e].grid
      /\ Turn(e, c).dead = exec[e].dead /\ Turn(e, c).pc = exec[e].pc
      /\ Turn(e, c).todo = exec[e].todo \ {c}
  BY DEF Turn, ExecState
<1> DEFINE t == Turn(e, c)
<1>2. /\ [t EXCEPT !.pc = "queueing", !.at = c] \in ExecState
      /\ [t EXCEPT !.pc = "queueing", !.at = c].grid = t.grid
      /\ [t EXCEPT !.pc = "queueing", !.at = c].dead = t.dead
      /\ [t EXCEPT !.pc = "queueing", !.at = c].pc = "queueing"
      /\ [t EXCEPT !.pc = "queueing", !.at = c].at = c
      /\ [t EXCEPT !.pc = "queueing", !.at = c].todo = t.todo
  <2> HIDE DEF t
  <2>1. t \in ExecState => /\ [t EXCEPT !.pc = "queueing", !.at = c] \in ExecState
                           /\ [t EXCEPT !.pc = "queueing", !.at = c].grid = t.grid
                           /\ [t EXCEPT !.pc = "queueing", !.at = c].dead = t.dead
                           /\ [t EXCEPT !.pc = "queueing", !.at = c].pc = "queueing"
                           /\ [t EXCEPT !.pc = "queueing", !.at = c].at = c
                           /\ [t EXCEPT !.pc = "queueing", !.at = c].todo = t.todo
    BY DEF ExecState, Working
  <2> QED BY <1>1, <2>1 DEF t
<1> QED BY <1>1, <1>2 DEF Found

\* Look takes a cell of the loop and leaves the execution in one of them.
LEMMA LookMoves ==
    ASSUME TypeOK, NEW e \in Execs, Look(e)
    PROVE  /\ exec[e].pc = "dispatch"
           /\ \A f \in Execs \ {e} : exec'[f] = exec[f]
           /\ \E c \in Cells :
                \/ exec'[e] = Turn(e, c)
                \/ exec'[e] = Found(e, c) /\ run[exec[e].grid[c]] = "queued"
           /\ exec' \in [Execs -> ExecState]
           /\ UNCHANGED <<sweep, grid, children, sweepJob, used>>
<1>1. exec \in [Execs -> ExecState]
  BY DEF TypeOK
<1>2. PICK c \in exec[e].todo :
        exec' = IF run[exec[e].grid[c]] = "queued"
                  THEN [exec EXCEPT ![e] = Found(e, c)]
                  ELSE [exec EXCEPT ![e] = Turn(e, c)]
  BY DEF Look, Found
<1>3. exec[e] \in ExecState /\ c \in Cells
  BY <1>1, <1>2 DEF ExecState
<1>4. Turn(e, c) \in ExecState /\ Found(e, c) \in ExecState
  BY <1>3, LookStates
<1> HIDE DEF ExecState
<1> QED BY <1>1, <1>2, <1>3, <1>4 DEF Look

LEMMA ExecType ==
    ASSUME TypeOK, NEW e \in Execs, ExecStep(e) PROVE TypeOK'
<1> USE DEF TypeOK, ACTIVE, SETTLED, children
<1>1. CASE Read(e)
  <2>1. [Idle EXCEPT !.pc = "read", !.grid = grid] \in ExecState
    BY DEF Idle, Nothing, ExecState, Working
  <2> QED BY <1>1, <2>1 DEF Read
<1>2. CASE Claim(e)
  <2>0. exec[e] \in ExecState
    OBVIOUS
  <2>1. [exec[e] EXCEPT !.pc = "claimed"] \in ExecState
    BY <2>0 DEF ExecState, Working
  <2> HIDE DEF ExecState
  <2> QED BY <1>2, <2>1 DEF Claim
<1>3. CASE ClaimRefused(e)
  BY <1>3, IdleType DEF ClaimRefused, Return
<1>4. CASE CreateRuns(e)
  <2> PICK g \in FreshIds(e) :
        /\ exec' = [exec EXCEPT ![e] = WorkOn(e, g)]
        /\ IF Missing(e) = {}
             THEN UNCHANGED <<grid, run>>
             ELSE /\ grid' = g
                  /\ run' = [r \in RunIds |->
                               IF \E c \in Missing(e) : g[c] = r THEN "queued" ELSE run[r]]
    BY <1>4 DEF CreateRuns
  <2>1. g \in [Cells -> RunIds] /\ g \in [Cells -> RunIds \cup {None}]
    BY DEF FreshIds
  <2>2. WorkOn(e, g) \in ExecState
    BY <2>1 DEF WorkOn, ExecState, Working
  <2> QED BY <1>4, <2>1, <2>2 DEF CreateRuns
<1>5. CASE Look(e)
  <2> HIDE DEF TypeOK
  <2> QED BY <1>5, LookMoves DEF TypeOK
<1>6. CASE Dispatch(e)
  <2>0. exec[e] \in ExecState
    OBVIOUS
  <2>1. [exec[e] EXCEPT !.pc = "dispatch", !.at = None] \in ExecState
    BY <2>0 DEF ExecState, Working
  <2> QED BY <1>6, <2>1 DEF Dispatch, EnqueueRun
<1>7. CASE Complete(e)
  BY <1>7, IdleType DEF Complete, Return
<1>8. CASE Raise(e)
  BY <1>8, IdleType DEF Raise, Return
<1> QED BY <1>1, <1>2, <1>3, <1>4, <1>5, <1>6, <1>7, <1>8 DEF ExecStep

LEMMA RunType ==
    ASSUME TypeOK, NEW r \in RunIds, RunStep(r) \/ RunJobLost(r) \/ RunResultExpires(r)
    PROVE  TypeOK'
<1> USE DEF TypeOK, ACTIVE, SETTLED
<1>1. CASE RunClaims(r)
  BY <1>1 DEF RunClaims
<1>2. CASE RunReports(r)
  BY <1>2 DEF RunReports
<1>3. CASE ReconcileRun(r)
  BY <1>3 DEF ReconcileRun, EnqueueRun
<1>4. CASE RunJobLost(r)
  BY <1>4 DEF RunJobLost, Spend
<1>5. CASE RunResultExpires(r)
  BY <1>5 DEF RunResultExpires
<1> QED BY <1>1, <1>2, <1>3, <1>4, <1>5 DEF RunStep

LEMMA StepType == TypeOK /\ [Next]_vars => TypeOK'
<1> SUFFICES ASSUME TypeOK, [Next]_vars PROVE TypeOK'
  OBVIOUS
<1> USE DEF TypeOK, ACTIVE, SETTLED, children
<1>1. CASE UNCHANGED vars
  BY <1>1 DEF vars
<1>2. ASSUME NEW e \in Execs, Die(e) PROVE TypeOK'
  BY <1>2, IdleType DEF Die, Spend
<1>3. ASSUME NEW e \in Execs, Stall(e) PROVE TypeOK'
  <2>0. exec[e] \in ExecState
    OBVIOUS
  <2>1. [exec[e] EXCEPT !.dead = TRUE] \in ExecState
    BY <2>0 DEF ExecState
  <2>2. exec' \in [Execs -> ExecState]
    <3> HIDE DEF ExecState
    <3> QED BY <1>3, <2>1 DEF Stall
  <2> QED BY <1>3, <2>2 DEF Stall, Spend, fail_active
<1>4. CASE Reap
  BY <1>4 DEF Reap, fail_active
<1>5. CASE Requeue
  BY <1>5 DEF Requeue, Spend
<1>6. CASE ReconcileFail \/ ReconcileReset
  BY <1>6 DEF ReconcileFail, ReconcileReset, fail_active
<1> QED BY <1>1, <1>2, <1>3, <1>4, <1>5, <1>6, ExecType, RunType DEF Next

\* Every variable keeps to its domain.
THEOREM TypeCorrect == Spec => []TypeOK
BY InitType, StepType, PTL DEF Spec

-----------------------------------------------------------------------------
(* No cell is run twice, whatever dies and whatever is given up.            *)

OnceInv == TypeOK /\ Once /\ NoCellRunsTwice

LEMMA InitOnce == Init => OnceInv
<1> SUFFICES ASSUME Init PROVE OnceInv
  OBVIOUS
<1>1. TypeOK
  BY InitType
<1> QED BY <1>1 DEF OnceInv, Init, Once, NoCellRunsTwice, Idle, Nothing

\* Executions change, the rows, the grid and the child jobs do not.
LEMMA OnceMoves ==
    ASSUME OnceInv, TypeOK', UNCHANGED <<grid, children>>,
           \A e \in Execs :
             /\ exec'[e].grid \in {exec[e].grid, grid, Nothing}
             /\ exec'[e].pc \in {"dispatch", "queueing"} =>
                  /\ exec'[e].grid = exec[e].grid
                  /\ exec[e].pc \in {"dispatch", "queueing"}
             /\ exec'[e].pc = "queueing" =>
                  /\ exec'[e].at \in Cells
                  /\ \/ run[exec[e].grid[exec'[e].at]] = "queued"
                     \/ runJob[exec[e].grid[exec'[e].at]] # "missing"
    PROVE  OnceInv'
BY DEF OnceInv, Once, NoCellRunsTwice, children, Nothing

LEMMA CreateOnce ==
    ASSUME OnceInv, TypeOK', NEW e \in Execs, CreateRuns(e) PROVE OnceInv'
<1> USE DEF OnceInv
<1> PICK g \in FreshIds(e) :
      /\ exec' = [exec EXCEPT ![e] = WorkOn(e, g)]
      /\ IF Missing(e) = {}
           THEN UNCHANGED <<grid, run>>
           ELSE /\ grid' = g
                /\ run' = [r \in RunIds |->
                             IF \E c \in Missing(e) : g[c] = r THEN "queued" ELSE run[r]]
  BY DEF CreateRuns
<1>1. /\ UNCHANGED <<ran, runJob>> /\ exec \in [Execs -> ExecState]
      /\ g \in [Cells -> RunIds]
  BY DEF CreateRuns, TypeOK, FreshIds
<1>2. \A c \in Cells : c \in Missing(e) <=> exec[e].grid[c] = None
  BY DEF Once, Missing
<1>3. \A c \in Cells : IF c \in Missing(e) THEN run[g[c]] = "absent" ELSE g[c] = exec[e].grid[c]
  BY <1>2 DEF FreshIds
<1>4. \A r \in RunIds : run'[r] = run[r] \/ (run[r] = "absent" /\ run'[r] = "queued")
  <2>1. CASE Missing(e) = {}
    BY <2>1
  <2>2. CASE Missing(e) # {}
    <3>1. Missing(e) \subseteq Cells
      BY DEF Missing
    <3> QED BY <2>2, <3>1, <1>3
  <2> QED BY <2>1, <2>2
<1>5. \A c \in Cells : g[c] \in RunIds /\ run'[g[c]] # "absent"
  BY <1>1, <1>2, <1>3, <1>4 DEF Once, Missing, TypeOK
<1>6. \A f \in Execs : IF f = e THEN exec'[f] = WorkOn(e, g) ELSE exec'[f] = exec[f]
  BY <1>1
<1>7. \A f \in Execs, c \in Cells : exec'[f].grid[c] # None => run'[exec'[f].grid[c]] # "absent"
  <2> SUFFICES ASSUME NEW f \in Execs, NEW c \in Cells, exec'[f].grid[c] # None
               PROVE  run'[exec'[f].grid[c]] # "absent"
    OBVIOUS
  <2>1. CASE f = e
    BY <2>1, <1>5, <1>6 DEF WorkOn
  <2>2. CASE f # e
    <3>1. exec[f].grid[c] \in RunIds /\ run[exec[f].grid[c]] # "absent" /\ exec'[f] = exec[f]
      BY <2>2, <1>1, <1>6 DEF Once, ExecState
    <3> QED BY <3>1, <1>4
  <2> QED BY <2>1, <2>2
<1>8. \A c \in Cells : grid'[c] # None => run'[grid'[c]] # "absent"
  <2>1. CASE Missing(e) = {}
    BY <2>1 DEF Once
  <2>2. CASE Missing(e) # {}
    BY <2>2, <1>5
  <2> QED BY <2>1, <2>2
<1>9. \A f \in Execs : exec'[f].pc \in {"dispatch", "queueing"} => exec'[f].grid \in [Cells -> RunIds]
  BY <1>1, <1>6 DEF Once, WorkOn
<1>10. \A f \in Execs : exec'[f].pc = "queueing" =>
         /\ exec'[f].at \in Cells
         /\ \/ run'[exec'[f].grid[exec'[f].at]] = "queued"
            \/ runJob'[exec'[f].grid[exec'[f].at]] # "missing"
  BY <1>1, <1>4, <1>6 DEF Once, WorkOn
<1>11. \A r \in RunIds : /\ runJob'[r] = "queued" => run'[r] = "queued"
                         /\ runJob'[r] # "missing" => run'[r] # "absent"
                         /\ run'[r] \in {"absent", "queued"} => ran'[r] = 0
  BY <1>1, <1>4 DEF Once
<1> QED BY <1>1, <1>7, <1>8, <1>9, <1>10, <1>11 DEF Once, NoCellRunsTwice

\* Child jobs and their rows move together; the executions and the grid rest.
LEMMA JobMoves ==
    ASSUME OnceInv, TypeOK', NEW r \in RunIds, UNCHANGED <<grid, exec>>,
           \A s \in RunIds \ {r} : run'[s] = run[s] /\ ran'[s] = ran[s] /\ runJob'[s] = runJob[s],
           run[r] # "absent" => run'[r] # "absent",
           runJob'[r] = "queued" => run'[r] = "queued",
           runJob'[r] # "missing" => run'[r] # "absent",
           run'[r] \in {"absent", "queued"} => ran'[r] = 0,
           ran'[r] <= 1,
           \A e \in Execs : exec[e].pc = "queueing" /\ exec[e].grid[exec[e].at] = r =>
              run'[r] = "queued" \/ runJob'[r] # "missing"
    PROVE  OnceInv'
<1> USE DEF OnceInv
<1>1. \A e \in Execs, c \in Cells : exec[e].grid[c] # None => exec[e].grid[c] \in RunIds
  BY DEF TypeOK, ExecState
<1>2. \A c \in Cells : grid[c] # None => grid[c] \in RunIds
  BY DEF TypeOK
<1>3. \A e \in Execs : exec[e].pc = "queueing" => exec[e].grid[exec[e].at] \in RunIds
  BY DEF Once
<1> QED BY <1>1, <1>2, <1>3 DEF Once, NoCellRunsTwice

LEMMA ExecOnce ==
    ASSUME OnceInv, TypeOK', NEW e \in Execs, ExecStep(e) \/ Die(e) \/ Stall(e) PROVE OnceInv'
<1> USE DEF OnceInv
<1>0. exec \in [Execs -> ExecState]
  BY DEF TypeOK
<1>1. CASE Read(e)
  BY <1>0, <1>1, OnceMoves DEF Read, Idle, Once
<1>2. CASE Claim(e)
  BY <1>0, <1>2, OnceMoves DEF Claim, ExecState, Once
<1>3. CASE ClaimRefused(e)
  BY <1>0, <1>3, OnceMoves DEF ClaimRefused, Return, Idle, Once
<1>4. CASE CreateRuns(e)
  BY <1>4, CreateOnce
<1>5. CASE Look(e)
  <2>1. PICK c \in Cells :
          \/ exec'[e] = Turn(e, c)
          \/ exec'[e] = Found(e, c) /\ run[exec[e].grid[c]] = "queued"
    BY <1>5, LookMoves
  <2>2. /\ exec'[e].grid = exec[e].grid
        /\ exec'[e].pc = "queueing" => exec'[e].at = c /\ run[exec[e].grid[c]] = "queued"
    BY <1>0, <1>5, <2>1, LookStates, LookMoves
  <2>3. /\ exec[e].pc = "dispatch" /\ UNCHANGED <<grid, children>>
        /\ \A f \in Execs \ {e} : exec'[f] = exec[f]
    BY <1>5, LookMoves
  <2> QED BY <2>2, <2>3, OnceMoves DEF Once
<1>6. CASE Dispatch(e)
  <2> DEFINE r == exec[e].grid[exec[e].at]
  <2>1. r \in RunIds /\ UNCHANGED <<grid, run, ran>> /\ exec[e].pc = "queueing"
    BY <1>6 DEF Dispatch, Once
  <2>2. runJob[r] = "missing" => run[r] = "queued"
    BY <2>1 DEF Once
  <2>3. exec[e] \in ExecState
    BY <1>0
  <2>4. /\ exec'[e].grid = exec[e].grid /\ exec'[e].pc = "dispatch"
        /\ \A f \in Execs \ {e} : exec'[f] = exec[f]
    BY <1>0, <1>6, <2>3 DEF Dispatch, ExecState
  <2>5. \A q \in RunIds : runJob'[q] = IF q = r /\ runJob[q] = "missing" THEN "queued" ELSE runJob[q]
    BY <1>6, <2>1 DEF Dispatch, EnqueueRun, TypeOK
  <2>6. \A f \in Execs : exec[f].pc = "queueing" => exec[f].grid[exec[f].at] \in RunIds
    BY DEF Once
  <2> QED BY <2>1, <2>2, <2>4, <2>5, <2>6 DEF Once, NoCellRunsTwice
<1>7. CASE Complete(e)
  BY <1>0, <1>7, OnceMoves DEF Complete, Return, Idle, Once
<1>8. CASE Raise(e)
  BY <1>0, <1>8, OnceMoves DEF Raise, Return, Idle, Once
<1>9. CASE Die(e)
  BY <1>0, <1>9, OnceMoves DEF Die, Idle, Once
<1>10. CASE Stall(e)
  BY <1>0, <1>10, OnceMoves DEF Stall, ExecState, Once
<1> QED BY <1>1, <1>2, <1>3, <1>4, <1>5, <1>6, <1>7, <1>8, <1>9, <1>10 DEF ExecStep

LEMMA RunOnce ==
    ASSUME OnceInv, TypeOK', NEW r \in RunIds,
           RunStep(r) \/ RunJobLost(r) \/ RunResultExpires(r)
    PROVE  OnceInv'
<1> USE DEF OnceInv
<1>1. CASE RunClaims(r)
  BY <1>1, JobMoves DEF RunClaims, TypeOK, Once
<1>2. CASE RunReports(r)
  BY <1>2, JobMoves DEF RunReports, TypeOK, SETTLED, Once, NoCellRunsTwice
<1>3. CASE ReconcileRun(r)
  BY <1>3, JobMoves DEF ReconcileRun, EnqueueRun, TypeOK, Once, NoCellRunsTwice
<1>4. CASE RunJobLost(r)
  BY <1>4, JobMoves DEF RunJobLost, TypeOK, Once, NoCellRunsTwice
<1>5. CASE RunResultExpires(r)
  BY <1>5, JobMoves DEF RunResultExpires, TypeOK, Once, NoCellRunsTwice
<1> QED BY <1>1, <1>2, <1>3, <1>4, <1>5 DEF RunStep

LEMMA StepOnce == OnceInv /\ [Next]_vars => OnceInv'
<1> SUFFICES ASSUME OnceInv, [Next]_vars PROVE OnceInv'
  OBVIOUS
<1>1. TypeOK'
  BY StepType DEF OnceInv
<1>2. CASE UNCHANGED vars
  BY <1>1, <1>2 DEF vars, children, OnceInv, Once, NoCellRunsTwice
<1>3. CASE Reap \/ Requeue \/ ReconcileFail \/ ReconcileReset
  BY <1>1, <1>3 DEF Reap, Requeue, ReconcileFail, ReconcileReset, children, OnceInv, Once, NoCellRunsTwice
<1> QED BY <1>1, <1>2, <1>3, ExecOnce, RunOnce DEF Next

\* No cell is run twice: a fan-out resumed after any death, and even two
\* executions side by side, dispatch only what never ran.
THEOREM NoRunStartsTwice == Spec => []NoCellRunsTwice
<1>1. OnceInv => NoCellRunsTwice
  BY DEF OnceInv
<1> QED BY InitOnce, StepOnce, <1>1, PTL DEF Spec

-----------------------------------------------------------------------------
(* While no live execution is given up, grid and rows agree.                *)

CalmInv == TypeOK /\ Once /\ NoCellRunsTwice /\ Sole /\ Paired

LEMMA InitCalm == Init => CalmInv
<1> SUFFICES ASSUME Init PROVE CalmInv
  OBVIOUS
<1>1. OnceInv
  BY InitOnce
<1> QED BY <1>1 DEF CalmInv, OnceInv, Init, Sole, Paired, Idle, Nothing

\* A step of execution e that changes neither the grid nor the set of rows.
LEMMA ExecMoves ==
    ASSUME CalmInv, OnceInv', NEW e \in Execs, UNCHANGED <<grid, run>>,
           exec[e].pc # "idle" \/ sweepJob = "queued",
           \A f \in Execs \ {e} : exec'[f] = exec[f],
           ~exec'[e].dead,
           exec'[e].pc # "idle" => exec'[e].grid = grid /\ sweepJob' = "started"
    PROVE  CalmInv'
<1> USE DEF CalmInv
<1>1. \A f \in Execs \ {e} : exec[f].pc = "idle"
  BY DEF Sole
<1>2. Sole'
  BY <1>1 DEF Sole
<1>3. Paired'
  BY DEF Paired
<1> QED BY <1>2, <1>3 DEF OnceInv

\* What create_sweep_runs does to a grid that agrees with the rows.
LEMMA CreateAgrees ==
    ASSUME CalmInv, OnceInv', NEW e \in Execs, CreateRuns(e)
    PROVE  /\ CalmInv'
           /\ KeepRuns
<1> USE DEF CalmInv, KeepRuns
<1> PICK g \in FreshIds(e) :
      /\ exec' = [exec EXCEPT ![e] = WorkOn(e, g)]
      /\ IF Missing(e) = {}
           THEN UNCHANGED <<grid, run>>
           ELSE /\ grid' = g
                /\ run' = [r \in RunIds |->
                             IF \E c \in Missing(e) : g[c] = r THEN "queued" ELSE run[r]]
  BY DEF CreateRuns
<1>1. /\ UNCHANGED sweepJob /\ exec[e].pc = "claimed"
      /\ g \in [Cells -> RunIds] /\ grid \in [Cells -> RunIds \cup {None}]
      /\ exec \in [Execs -> ExecState]
  BY DEF CreateRuns, TypeOK, FreshIds
<1>2. /\ exec[e].grid = grid /\ sweepJob = "started"
      /\ \A f \in Execs \ {e} : exec[f].pc = "idle"
  BY <1>1 DEF Sole
<1>3. \A c \in Cells : c \in Missing(e) <=> grid[c] = None
  BY <1>2 DEF Paired, Missing
<1>4. /\ \A c \in Cells : grid[c] # None => g[c] = grid[c]
      /\ \A c \in Cells : grid[c] = None => run[g[c]] = "absent"
      /\ \A c, d \in Cells : grid[c] = None /\ grid[d] = None /\ g[c] = g[d] => c = d
  BY <1>2 DEF FreshIds
<1>5. grid' = g
  <2>1. CASE Missing(e) = {}
    <3>1. \A c \in Cells : grid[c] = g[c]
      BY <2>1, <1>3, <1>4
    <3>2. grid = g
      BY <1>1, <3>1
    <3> QED BY <2>1, <3>2
  <2>2. CASE Missing(e) # {}
    BY <2>2
  <2> QED BY <2>1, <2>2
<1>6. \A r \in RunIds : run'[r] # "absent" <=> \E c \in Cells : g[c] = r
  <2> SUFFICES ASSUME NEW r \in RunIds
               PROVE  run'[r] # "absent" <=> \E c \in Cells : g[c] = r
    OBVIOUS
  <2>1. run[r] # "absent" <=> \E c \in Cells : grid[c] # None /\ g[c] = r
    BY <1>1, <1>4 DEF Paired
  <2>2. CASE Missing(e) = {}
    BY <2>1, <2>2, <1>3
  <2>3. CASE Missing(e) # {}
    <3>1. run'[r] = IF \E c \in Missing(e) : g[c] = r THEN "queued" ELSE run[r]
      BY <2>3
    <3>2. (\E c \in Missing(e) : g[c] = r) <=> (\E c \in Cells : grid[c] = None /\ g[c] = r)
      BY <1>3 DEF Missing
    <3> QED BY <2>1, <3>1, <3>2
  <2> QED BY <2>2, <2>3
<1>7. \A c, d \in Cells : g[c] = g[d] => c = d
  BY <1>1, <1>4 DEF Paired
<1>8. Paired'
  BY <1>1, <1>5, <1>6, <1>7 DEF Paired
<1>9. Sole'
  <2>1. \A f \in Execs \ {e} : exec'[f] = exec[f]
    BY <1>1
  <2>2. exec'[e] = WorkOn(e, g)
    BY <1>1
  <2> QED BY <1>1, <1>2, <1>5, <2>1, <2>2 DEF Sole, WorkOn
<1> QED BY <1>4, <1>5, <1>8, <1>9 DEF OnceInv

\* Up to the step that gives a live execution up.
LEMMA StepCalm ==
    ASSUME CalmInv, [Next]_vars, \A e \in Execs : ~Stall(e)
    PROVE  CalmInv' /\ KeepRuns
<1> USE DEF CalmInv, KeepRuns
<1>0. OnceInv' /\ exec \in [Execs -> ExecState]
  BY StepOnce DEF OnceInv, TypeOK
<1>1. CASE UNCHANGED vars
  BY <1>0, <1>1 DEF vars, children, OnceInv, Sole, Paired
<1>2. ASSUME NEW e \in Execs, CreateRuns(e)
      PROVE  CalmInv' /\ KeepRuns
  BY <1>0, <1>2, CreateAgrees
<1>3. ASSUME NEW e \in Execs, ExecStep(e) \/ Die(e), ~CreateRuns(e)
      PROVE  CalmInv' /\ UNCHANGED grid
  <2> USE DEF children
  <2>0. ~exec[e].dead
    BY DEF Sole
  <2>1. CASE Read(e)
    BY <1>0, <2>1, ExecMoves DEF Read, Idle
  <2>2. CASE Claim(e)
    BY <1>0, <2>0, <2>2, ExecMoves DEF Claim, ExecState, Sole
  <2>3. CASE ClaimRefused(e)
    BY <1>0, <2>3, ExecMoves DEF ClaimRefused, Return, Idle
  <2>4. CASE Look(e)
    <3>1. exec'[e].grid = exec[e].grid /\ exec'[e].dead = exec[e].dead
      BY <1>0, <2>4, LookStates, LookMoves
    <3>2. /\ exec[e].pc = "dispatch" /\ UNCHANGED <<grid, run, sweepJob>>
          /\ \A f \in Execs \ {e} : exec'[f] = exec[f]
      BY <2>4, LookMoves
    <3> QED BY <1>0, <2>0, <3>1, <3>2, ExecMoves DEF Sole
  <2>5. CASE Dispatch(e)
    BY <1>0, <2>0, <2>5, ExecMoves DEF Dispatch, ExecState, Sole
  <2>6. CASE Complete(e)
    BY <1>0, <2>6, ExecMoves DEF Complete, Return, Idle
  <2>7. CASE Raise(e)
    BY <1>0, <2>7, ExecMoves DEF Raise, Return, Idle
  <2>8. CASE Die(e)
    BY <1>0, <2>8, ExecMoves DEF Die, Idle, Working
  <2> QED BY <1>3, <2>1, <2>2, <2>3, <2>4, <2>5, <2>6, <2>7, <2>8 DEF ExecStep
<1>4. CASE Reap \/ Requeue \/ ReconcileFail \/ ReconcileReset
  BY <1>0, <1>4 DEF Reap, Requeue, ReconcileFail, ReconcileReset, children, OnceInv, Sole, Paired
<1>5. ASSUME NEW r \in RunIds, RunStep(r) \/ RunJobLost(r) \/ RunResultExpires(r)
      PROVE  CalmInv' /\ UNCHANGED grid
  <2>1. UNCHANGED <<grid, exec, sweepJob>>
    BY <1>5 DEF RunStep, RunClaims, RunReports, ReconcileRun, RunJobLost, RunResultExpires
  <2>2. \A s \in RunIds : run'[s] = "absent" <=> run[s] = "absent"
    BY <1>5 DEF RunStep, RunClaims, RunReports, ReconcileRun, RunJobLost, RunResultExpires,
                CLAIMABLE, SETTLED, TypeOK, Once
  <2> QED BY <1>0, <2>1, <2>2 DEF OnceInv, Sole, Paired, TypeOK
<1> QED BY <1>1, <1>2, <1>3, <1>4, <1>5 DEF Next

-----------------------------------------------------------------------------
(* What has been passed by was not waiting, or has lost its job.            *)

LEMMA FewerAreLost ==
    ASSUME NEW m \in Nat, NEW n \in Nat, m <= n, NEW S, AtMost(m, S), NEW T, T \subseteq S
    PROVE  AtMost(n, T)
<1>1. IsFiniteSet(T) /\ Cardinality(T) <= Cardinality(S)
  BY FS_Subset DEF AtMost
<1>2. Cardinality(T) \in Nat /\ Cardinality(S) \in Nat
  BY <1>1, FS_CardinalityType DEF AtMost
<1> QED BY <1>1, <1>2 DEF AtMost

LEMMA OneMoreIsLost ==
    ASSUME NEW n \in Nat, NEW S, AtMost(n, S), NEW r
    PROVE  AtMost(n + 1, S \cup {r})
<1>1. /\ IsFiniteSet(S \cup {r}) /\ Cardinality(S) \in Nat
      /\ Cardinality(S \cup {r}) \in {Cardinality(S), Cardinality(S) + 1}
  BY FS_AddElement, FS_CardinalityType DEF AtMost
<1> QED BY <1>1 DEF AtMost

LEMMA InitDelivered == Init => Delivered
BY DEF Init, Delivered, Idle

\* No run becomes an orphan, and an execution at work keeps to its cells or has
\* passed by one whose run does not wait.
LEMMA KeepsDelivered ==
    ASSUME CalmInv, CalmInv', Delivered, used'.losses = used.losses, Orphans' \subseteq Orphans,
           \A r \in RunIds : runJob'[r] \in {"started", "finished"} => run'[r] # "queued",
           \A e \in Execs : exec'[e].pc \in {"dispatch", "queueing"} =>
               /\ exec[e].pc \in {"dispatch", "queueing"}
               /\ exec'[e].grid = exec[e].grid
               /\ \A c \in Ahead(e) : c \in Ahead(e)' \/ exec[e].grid[c] \notin Orphans',
           sweep' = "done" => sweep = "done" /\ UNCHANGED <<sweepJob, grid>>
    PROVE  Delivered'
<1>0. used.losses \in Nat
  BY DEF CalmInv, TypeOK
<1>1. ASSUME NEW e \in Execs, exec'[e].pc \in {"dispatch", "queueing"}
      PROVE  AtMost(used.losses, PassedBy(e)')
  <2>1. AtMost(used.losses, PassedBy(e))
    BY <1>1 DEF Delivered
  <2>2. ASSUME NEW r \in PassedBy(e)' PROVE r \in PassedBy(e)
    BY <1>1, <2>2 DEF PassedBy
  <2>3. PassedBy(e)' \subseteq PassedBy(e)
    BY <2>2
  <2> QED BY <1>0, <2>1, <2>3, FewerAreLost
<1>2. sweep' = "done" => AtMost(used.losses, Orphans')
  BY <1>0, FewerAreLost DEF Delivered
<1> QED BY <1>1, <1>2 DEF Delivered

\* All cells lie ahead of an execution that has just created their runs.
LEMMA CreateDelivers ==
    ASSUME CalmInv, CalmInv', Delivered, NEW e \in Execs, CreateRuns(e)
    PROVE  Delivered'
<1>0. exec \in [Execs -> ExecState] /\ run \in [RunIds -> ACTIVE \cup SETTLED \cup {"absent"}]
  BY DEF CalmInv, TypeOK
<1> PICK g \in FreshIds(e) :
      /\ exec' = [exec EXCEPT ![e] = WorkOn(e, g)]
      /\ IF Missing(e) = {}
           THEN UNCHANGED <<grid, run>>
           ELSE /\ grid' = g
                /\ run' = [r \in RunIds |->
                             IF \E c \in Missing(e) : g[c] = r THEN "queued" ELSE run[r]]
  BY DEF CreateRuns
<1>1. /\ exec[e].pc = "claimed" /\ UNCHANGED <<sweep, runJob, used>>
      /\ exec'[e] = WorkOn(e, g) /\ \A f \in Execs \ {e} : exec'[f] = exec[f]
  BY <1>0 DEF CreateRuns
<1>2. sweep # "done" /\ exec'[e].grid = grid' /\ \A f \in Execs \ {e} : exec[f].pc = "idle"
  BY <1>1 DEF CalmInv, Sole, Delivered, WorkOn
<1>3. \A r \in RunIds : runJob'[r] \in {"started", "finished"} => run'[r] # "queued"
  <2> SUFFICES ASSUME NEW r \in RunIds, runJob[r] \in {"started", "finished"}
               PROVE  run'[r] # "queued"
    BY <1>1
  <2>1. run[r] \notin {"absent", "queued"}
    BY DEF CalmInv, Once, Delivered
  <2>2. \A c \in Missing(e) : run[g[c]] = "absent"
    BY <1>1 DEF FreshIds, Missing, CalmInv, Once
  <2> QED BY <2>1, <2>2
<1>4. PassedBy(e)' = {}
  <2>1. Ahead(e)' = Cells
    BY <1>1 DEF Ahead, WorkOn
  <2>2. \A r \in Orphans' : \E c \in Cells : exec'[e].grid[c] = r
    BY <1>2 DEF Orphans, CalmInv, Paired
  <2> QED BY <2>1, <2>2 DEF PassedBy
<1>5. AtMost(used'.losses, {})
  BY FS_EmptySet DEF AtMost, CalmInv, TypeOK
<1> QED BY <1>1, <1>2, <1>3, <1>4, <1>5 DEF Delivered

LEMMA LossDelivers ==
    ASSUME CalmInv, CalmInv', Delivered, NEW r \in RunIds, RunJobLost(r)
    PROVE  Delivered'
<1>0. /\ runJob \in [RunIds -> {"missing", "queued", "started", "finished"}]
      /\ used.losses \in Nat /\ used'.losses = used.losses + 1
  BY DEF CalmInv, TypeOK, RunJobLost, Spend
<1>1. /\ UNCHANGED <<sweep, grid, run, sweepJob, exec>>
      /\ \A s \in RunIds : runJob'[s] = IF s = r THEN "missing" ELSE runJob[s]
  BY <1>0 DEF RunJobLost
<1>2. Orphans' \subseteq Orphans \cup {r}
  BY <1>1 DEF Orphans
<1>3. ASSUME NEW S, AtMost(used.losses, S), NEW T, T \subseteq S \cup {r}
      PROVE  AtMost(used'.losses, T)
  <2>1. AtMost(used.losses + 1, S \cup {r})
    BY <1>0, <1>3, OneMoreIsLost
  <2> QED BY <1>0, <1>3, <2>1, FewerAreLost
<1>4. ASSUME NEW e \in Execs, exec[e].pc \in {"dispatch", "queueing"}
      PROVE  AtMost(used'.losses, PassedBy(e)')
  <2>1. PassedBy(e)' \subseteq PassedBy(e) \cup {r}
    BY <1>1, <1>2 DEF PassedBy, Ahead
  <2>2. AtMost(used.losses, PassedBy(e))
    BY <1>4 DEF Delivered
  <2> QED BY <1>3, <2>1, <2>2
<1>5. sweep = "done" => AtMost(used'.losses, Orphans')
  BY <1>2, <1>3 DEF Delivered
<1>6. \A s \in RunIds : runJob'[s] \in {"started", "finished"} => run'[s] # "queued"
  BY <1>1 DEF Delivered
<1> QED BY <1>1, <1>4, <1>5, <1>6 DEF Delivered

LEMMA CompleteDelivers ==
    ASSUME CalmInv, CalmInv', Delivered, NEW e \in Execs, Complete(e)
    PROVE  Delivered'
<1>0. exec \in [Execs -> ExecState]
  BY DEF CalmInv, TypeOK
<1>1. /\ exec[e].pc = "dispatch" /\ exec[e].todo = {} /\ UNCHANGED <<grid, run, runJob, used>>
      /\ ~exec[e].dead /\ exec[e].grid = grid /\ exec' = [exec EXCEPT ![e] = Idle]
      /\ \A f \in Execs \ {e} : exec[f].pc = "idle"
  BY DEF Complete, Return, children, CalmInv, Sole
<1>2. sweepJob' = "finished"
  BY <1>1 DEF Complete, Return
<1>3. \A f \in Execs : exec'[f].pc = "idle"
  BY <1>0, <1>1 DEF Idle
<1>4. PassedBy(e) = Orphans' /\ UNCHANGED Orphans
  BY <1>1 DEF PassedBy, Ahead, Orphans
<1>5. AtMost(used'.losses, Orphans')
  BY <1>1, <1>4 DEF Delivered
<1>6. \A c \in Cells : grid'[c] # None
  BY <1>1 DEF CalmInv, Once
<1> QED BY <1>1, <1>2, <1>3, <1>5, <1>6 DEF Delivered

\* A fan-out that has reported is not at work any more.
LEMMA StepDelivered ==
    ASSUME CalmInv, CalmInv', Delivered, [Next]_vars, \A e \in Execs : ~Stall(e)
    PROVE  Delivered'
<1>0. /\ exec \in [Execs -> ExecState]
      /\ runJob \in [RunIds -> {"missing", "queued", "started", "finished"}]
      /\ run \in [RunIds -> ACTIVE \cup SETTLED \cup {"absent"}]
  BY DEF CalmInv, TypeOK
<1>a. \A e \in Execs : exec[e].pc # "idle" => sweepJob = "started" /\ sweep # "done"
  BY DEF CalmInv, Sole, Delivered
<1>1. CASE UNCHANGED vars
  BY <1>1, KeepsDelivered DEF vars, children, Delivered, Ahead, Orphans
<1>2. ASSUME NEW e \in Execs, Read(e) \/ Claim(e) \/ ClaimRefused(e) \/ Raise(e) \/ Die(e)
      PROVE  Delivered'
  <2>1. \A f \in Execs : exec'[f].pc \in {"dispatch", "queueing"} => exec'[f] = exec[f]
    <3>1. /\ \A f \in Execs \ {e} : exec'[f] = exec[f]
          /\ exec'[e].pc \in {"idle", "read", "claimed"}
      <4>1. CASE Read(e)
        BY <1>0, <4>1 DEF Read, Idle
      <4>2. CASE Claim(e)
        BY <1>0, <4>2 DEF Claim, ExecState
      <4>3. CASE ClaimRefused(e) \/ Raise(e) \/ Die(e)
        BY <1>0, <4>3 DEF ClaimRefused, Raise, Die, Return, Idle
      <4> QED BY <1>2, <4>1, <4>2, <4>3
    <3> QED BY <3>1
  <2>2. UNCHANGED <<run, runJob, grid>> /\ used'.losses = used.losses
    BY <1>2 DEF Read, Claim, ClaimRefused, Raise, Die, Spend, children, CalmInv, TypeOK
  <2>3. sweep # "done" /\ sweep' # "done"
    BY <1>a, <1>2 DEF Read, Claim, ClaimRefused, Raise, Die, Working, Delivered
  <2> QED BY <2>1, <2>2, <2>3, KeepsDelivered DEF Delivered, Ahead, Orphans
<1>3. ASSUME NEW e \in Execs, Look(e) PROVE Delivered'
  <2>1. /\ UNCHANGED <<run, runJob, grid, sweep, sweepJob, used>> /\ exec[e].pc = "dispatch"
        /\ \A f \in Execs \ {e} : exec'[f] = exec[f]
    BY <1>3, LookMoves DEF Look, children, CalmInv
  <2>2. UNCHANGED Orphans
    BY <2>1 DEF Orphans
  <2>3. /\ exec'[e].grid = exec[e].grid
        /\ \A c \in Ahead(e) : c \in Ahead(e)' \/ exec[e].grid[c] \notin Orphans'
    <3> PICK c \in exec[e].todo :
          exec' = IF run[exec[e].grid[c]] = "queued"
                    THEN [exec EXCEPT ![e] = Found(e, c)]
                    ELSE [exec EXCEPT ![e] = Turn(e, c)]
      BY <1>3 DEF Look, Found
    <3>0. exec[e] \in ExecState /\ c \in Cells
      BY <1>0 DEF ExecState
    <3>1. CASE run[exec[e].grid[c]] = "queued"
      <4>1. exec'[e] = Found(e, c)
        BY <1>0, <3>1
      <4>2. /\ exec'[e].pc = "queueing" /\ exec'[e].at = c
            /\ exec'[e].todo = exec[e].todo \ {c} /\ exec'[e].grid = exec[e].grid
        BY <3>0, <4>1, LookStates
      <4>3. Ahead(e)' = Ahead(e)
        BY <2>1, <4>2 DEF Ahead
      <4> QED BY <4>2, <4>3
    <3>2. CASE run[exec[e].grid[c]] # "queued"
      <4>1. exec'[e] = Turn(e, c)
        BY <1>0, <3>2
      <4>2. /\ exec'[e].pc = "dispatch"
            /\ exec'[e].todo = exec[e].todo \ {c} /\ exec'[e].grid = exec[e].grid
        BY <3>0, <2>1, <4>1, LookStates
      <4>3. Ahead(e)' = Ahead(e) \ {c}
        BY <2>1, <4>2 DEF Ahead
      <4>4. exec[e].grid[c] \notin Orphans'
        BY <2>1, <3>2 DEF Orphans
      <4> QED BY <4>2, <4>3, <4>4
    <3> QED BY <3>1, <3>2
  <2>4. \A f \in Execs \ {e} : Ahead(f)' = Ahead(f)
    BY <2>1 DEF Ahead
  <2> QED BY <2>1, <2>2, <2>3, <2>4, KeepsDelivered DEF Delivered
<1>4. ASSUME NEW e \in Execs, Dispatch(e) PROVE Delivered'
  <2> DEFINE mine == exec[e].grid[exec[e].at]
  <2>1. /\ UNCHANGED <<run, grid, sweep, sweepJob, used>> /\ exec[e].pc = "queueing"
        /\ runJob' = [runJob EXCEPT ![mine] = IF @ = "missing" THEN "queued" ELSE @]
        /\ exec' = [exec EXCEPT ![e] = [exec[e] EXCEPT !.pc = "dispatch", !.at = None]]
    BY <1>4 DEF Dispatch, EnqueueRun
  <2>2. /\ \A f \in Execs \ {e} : exec'[f] = exec[f]
        /\ exec'[e].grid = exec[e].grid /\ exec'[e].todo = exec[e].todo
    BY <1>0, <2>1 DEF ExecState
  <2>3. mine \in RunIds
    BY <2>1 DEF CalmInv, Once
  <2>4. \A r \in RunIds : IF r = mine
                            THEN runJob'[r] = IF runJob[r] = "missing" THEN "queued" ELSE runJob[r]
                            ELSE runJob'[r] = runJob[r]
    BY <1>0, <2>1
  <2> HIDE DEF mine
  <2>5. Orphans' \subseteq Orphans /\ mine \notin Orphans'
    BY <2>1, <2>3, <2>4 DEF Orphans
  <2>6. \A r \in RunIds : runJob'[r] \in {"started", "finished"} => run'[r] # "queued"
    BY <2>1, <2>4 DEF Delivered
  <2>7. \A c \in Ahead(e) : c \in Ahead(e)' \/ exec[e].grid[c] \notin Orphans'
    BY <2>2, <2>5 DEF Ahead, mine
  <2>8. \A f \in Execs \ {e} : Ahead(f)' = Ahead(f)
    BY <2>2 DEF Ahead
  <2> QED BY <2>1, <2>2, <2>5, <2>6, <2>7, <2>8, KeepsDelivered DEF Delivered
<1>5. CASE Reap \/ Requeue \/ ReconcileFail \/ ReconcileReset
  <2>1. UNCHANGED <<run, runJob, grid, exec>> /\ used'.losses = used.losses
    BY <1>5 DEF Reap, Requeue, ReconcileFail, ReconcileReset, Spend, children, CalmInv, TypeOK
  <2>2. sweep' = "done" => sweep = "done" /\ UNCHANGED sweepJob
    BY <1>5 DEF Reap, Requeue, ReconcileFail, ReconcileReset, fail_active, ACTIVE, Delivered
  <2> QED BY <2>1, <2>2, KeepsDelivered DEF Delivered, Ahead, Orphans
<1>6. ASSUME NEW r \in RunIds, RunStep(r) \/ RunResultExpires(r) PROVE Delivered'
  <2>1. UNCHANGED <<sweep, grid, sweepJob, exec, used>>
    BY <1>6 DEF RunStep, RunClaims, RunReports, ReconcileRun, RunResultExpires
  <2>2. /\ \A s \in RunIds \ {r} : run'[s] = run[s] /\ runJob'[s] = runJob[s]
        /\ run'[r] # "queued" \/ runJob'[r] = "queued"
    BY <1>0, <1>6 DEF RunStep, RunClaims, RunReports, ReconcileRun, RunResultExpires,
                      EnqueueRun, SETTLED, Delivered
  <2>3. Orphans' \subseteq Orphans
    BY <2>2 DEF Orphans
  <2>4. \A s \in RunIds : runJob'[s] \in {"started", "finished"} => run'[s] # "queued"
    BY <2>2 DEF Delivered
  <2> QED BY <2>1, <2>3, <2>4, KeepsDelivered DEF Delivered, Ahead
<1> QED BY <1>1, <1>2, <1>3, <1>4, <1>5, <1>6, CreateDelivers, CompleteDelivers, LossDelivers
        DEF Next, ExecStep

-----------------------------------------------------------------------------
(* Until a live execution is given up, all of it holds.                     *)

\* Only giving up a live execution counts as a stall, and stalls are not undone.
LEMMA StallsOnly ==
    ASSUME TypeOK, [Next]_vars
    PROVE  /\ Unstalled' => Unstalled /\ \A e \in Execs : ~Stall(e)
           /\ \A e \in Execs : Stall(e) => KeepRuns
<1> USE DEF TypeOK, Unstalled, Spend
<1>1. ASSUME NEW e \in Execs, Stall(e) PROVE ~Unstalled' /\ KeepRuns
  BY <1>1 DEF Stall, KeepRuns
<1>2. ASSUME NEW e \in Execs, ExecStep(e) \/ Die(e) PROVE used'.stalls = used.stalls
  BY <1>2 DEF ExecStep, Read, Claim, ClaimRefused, CreateRuns, Look, Dispatch, Complete,
              Raise, Die
<1>3. CASE Reap \/ Requeue \/ ReconcileFail \/ ReconcileReset
  BY <1>1, <1>3 DEF Reap, Requeue, ReconcileFail, ReconcileReset
<1>4. ASSUME NEW r \in RunIds, RunStep(r) \/ RunJobLost(r) \/ RunResultExpires(r)
      PROVE  used'.stalls = used.stalls
  BY <1>4 DEF RunStep, RunClaims, RunReports, ReconcileRun, RunJobLost, RunResultExpires
<1>5. CASE UNCHANGED vars
  BY <1>1, <1>5 DEF vars
<1> QED BY <1>1, <1>2, <1>3, <1>4, <1>5 DEF Next

LEMMA StepFanout ==
    ASSUME FanoutInv, [Next]_vars PROVE FanoutInv' /\ (Unstalled => KeepRuns)
<1>1. OnceInv'
  BY StepOnce DEF FanoutInv, OnceInv
<1>2. CASE \A e \in Execs : ~Stall(e)
  BY <1>1, <1>2, StallsOnly, StepCalm, StepDelivered DEF FanoutInv, CalmInv, OnceInv
<1>3. CASE \E e \in Execs : Stall(e)
  BY <1>1, <1>3, StallsOnly DEF FanoutInv, OnceInv
<1> QED BY <1>2, <1>3

LEMMA FanoutKept == Spec => []FanoutInv
<1>1. Init => FanoutInv
  BY InitCalm, InitDelivered DEF FanoutInv, CalmInv
<1>2. FanoutInv /\ [Next]_vars => FanoutInv'
  BY StepFanout
<1> QED BY <1>1, <1>2, PTL DEF Spec

\* Rows and grid stay one to one through every death, error and requeue, until
\* an execution that still lives is declared dead.
THEOREM GridNamesItsRows == Spec => []OneRunPerCell
<1>1. FanoutInv => OneRunPerCell
  BY DEF FanoutInv, OneRunPerCell
<1> QED BY FanoutKept, <1>1, PTL

\* Under the same condition a cell never changes its run.
THEOREM CellsAreResumed == Spec => CellsKeepTheirRuns
<1>1. FanoutInv /\ [Next]_vars => [Unstalled => KeepRuns]_vars
  BY StepFanout
<1> QED BY FanoutKept, <1>1, PTL DEF Spec, CellsKeepTheirRuns

\* A sweep that says done has a run for every cell, and leaves no run behind
\* whose job was not put in the queue, under the same condition.
THEOREM DoneSweepsAreDispatched == Spec => []DoneMeansDispatched
<1>1. FanoutInv => DoneMeansDispatched
  BY DEF FanoutInv, Delivered, AtMost, DoneMeansDispatched
<1> QED BY FanoutKept, <1>1, PTL

-----------------------------------------------------------------------------
(* The rows a client sees.                                                  *)

\* What create_sweep_runs inserts: one row for each missing cell, none of them
\* there before.
LEMMA CreateIsOneInsert ==
    ASSUME TypeOK, NEW e \in Execs, CreateRuns(e)
    PROVE  Children!Next \/ UNCHANGED run
<1>1. PICK g \in FreshIds(e) : run' = IF Missing(e) = {} THEN run
          ELSE [r \in RunIds |-> IF \E c \in Missing(e) : g[c] = r THEN "queued" ELSE run[r]]
  BY DEF CreateRuns
<1> DEFINE new == {r \in RunIds : \E c \in Missing(e) : g[c] = r}
<1>2. CASE Missing(e) # {}
  <2>1. /\ g \in [Cells -> RunIds]
        /\ \A c \in Missing(e) : c \in Cells /\ run[g[c]] = "absent"
    BY DEF FreshIds, Missing
  <2>2. new \in SUBSET RunIds /\ new # {} /\ \A r \in new : run[r] = "absent"
    BY <1>2, <2>1
  <2>3. run' = [r \in RunIds |-> IF r \in new THEN "queued" ELSE run[r]]
    BY <1>1, <1>2
  <2>4. UNCHANGED runJob
    BY DEF CreateRuns
  <2> HIDE DEF new
  <2>5. Children!Create(new)
    BY <2>2, <2>3, <2>4 DEF Children!Create
  <2> QED BY <2>2, <2>5 DEF Children!Next
<1> QED BY <1>1, <1>2

LEMMA ChildContract ==
    ASSUME OnceInv, [Next]_vars
    PROVE  [Children!Next]_<<run, {r \in RunIds : runJob[r] = "started"}>>
<1> USE DEF OnceInv, TypeOK
<1>1. ASSUME NEW e \in Execs, ExecStep(e) \/ Die(e) \/ Stall(e)
      PROVE  \/ Children!Next
             \/ UNCHANGED <<run, {r \in RunIds : runJob[r] = "started"}>>
  <2>1. CASE CreateRuns(e)
    BY <2>1, CreateIsOneInsert DEF CreateRuns
  <2>2. CASE Dispatch(e)
    BY <2>2 DEF Dispatch, EnqueueRun
  <2> QED BY <1>1, <2>1, <2>2 DEF ExecStep, Read, Claim, ClaimRefused, Look, Complete, Raise,
                                Die, Stall, children
<1>2. ASSUME NEW r \in RunIds, RunClaims(r) PROVE Children!Take(r)
  BY <1>2 DEF RunClaims, CLAIMABLE, Children!Take, Children!Becomes
<1>3. ASSUME NEW r \in RunIds, RunReports(r) PROVE Children!Report(r)
  BY <1>3 DEF RunReports, SETTLED, Children!Report, Children!Becomes
<1>4. ASSUME NEW r \in RunIds, ReconcileRun(r) \/ RunJobLost(r) \/ RunResultExpires(r)
      PROVE  UNCHANGED <<run, {q \in RunIds : runJob[q] = "started"}>>
  BY <1>4 DEF ReconcileRun, RunJobLost, RunResultExpires, EnqueueRun
<1>5. CASE Reap \/ Requeue \/ ReconcileFail \/ ReconcileReset \/ UNCHANGED vars
  BY <1>5 DEF Reap, Requeue, ReconcileFail, ReconcileReset, vars, children
<1> QED BY <1>1, <1>2, <1>3, <1>4, <1>5 DEF Next, RunStep, Children!Next

\* The executions of the sweep's job that work on its row.
AtWork(e) == exec[e].pc \in {"claimed", "dispatch", "queueing"}

\* The sweep is busy when one of them is there, before a step and after it.
LEMMA BusySweep ==
    /\ (\E e \in Execs : AtWork(e)) => sweepBusy = {"sweep"}
    /\ (\A e \in Execs : ~AtWork(e)) => sweepBusy = {}
    /\ (\E e \in Execs : AtWork(e)') => sweepBusy' = {"sweep"}
    /\ (\A e \in Execs : ~AtWork(e)') => sweepBusy' = {}
BY DEF sweepBusy, AtWork

\* ... and stays as busy as it was when no execution starts or ends its work.
LEMMA AsBusy ==
    ASSUME \A e \in Execs : AtWork(e)' <=> AtWork(e) PROVE UNCHANGED sweepBusy
BY DEF sweepBusy, AtWork

LEMMA SweepContract ==
    ASSUME FanoutInv, [Next]_vars, Unstalled'
    PROVE  [Sweep!Next]_<<sweepRow, sweepBusy>>
<1> USE DEF FanoutInv, TypeOK
<1>0. Unstalled /\ Sole /\ \A e \in Execs : ~Stall(e)
  BY StallsOnly
<1> DEFINE Seen == Sweep!Next \/ UNCHANGED <<sweepRow, sweepBusy>>
<1>1. ASSUME NEW e \in Execs, ExecStep(e) \/ Die(e) PROVE Seen
  <2>1. CASE Claim(e)
    <3>1. sweep \in {"queued", "failed"} /\ sweep' = "running"
      BY <2>1 DEF Claim, CLAIMABLE
    <3>2. AtWork(e)' /\ \A f \in Execs : ~AtWork(f)
      BY <1>0, <2>1 DEF Claim, Sole, AtWork
    <3>3. sweepBusy = {} /\ sweepBusy' = {"sweep"}
      BY <3>2, BusySweep
    <3>4. Sweep!Take("sweep")
      BY <3>1, <3>3 DEF sweepRow, Sweep!Take, Sweep!Becomes
    <3> QED BY <3>4 DEF Sweep!Next
  <2>2. CASE Complete(e) \/ Raise(e)
    <3>1. sweep' \in {"done", "failed"}
      BY <2>2 DEF Complete, Raise
    <3>2. AtWork(e) /\ \A f \in Execs : ~AtWork(f)'
      BY <1>0, <2>2 DEF Complete, Raise, Return, Idle, Sole, AtWork
    <3>3. sweepBusy = {"sweep"} /\ sweepBusy' = {}
      BY <3>2, BusySweep
    <3>4. Sweep!Report("sweep")
      BY <3>1, <3>3 DEF sweepRow, Sweep!Report, Sweep!Becomes
    <3> QED BY <3>4 DEF Sweep!Next
  <2>3. CASE Die(e) /\ AtWork(e)
    <3>1. \A f \in Execs : ~AtWork(f)'
      BY <1>0, <2>3 DEF Die, Idle, Sole, AtWork
    <3>2. sweepBusy = {"sweep"} /\ sweepBusy' = {} /\ UNCHANGED sweep
      BY <2>3, <3>1, BusySweep DEF Die
    <3>3. Sweep!Vanish("sweep")
      BY <3>2 DEF sweepRow, Sweep!Vanish
    <3> QED BY <3>3 DEF Sweep!Next
  <2>4. CASE Read(e) \/ ClaimRefused(e) \/ CreateRuns(e) \/ Dispatch(e) \/ (Die(e) /\ ~AtWork(e))
    <3>1. AtWork(e)' <=> AtWork(e)
      <4>1. CASE Read(e)
        BY <4>1 DEF Read, Idle, AtWork
      <4>2. CASE ClaimRefused(e) \/ (Die(e) /\ ~AtWork(e))
        BY <4>2 DEF ClaimRefused, Die, Return, Idle, AtWork
      <4>3. CASE CreateRuns(e)
        BY <4>3 DEF CreateRuns, WorkOn, AtWork
      <4>4. CASE Dispatch(e)
        <5>1. exec[e] \in ExecState /\ exec[e].pc = "queueing"
          BY <4>4 DEF Dispatch
        <5>2. exec'[e].pc = "dispatch"
          BY <4>4, <5>1 DEF Dispatch, ExecState
        <5> QED BY <5>1, <5>2 DEF AtWork
      <4> QED BY <2>4, <4>1, <4>2, <4>3, <4>4
    <3>2. \A f \in Execs \ {e} : exec'[f] = exec[f]
      BY <2>4 DEF Read, ClaimRefused, CreateRuns, Dispatch, Die, Return
    <3>3. \A f \in Execs : AtWork(f)' <=> AtWork(f)
      BY <3>1, <3>2 DEF AtWork
    <3>4. UNCHANGED sweep
      BY <2>4 DEF Read, ClaimRefused, CreateRuns, Dispatch, Die
    <3> QED BY <3>3, <3>4, AsBusy DEF sweepRow
  <2>5. CASE Look(e)
    <3>1. \A f \in Execs : AtWork(f)' <=> AtWork(f)
      BY <2>5, LookMoves, LookStates DEF AtWork
    <3> QED BY <2>5, <3>1, LookMoves, AsBusy DEF sweepRow
  <2> QED BY <1>1, <2>1, <2>2, <2>3, <2>4, <2>5 DEF ExecStep
<1>2. CASE Reap \/ ReconcileFail
  BY <1>2 DEF Reap, ReconcileFail, fail_active, ACTIVE, sweepRow, sweepBusy, Sweep!Next,
              Sweep!GiveUp, Sweep!Becomes
<1>3. CASE ReconcileReset
  BY <1>3 DEF ReconcileReset, sweepRow, sweepBusy, Sweep!Next, Sweep!PutBack, Sweep!Becomes
<1>4. CASE Requeue \/ UNCHANGED vars
  BY <1>4 DEF Requeue, vars, sweepRow, sweepBusy
<1>5. ASSUME NEW r \in RunIds, RunStep(r) \/ RunJobLost(r) \/ RunResultExpires(r) PROVE Seen
  BY <1>5 DEF RunStep, RunClaims, RunReports, ReconcileRun, RunJobLost, RunResultExpires,
              sweepRow, sweepBusy
<1> QED BY <1>0, <1>1, <1>2, <1>3, <1>4, <1>5 DEF Next

\* The child rows implement RowContract whatever befalls the fan-out, giving up
\* live executions included; the sweep's own row does until then.
THEOREM ImplementsRowContract == Spec => RowContractKept
<1>1. Init => Children!Init
  BY DEF Init, Children!Init
<1>2. OnceInv /\ [Next]_vars
        => [Children!Next]_<<run, {r \in RunIds : runJob[r] = "started"}>>
  BY ChildContract
<1>3. FanoutInv /\ [Next]_vars
        => [Unstalled' => [Sweep!Next]_<<sweepRow, sweepBusy>>]_vars
  BY SweepContract
<1>4. FanoutInv => OnceInv
  BY DEF FanoutInv, OnceInv
<1> QED BY <1>1, <1>2, <1>3, <1>4, FanoutKept, PTL DEF Spec, RowContractKept, Children!Spec

\* What the contract gives its clients, for the child rows.
Client == INSTANCE RowContract_proofs
    WITH Rows <- RunIds, row <- run, busy <- {r \in RunIds : runJob[r] = "started"}

\* A cell that is done stays done, and only its own job says so: no resumed
\* fan-out resets it, whichever executions are given up.
THEOREM DoneCellsStay == Spec => Children!DoneIsFinal /\ Children!DoneIsReported
<1>1. Children!Init => Client!Init
  BY DEF Children!Init, Client!Init
<1>2. [Children!Next]_<<run, {r \in RunIds : runJob[r] = "started"}>>
        => [Client!Next]_<<run, {r \in RunIds : runJob[r] = "started"}>>
  BY DEF Children!Next, Children!Create, Children!Take, Children!Report, Children!Vanish,
         Children!GiveUp, Children!PutBack, Children!Becomes,
         Client!Next, Client!Create, Client!Take, Client!Report, Client!Vanish,
         Client!GiveUp, Client!PutBack, Client!Becomes
<1>3. Children!Spec => Client!Spec
  BY <1>1, <1>2, PTL DEF Children!Spec, Client!Spec
<1>4. Spec => Client!DoneIsFinal /\ Client!DoneIsReported
  BY <1>3, ImplementsRowContract, Client!DoneStays, Client!DoneIsFirstHand, PTL DEF RowContractKept
<1> QED BY <1>4, PTL DEF Children!DoneIsFinal, Children!DoneIsReported,
                         Client!DoneIsFinal, Client!DoneIsReported

=============================================================================
