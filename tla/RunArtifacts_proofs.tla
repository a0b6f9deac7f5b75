------------------------- MODULE RunArtifacts_proofs -------------------------
(***************************************************************************)
(* Theorems about RunArtifacts, for any seeds, executions and requests,    *)
(* whatever processes serve them, and any bounds on the faults.            *)
(***************************************************************************)
EXTENDS RunArtifacts, TLAPS

USE SeedsAssumption, NoneAssumption, CallersAssumption, FilesAssumption, BoundsAssumption

-----------------------------------------------------------------------------
(* The inductive invariants.                                              *)

Writing(e) == exec[e].pc \in {"simulate", "cache"}

\* One execution works at a time, on a row that is running while it writes.
OneWriter ==
    /\ \A e \in Execs : Working(e) => ~exec[e].dead /\ job = "started"
    /\ \A e, f \in Execs : Working(e) /\ Working(f) => e = f
    /\ \A e \in Execs : Writing(e) => run = "running"
    /\ \A e \in Execs : exec[e].pc = "idle" =>
         ~exec[e].dead /\ \A s \in Seeds : child[e][s] = "todo"

\* What the replicate of a seed has made of its files.
Progress(e, s) ==
    /\ child[e][s] = "open" => data[s] = e
    /\ child[e][s] \in {"closed", "marking"} => data[s] = "whole"
    /\ child[e][s] = "marked" => Whole(s)
    /\ tier = "micro" /\ child[e][s] \in {"cleared", "open", "closed"} => marker[s] = "absent"
    /\ exec[e].pc = "cache" => child[e][s] = "marked"

\* What the report at work has of its run.
Covering ==
    /\ report.pc # "idle" => report.status = "running" /\ run = "done"
    /\ report.pc = "stage" => report.staged \cup report.todo = Seeds
    /\ report.pc = "read" => report.read \cup report.todo = Seeds
    /\ report.status = "done" => report.read = Seeds

DirectoryInv ==
    /\ Unstalled => OneWriter /\ Covering /\ \A e \in Execs : Writing(e) => \A s \in Seeds : Progress(e, s)
    /\ MarkerVouches /\ DoneIsReadable

\* A caller that has yet to open its temp file for a seed.
Ahead(x, s) ==
    \/ x \in Requests /\ caller[x].pc = "idle"
    \/ x \in Execs /\ exec[x].pc \in {"idle", "simulate"}
    \/ s \in caller[x].todo /\ ~(At(x) = s /\ caller[x].pc \in {"filling", "filled", "swapped"})

Writes(x) == caller[x].pc \in {"filling", "filled"}

\* A file was created by a caller, for the seed and the process its name tells;
\* no file has two names, and none is there before its caller comes to it.
Names ==
    /\ \A s \in Seeds, p \in Pids : temp[s][p] # None =>
         /\ \E x \in Callers : temp[s][p] = Node(x, s) /\ pid(x) = p
         /\ cache[s] # temp[s][p]
    /\ \A s \in Seeds : cache[s] # None => \E x \in Callers : cache[s] = Node(x, s)
    /\ \A x \in Callers, s \in Seeds : Ahead(x, s) =>
         cache[s] # Node(x, s) /\ \A p \in Pids : temp[s][p] # Node(x, s)

\* Who is at work on which replicate and which file.
AtWork ==
    /\ \A x \in Callers : caller[x].pc = "computed" => At(x) \in caller[x].todo
    /\ \A e \in Execs : caller[e].pc # "idle" => exec[e].pc = "cache"
    /\ \A x \in Callers : Writes(x) =>
         \E y \in Callers : caller[x].node = Node(y, At(x)) /\ pid(y) = pid(x)

\* A temp file that is not filled is being filled, or its execution has died.
Fills ==
    \A s \in Seeds, p \in Pids : temp[s][p] \notin filled \cup {None} =>
        \/ \E y \in Callers : caller[y].pc = "filling" /\ caller[y].node = temp[s][p]
        \/ p \in Execs /\ exec[p].pc \in {"recorded", "over"}

TempInv == Names /\ AtWork /\ Fills /\ TornOnlyBetweenThreads

\* A request at work is one of a done run, and keeps the temp file it opened
\* unless a thread of its process takes it.
Asking ==
    \A q \in Requests :
        /\ Unstalled /\ caller[q].pc # "idle" => run = "done"
        /\ Writes(q) => temp[At(q)][pid(q)] # None \/ Beside(q) # {}

AnswerInv == Asking /\ AnswersAreComplete

-----------------------------------------------------------------------------
(* Types.                                                                   *)

\* The row and its job, the executions, the replicates and their files.
RunType ==
    /\ tier \in {"micro", "macro"}
    /\ run \in ACTIVE \cup {"done", "failed"}
    /\ job \in {"queued", "started", "finished", "failed"}
    /\ exec \in [Execs -> ExecState]
    /\ child \in [Execs -> [Seeds -> ChildState]]
    /\ data \in [Seeds -> {"absent", "whole"} \cup Execs]
    /\ marker \in [Seeds -> {"absent", "torn", "whole"}]

\* The caches and who is at them.
InHand(c) ==
    /\ c \in CallerState
    /\ c.pc \in {"computed", "filling", "filled", "swapped"} => c.at \in Seeds
    /\ c.pc \in {"filling", "filled"} => c.node \in Nodes

CacheType ==
    /\ cache \in [Seeds -> Nodes \cup {None}]
    /\ temp \in [Seeds -> [Pids -> Nodes \cup {None}]]
    /\ filled \subseteq Nodes
    /\ caller \in [Callers -> CallerState]
    /\ \A x \in Callers : InHand(caller[x])

UsedType == used \in [{"deaths", "stalls", "requeues"} -> Nat]

LEMMA TypeParts == TypeOK <=> RunType /\ CacheType /\ report \in ReportState /\ UsedType
BY DEF TypeOK, RunType, CacheType, UsedType, InHand, At

LEMMA SpendType ==
    ASSUME UsedType, NEW what \in {"deaths", "stalls", "requeues"}, Spend(what)
    PROVE  /\ UsedType' /\ used'.stalls >= used.stalls
           /\ what = "stalls" => used'.stalls # 0
BY DEF UsedType, Spend

\* An execution moves: the others stay where they are.
LEMMA ExecMoves ==
    ASSUME exec \in [Execs -> ExecState], NEW e \in Execs,
           NEW pc \in {"idle", "simulate", "cache", "recorded", "over"},
           exec' = [exec EXCEPT ![e].pc = pc]
    PROVE  /\ exec' \in [Execs -> ExecState]
           /\ exec'[e].pc = pc /\ exec'[e].dead = exec[e].dead
           /\ \A f \in Execs \ {e} : exec'[f] = exec[f]
<1> DEFINE new == [exec[e] EXCEPT !.pc = pc]
<1>1. new \in ExecState /\ new.pc = pc /\ new.dead = exec[e].dead
  BY DEF ExecState
<1>2. exec' = [exec EXCEPT ![e] = new]
  OBVIOUS
<1> HIDE DEF new
<1> QED BY <1>1, <1>2

\* A caller moves to a state that is in order.
LEMMA GoesType ==
    ASSUME caller \in [Callers -> CallerState], \A x \in Callers : InHand(caller[x]),
           NEW x \in Callers, NEW to, InHand(to), Goes(x, to)
    PROVE  caller' \in [Callers -> CallerState] /\ \A y \in Callers : InHand(caller'[y])
<1>1. /\ caller' = [caller EXCEPT ![x] = to] /\ to \in CallerState
  BY DEF Goes, InHand
<1>2. caller' \in [Callers -> CallerState]
  BY <1>1
<1>3. ASSUME NEW y \in Callers PROVE InHand(caller'[y])
  <2>1. caller'[y] = IF y = x THEN to ELSE caller[y]
    BY <1>1
  <2> QED BY <2>1
<1> QED BY <1>2, <1>3

LEMMA AwayType == InHand(Away) /\ Away \in CallerState
BY DEF InHand, Away, CallerState

LEMMA MarkedSeeds == Marked \in SUBSET Seeds
BY DEF Marked

LEMMA ListingType == InHand(Listing) /\ Listing.pc = "next" /\ Listing.took = Marked
BY MarkedSeeds DEF InHand, Listing, Away, CallerState

LEMMA RefusedType == InHand([Away EXCEPT !.pc = "refused"])
BY DEF InHand, Away, CallerState

LEMMA InitType == Init => TypeOK
<1> SUFFICES ASSUME Init PROVE RunType /\ CacheType /\ report \in ReportState /\ UsedType
  BY TypeParts
<1>1. RunType
  BY DEF Init, Fresh, Legacy, RunType, ExecState, ChildState, ACTIVE
<1>2. CacheType
  BY AwayType DEF Init, NoFile, CacheType
<1>3. report \in ReportState /\ UsedType
  BY DEF Init, ReportState, UsedType, ACTIVE
<1> QED BY <1>1, <1>2, <1>3

\* What the executions do to the row, the job and their own state.
LEMMA RowType ==
    ASSUME RunType, NEW e \in Execs, UNCHANGED <<tier, child, files>>,
           \/ Start(e) \/ ClaimRefused(e) \/ Return(e) \/ SimulationFails(e) \/ Die(e)
           \/ Precompute(e) \/ Finish(e) \/ \E s \in Seeds : PrecomputeFails(e, s)
    PROVE  RunType'
<1>1. PICK pc \in {"idle", "simulate", "cache", "recorded", "over"} :
          exec' = [exec EXCEPT ![e].pc = pc]
  BY DEF Start, ClaimRefused, Return, SimulationFails, Die, Precompute, Finish,
         PrecomputeFails, Over, Record
<1>2. exec' \in [Execs -> ExecState]
  BY <1>1, ExecMoves DEF RunType
<1>3. run' \in ACTIVE \cup {"done", "failed"} /\ job' \in {"queued", "started", "finished", "failed"}
  BY DEF RunType, Start, ClaimRefused, Return, SimulationFails, Die, Precompute, Finish,
         PrecomputeFails, Over, Record, ACTIVE
<1> QED BY <1>2, <1>3 DEF RunType, files

\* A replicate goes on: the child and at most one of its two files move.
LEMMA ChildMoves ==
    ASSUME RunType, NEW e \in Execs, NEW s \in Seeds,
           NEW from \in ChildState, NEW to \in ChildState, Child(e, s, from, to)
    PROVE  /\ exec[e].pc = "simulate" /\ child[e][s] = from
           /\ child' \in [Execs -> [Seeds -> ChildState]]
           /\ child'[e][s] = to
           /\ \A t \in Seeds \ {s} : child'[e][t] = child[e][t]
           /\ \A f \in Execs \ {e} : child'[f] = child[f]
           /\ UNCHANGED <<tier, row, caching, report, used>>
<1> DEFINE new == [child[e] EXCEPT ![s] = to]
<1>1. /\ new \in [Seeds -> ChildState] /\ new[s] = to
      /\ \A t \in Seeds \ {s} : new[t] = child[e][t]
  BY DEF RunType
<1>2. child' = [child EXCEPT ![e] = new]
  BY DEF Child
<1> HIDE DEF new
<1> QED BY <1>1, <1>2 DEF RunType, Child

LEMMA ReplicateType ==
    ASSUME RunType, NEW e \in Execs, NEW s \in Seeds, Replicate(e, s)
    PROVE  RunType' /\ UNCHANGED <<row, caching, report, used>>
<1>1. PICK from \in ChildState, to \in ChildState : Child(e, s, from, to)
  BY DEF Replicate, Clear, Open, Close, OpenMarker, Mark, ChildState
<1>2. child' \in [Execs -> [Seeds -> ChildState]] /\ UNCHANGED <<tier, row, caching, report, used>>
  BY <1>1, ChildMoves
<1>3. data' \in [Seeds -> {"absent", "whole"} \cup Execs] /\ marker' \in [Seeds -> {"absent", "torn", "whole"}]
  BY DEF RunType, Replicate, Clear, Open, Close, OpenMarker, Mark
<1> QED BY <1>2, <1>3 DEF RunType, row

LEMMA PidType == \A x \in Callers : pid(x) \in Pids
BY DEF pid, Pids, Callers

LEMMA NodeType == \A x \in Callers, s \in Seeds : Node(x, s) \in Nodes
BY DEF Node, Nodes

\* What a caller does to its state and to the files of the cache.
LEMMA CacheStepType ==
    ASSUME CacheType, RunType, NEW x \in Callers, CacheStep(x)
    PROVE  CacheType' /\ UNCHANGED Outside
<1> DEFINE c == caller[x]
<1>0. InHand(c) /\ c \in CallerState
  BY DEF CacheType
<1> DEFINE InOrder == caller' \in [Callers -> CallerState] /\ \A y \in Callers : InHand(caller'[y])
<1>a. ASSUME NEW to, InHand(to), Goes(x, to) PROVE InOrder
  BY <1>a, GoesType DEF CacheType
<1>1. ASSUME NEW s \in Seeds, Hit(x, s) \/ Reduce(x, s) PROVE CacheType' /\ UNCHANGED Outside
  <2>1. InHand([c EXCEPT !.todo = @ \ {s}])
    BY <1>0, <1>1 DEF InHand, CallerState, Hit, Reduce, Turn
  <2>2. InHand([c EXCEPT !.pc = "computed", !.at = s])
    BY <1>0 DEF InHand, CallerState
  <2>3. InOrder
    BY <1>1, <1>a, <2>1, <2>2 DEF Hit, Reduce
  <2> QED BY <1>1, <2>3 DEF CacheType, Hit, Reduce
<1>2. ASSUME NEW s \in Seeds, Unreadable(x, s) PROVE CacheType' /\ UNCHANGED Outside
  <2>1. InOrder
    BY <1>2, <1>a, RefusedType DEF Unreadable, Refuse
  <2> QED BY <1>2, <2>1 DEF CacheType, Unreadable
<1>3. CASE OpenTemp(x)
  <2> DEFINE s == At(x)
             node == IF temp[s][pid(x)] = None THEN Node(x, s) ELSE temp[s][pid(x)]
  <2>1. s \in Seeds
    BY <1>3, <1>0 DEF OpenTemp, InHand, At
  <2>2. node \in Nodes
    BY <2>1, PidType, NodeType DEF CacheType
  <2>3. InHand([c EXCEPT !.pc = "filling", !.node = node])
    <3> HIDE DEF node
    <3> QED BY <1>0, <2>1, <2>2 DEF InHand, CallerState, At
  <2>4. InOrder
    BY <1>3, <1>a, <2>3 DEF OpenTemp
  <2>5. temp' \in [Seeds -> [Pids -> Nodes \cup {None}]]
    <3>1. temp' = [temp EXCEPT ![s] = [temp[s] EXCEPT ![pid(x)] = node]]
      BY <1>3 DEF OpenTemp
    <3> HIDE DEF node
    <3> QED BY <3>1, <2>1, <2>2 DEF CacheType
  <2> QED BY <1>3, <2>4, <2>5 DEF CacheType, OpenTemp
<1>4. CASE Fill(x)
  <2>1. InHand([c EXCEPT !.pc = "filled"])
    BY <1>0, <1>4 DEF InHand, CallerState, Fill
  <2>2. InOrder
    BY <1>4, <1>a, <2>1 DEF Fill
  <2>3. filled' \subseteq Nodes
    BY <1>0, <1>4 DEF Fill, InHand, CacheType
  <2> QED BY <1>4, <2>2, <2>3 DEF CacheType, Fill
<1>5. CASE Swap(x)
  <2>1. At(x) \in Seeds /\ InHand([c EXCEPT !.pc = "swapped"])
    BY <1>0, <1>5 DEF InHand, CallerState, Swap, At
  <2>2. InOrder
    BY <1>5, <1>a, <2>1 DEF Swap
  <2>3. temp' \in [Seeds -> [Pids -> Nodes \cup {None}]] /\ cache' \in [Seeds -> Nodes \cup {None}]
    BY <1>5, <2>1, PidType DEF Swap, CacheType
  <2> QED BY <1>5, <2>2, <2>3 DEF CacheType, Swap
<1>6. CASE SwapFails(x)
  <2>1. InOrder
    BY <1>6, <1>a, RefusedType DEF SwapFails, Refuse
  <2> QED BY <1>6, <2>1 DEF CacheType, SwapFails
<1>7. CASE Unlink(x)
  <2>1. At(x) \in Seeds /\ InHand(Served(x))
    BY <1>0, <1>7 DEF InHand, CallerState, Unlink, At, Served
  <2>2. InOrder
    BY <1>7, <1>a, <2>1 DEF Unlink
  <2>3. temp' \in [Seeds -> [Pids -> Nodes \cup {None}]]
    BY <1>7, <2>1 DEF Unlink, CacheType
  <2> QED BY <1>7, <2>2, <2>3 DEF CacheType, Unlink
<1>8. CASE Answer(x)
  <2>1. InHand([c EXCEPT !.pc = "answered"])
    BY <1>0 DEF InHand, CallerState
  <2>2. InOrder
    BY <1>8, <1>a, <2>1 DEF Answer
  <2> QED BY <1>8, <2>2 DEF CacheType, Answer
<1> QED BY <1>1, <1>2, <1>3, <1>4, <1>5, <1>6, <1>7, <1>8 DEF CacheStep

LEMMA ReportEndsType ==
    ASSUME report \in ReportState, NEW outcome \in {"done", "failed"}
    PROVE  /\ ReportEnds(outcome) \in ReportState
           /\ ReportEnds(outcome).status = outcome /\ ReportEnds(outcome).pc = "idle"
           /\ ReportEnds(outcome).read = report.read
BY DEF ReportEnds, ReportState, ACTIVE

\* The report and its operator leave everything else alone.
LEMMA ReportType ==
    ASSUME report \in ReportState, UsedType, ReportStep \/ ReportDies \/ ReportRequeue
    PROVE  /\ report' \in ReportState /\ UsedType'
           /\ UNCHANGED <<tier, row, child, files, caching>>
           /\ used'.stalls >= used.stalls
<1> USE DEF Sets
<1>0. used.stalls \in Nat
  BY DEF UsedType
<1>1. CASE ReportStart
  <2>1. [report EXCEPT !.status = "running", !.job = "started", !.pc = "clear"] \in ReportState
    BY DEF ReportState, ACTIVE
  <2> QED BY <1>1, <1>0, <2>1, ReportEndsType DEF ReportStart, UsedType
<1>2. CASE ReportClear
  <2>1. [report EXCEPT !.pc = "stage", !.todo = Marked, !.staged = {}] \in ReportState
    BY MarkedSeeds DEF ReportState
  <2>2. [ReportEnds("failed") EXCEPT !.staged = {}] \in ReportState
    BY DEF ReportEnds, ReportState, ACTIVE
  <2>3. report' \in ReportState
    <3>1. CASE Marked = {}
      BY <1>2, <2>2, <3>1 DEF ReportClear
    <3>2. CASE Marked # {}
      BY <1>2, <2>1, <3>2 DEF ReportClear
    <3> QED BY <3>1, <3>2
  <2>4. UNCHANGED <<used, tier, row, child, files, caching>>
    BY <1>2 DEF ReportClear
  <2> QED BY <1>0, <2>3, <2>4 DEF UsedType
<1>3. CASE ReportFinish
  <2> PICK outcome \in {"done", "failed"} : report' = ReportEnds(outcome)
    BY <1>3 DEF ReportFinish
  <2>1. report' \in ReportState
    BY ReportEndsType
  <2> QED BY <1>3, <1>0, <2>1 DEF ReportFinish, UsedType
<1>4. ASSUME NEW s \in Seeds, ReportStage(s)
      PROVE  report' \in ReportState /\ UNCHANGED <<used, tier, row, child, files, caching>>
  BY <1>4 DEF ReportStage, ReportState
<1>5. ASSUME NEW s \in Seeds, ReportRead(s)
      PROVE  report' \in ReportState /\ UNCHANGED <<used, tier, row, child, files, caching>>
  <2>1. [report EXCEPT !.todo = @ \ {s}, !.read = @ \cup {s}] \in ReportState
    BY DEF ReportState
  <2> QED BY <1>5, <2>1, ReportEndsType DEF ReportRead
<1>6. CASE ReportDies
  <2>1. [report EXCEPT !.status = "failed", !.job = "failed", !.pc = "idle"] \in ReportState
    BY DEF ReportState, ACTIVE
  <2> QED BY <1>6, <2>1, SpendType DEF ReportDies
<1>7. CASE ReportRequeue
  <2>1. [report EXCEPT !.job = "queued"] \in ReportState
    BY DEF ReportState
  <2> QED BY <1>7, <2>1, SpendType DEF ReportRequeue
<1> QED BY <1>1, <1>2, <1>3, <1>4, <1>5, <1>6, <1>7 DEF ReportStep, UsedType

\* An execution at its row: what it does to its caller and to the bounds.
LEMMA RowCacheType ==
    ASSUME CacheType, UsedType, NEW e \in Execs,
           \/ Start(e) \/ ClaimRefused(e) \/ Return(e) \/ SimulationFails(e) \/ Die(e)
           \/ Precompute(e) \/ Finish(e) \/ \E s \in Seeds : PrecomputeFails(e, s)
    PROVE  /\ CacheType' /\ UsedType' /\ UNCHANGED <<tier, child, files, report>>
           /\ used'.stalls >= used.stalls
<1>0. e \in Callers
  BY DEF Callers
<1>1. CASE Start(e) \/ ClaimRefused(e) \/ Return(e) \/ SimulationFails(e)
  BY <1>1 DEF Start, ClaimRefused, Return, SimulationFails, CacheType, UsedType, caching
<1>2. CASE Die(e)
  <2>1. Goes(e, Away) /\ Spend("deaths") /\ UNCHANGED <<tier, child, files, report, cache, temp, filled>>
    BY <1>2 DEF Die, Goes
  <2> QED BY <1>0, <2>1, GoesType, AwayType, SpendType DEF CacheType
<1>3. CASE Precompute(e)
  <2>1. Goes(e, Listing) /\ UNCHANGED <<tier, child, files, report, used, cache, temp, filled>>
    BY <1>3 DEF Precompute
  <2> QED BY <1>0, <2>1, GoesType, ListingType DEF CacheType, UsedType
<1>4. CASE Finish(e) \/ \E s \in Seeds : PrecomputeFails(e, s)
  <2>1. Goes(e, Away) /\ UNCHANGED <<tier, child, files, report, used, cache, temp, filled>>
    BY <1>4 DEF Finish, PrecomputeFails
  <2> QED BY <1>0, <2>1, GoesType, AwayType DEF CacheType, UsedType
<1> QED BY <1>1, <1>2, <1>3, <1>4

\* A request asks, an execution stalls, reconciliation and the operator.
LEMMA OtherType ==
    ASSUME RunType, CacheType, UsedType,
           \/ \E e \in Execs : Stall(e)
           \/ Reap \/ Requeue \/ \E q \in Requests : Ask(q)
    PROVE  /\ RunType' /\ CacheType' /\ UsedType' /\ UNCHANGED <<tier, child, files, report>>
           /\ used'.stalls >= used.stalls
<1>1. CASE \E e \in Execs : Stall(e)
  <2> PICK e \in Execs : Stall(e)
    BY <1>1
  <2>0. Spend("stalls") /\ UNCHANGED <<tier, child, files, report, caching>>
    BY DEF Stall
  <2>1. UsedType' /\ used'.stalls >= used.stalls
    BY <2>0, SpendType
  <2>2. exec' \in [Execs -> ExecState]
    <3>1. exec \in [Execs -> ExecState]
      BY DEF RunType
    <3> PICK x \in ExecState : exec[e] = x
      BY <3>1
    <3>2. [x EXCEPT !.dead = TRUE] \in ExecState
      BY DEF ExecState
    <3>3. exec' = [exec EXCEPT ![e] = [x EXCEPT !.dead = TRUE]]
      BY DEF Stall
    <3> QED BY <3>1, <3>2, <3>3
  <2>3. run' \in ACTIVE \cup {"done", "failed"} /\ job' = "failed"
    BY DEF Stall, RunType
  <2> QED BY <2>0, <2>1, <2>2, <2>3 DEF RunType, CacheType, caching, files
<1>2. CASE Reap
  BY <1>2 DEF Reap, RunType, CacheType, UsedType, caching, files
<1>3. CASE Requeue
  BY <1>3, SpendType DEF Requeue, RunType, CacheType, caching, files
<1>4. CASE \E q \in Requests : Ask(q)
  <2> PICK q \in Requests : Ask(q)
    BY <1>4
  <2>1. q \in Callers
    BY DEF Callers
  <2>2. caller' \in [Callers -> CallerState] /\ \A y \in Callers : InHand(caller'[y])
    BY <2>1, GoesType, ListingType, RefusedType DEF Ask, Refuse, CacheType
  <2> QED BY <2>2 DEF Ask, RunType, CacheType, UsedType, row, files
<1> QED BY <1>1, <1>2, <1>3, <1>4

LEMMA StepType == TypeOK /\ [Next]_vars => TypeOK' /\ used'.stalls >= used.stalls
<1> SUFFICES ASSUME RunType, CacheType, report \in ReportState, UsedType, [Next]_vars
             PROVE  /\ RunType' /\ CacheType' /\ report' \in ReportState /\ UsedType'
                    /\ used'.stalls >= used.stalls
  <2>1. TypeOK' <=> RunType' /\ CacheType' /\ report' \in ReportState /\ UsedType'
    BY DEF TypeOK, RunType, CacheType, UsedType, InHand, At
  <2> QED BY <2>1, TypeParts
<1>0. used.stalls \in Nat
  BY DEF UsedType
<1>1. CASE UNCHANGED vars
  BY <1>0, <1>1 DEF vars, row, files, caching, RunType, CacheType, UsedType
<1>2. ASSUME NEW e \in Execs, NEW s \in Seeds, Replicate(e, s)
      PROVE  /\ RunType' /\ CacheType' /\ report' \in ReportState /\ UsedType'
             /\ used'.stalls >= used.stalls
  BY <1>0, <1>2, ReplicateType DEF row, caching, CacheType, UsedType
<1>3. ASSUME NEW x \in Callers, CacheStep(x)
      PROVE  /\ RunType' /\ CacheType' /\ report' \in ReportState /\ UsedType'
             /\ used'.stalls >= used.stalls
  BY <1>0, <1>3, CacheStepType DEF Outside, row, files, RunType, UsedType
<1>4. ASSUME NEW e \in Execs,
             \/ Start(e) \/ ClaimRefused(e) \/ Return(e) \/ SimulationFails(e) \/ Die(e)
             \/ Precompute(e) \/ Finish(e) \/ \E s \in Seeds : PrecomputeFails(e, s)
      PROVE  /\ RunType' /\ CacheType' /\ report' \in ReportState /\ UsedType'
             /\ used'.stalls >= used.stalls
  BY <1>4, RowType, RowCacheType
<1>5. CASE ReportStep \/ ReportDies \/ ReportRequeue
  BY <1>5, ReportType DEF row, files, caching, RunType, CacheType
<1>6. CASE (\E e \in Execs : Stall(e)) \/ Reap \/ Requeue \/ \E q \in Requests : Ask(q)
  BY <1>6, OtherType
<1> QED BY <1>1, <1>2, <1>3, <1>4, <1>5, <1>6 DEF Next, ExecStep, RequestStep, Callers

\* Every variable keeps to its domain, and a caller that writes a cache file has a
\* replicate and a file in hand.
THEOREM TypeCorrect == Spec => []TypeOK
BY InitType, StepType, PTL DEF Spec

-----------------------------------------------------------------------------
(* The directory of the run.                                                *)

Vouch == tier = "micro" => \A s \in Marked : Whole(s)
Readable == run = "done" => \A s \in Seeds : Whole(s)
InStep == \A e \in Execs : Writing(e) => \A s \in Seeds : Progress(e, s)

\* DirectoryInv without its condition.
Orderly == OneWriter /\ InStep /\ Vouch /\ Readable

LEMMA DirectoryParts == DirectoryInv <=> (Unstalled => Orderly /\ Covering)
BY DEF DirectoryInv, Orderly, MarkerVouches, DoneIsReadable, Vouch, Readable, InStep

LEMMA InitDirectory == Init => DirectoryInv
<1> SUFFICES ASSUME Init PROVE Orderly /\ Covering
  BY DirectoryParts
<1>1. Readable /\ Vouch
  BY DEF Init, Fresh, Legacy, Readable, Vouch, Marked, Whole
<1> QED BY <1>1 DEF Init, Orderly, OneWriter, Covering, InStep, Writing, Working

\* A replicate is written while its run is running, beside no other execution.
LEMMA ReplicateOrderly ==
    ASSUME RunType, Orderly, Covering, NEW e \in Execs, NEW s \in Seeds, Replicate(e, s)
    PROVE  Orderly' /\ Covering'
<1>0. UNCHANGED <<row, report>>
  BY ReplicateType
<1>1. PICK from \in ChildState, to \in ChildState : Child(e, s, from, to)
  BY DEF Replicate, Clear, Open, Close, OpenMarker, Mark, ChildState
<1>2. /\ exec[e].pc = "simulate" /\ child[e][s] = from /\ child'[e][s] = to
      /\ \A t \in Seeds \ {s} : child'[e][t] = child[e][t]
      /\ \A f \in Execs \ {e} : child'[f] = child[f]
      /\ UNCHANGED <<tier, run, job, exec, report>>
  BY <1>0, <1>1, ChildMoves DEF row
<1>3. /\ Writing(e) /\ Working(e) /\ run = "running"
      /\ \A f \in Execs : Writing(f) => f = e
  BY <1>2 DEF Orderly, OneWriter, Writing, Working
<1>4. OneWriter' /\ Covering' /\ Readable'
  BY <1>2, <1>3 DEF Orderly, OneWriter, Covering, Readable, Working, Writing
<1>5. /\ \A t \in Seeds \ {s} : data'[t] = data[t] /\ marker'[t] = marker[t]
      /\ data' \in [Seeds -> {"absent", "whole"} \cup Execs]
      /\ marker' \in [Seeds -> {"absent", "torn", "whole"}]
  BY DEF RunType, Replicate, Clear, Open, Close, OpenMarker, Mark
<1>6. \A t \in Seeds : Progress(e, t)
  BY <1>3 DEF Orderly, InStep
<1>7. Progress(e, s)' /\ (tier = "micro" /\ marker'[s] # "absent" => Whole(s)')
  <2>0. tier = "micro" /\ marker[s] # "absent" => Whole(s)
    BY DEF Orderly, Vouch, Marked
  <2>1. CASE Clear(e, s)
    BY <2>1, <1>2 DEF Clear, Child, RunType, Progress, Whole
  <2>2. CASE Open(e, s)
    BY <2>2, <1>2, <1>6 DEF Open, Child, RunType, Progress, Whole
  <2>3. CASE Close(e, s)
    BY <2>3, <1>2, <1>6 DEF Close, Child, RunType, Progress, Whole
  <2>4. CASE OpenMarker(e, s)
    BY <2>4, <1>2, <1>6 DEF OpenMarker, Child, RunType, Progress, Whole
  <2>5. CASE Mark(e, s)
    BY <2>5, <1>2, <1>6 DEF Mark, Child, RunType, Progress, Whole
  <2> QED BY <2>1, <2>2, <2>3, <2>4, <2>5 DEF Replicate
<1>8. ASSUME NEW t \in Seeds \ {s} PROVE Progress(e, t)' /\ (Whole(t) <=> Whole(t)')
  BY <1>2, <1>5, <1>6 DEF Progress, Whole
<1>9. InStep'
  BY <1>2, <1>3, <1>7, <1>8 DEF InStep, Writing
<1>10. Vouch'
  BY <1>2, <1>5, <1>7, <1>8 DEF Orderly, Vouch, Marked
<1> QED BY <1>4, <1>9, <1>10 DEF Orderly

\* At the row, the files stay; what is recorded as done is whole.
LEMMA RowOrderly ==
    ASSUME RunType, Orderly, Covering, NEW e \in Execs,
           UNCHANGED <<tier, child, files, report>>,
           \/ Start(e) \/ ClaimRefused(e) \/ Return(e) \/ SimulationFails(e) \/ Die(e)
           \/ Precompute(e) \/ Finish(e) \/ \E s \in Seeds : PrecomputeFails(e, s)
    PROVE  Orderly' /\ Covering'
<1>1. PICK pc \in {"idle", "simulate", "cache", "recorded", "over"} :
          exec' = [exec EXCEPT ![e].pc = pc]
  BY DEF Start, ClaimRefused, Return, SimulationFails, Die, Precompute, Finish,
         PrecomputeFails, Over, Record
<1>2. /\ exec'[e].pc = pc /\ exec'[e].dead = exec[e].dead
      /\ \A f \in Execs \ {e} : exec'[f] = exec[f]
  BY <1>1, ExecMoves DEF RunType
<1>3. /\ Vouch' /\ UNCHANGED <<data, marker>>
      /\ \A s \in Seeds : Whole(s)' <=> Whole(s)
  BY DEF Orderly, Vouch, Marked, Whole, files
<1>4. CASE Start(e)
  <2>1. /\ exec[e].pc = "idle" /\ pc = "simulate" /\ job = "queued" /\ run \in CLAIMABLE
        /\ run' = "running" /\ job' = "started"
    BY <1>4, <1>1, <1>2 DEF Start, RunType
  <2>2. \A f \in Execs : ~Working(f)
    BY <2>1 DEF Orderly, OneWriter
  <2>3. OneWriter'
    BY <1>2, <2>1, <2>2 DEF Orderly, OneWriter, Working, Writing
  <2>4. Covering' /\ Readable'
    BY <2>1 DEF Covering, CLAIMABLE, Readable
  <2>5. InStep'
    <3>1. \A f \in Execs : Writing(f)' => f = e
      BY <1>2, <2>2 DEF Writing, Working
    <3>2. \A s \in Seeds : child[e][s] = "todo"
      BY <2>1 DEF Orderly, OneWriter
    <3>3. \A s \in Seeds : Progress(e, s)'
      BY <1>2, <2>1, <3>2 DEF Progress
    <3> QED BY <3>1, <3>3 DEF InStep
  <2> QED BY <1>3, <2>3, <2>4, <2>5 DEF Orderly
<1>5. CASE ClaimRefused(e)
  <2>1. exec[e].pc = "idle" /\ pc = "over" /\ job = "queued" /\ run' = run
    BY <1>5, <1>1, <1>2 DEF ClaimRefused, Over, RunType, ExecState
  <2>2. \A f \in Execs : ~Working(f)
    BY <2>1 DEF Orderly, OneWriter
  <2>3. \A f \in Execs : ~Working(f)' /\ ~Writing(f)'
    BY <1>2, <2>1, <2>2 DEF Working, Writing
  <2>4. OneWriter' /\ InStep'
    BY <1>2, <2>1, <2>3 DEF Orderly, OneWriter, InStep
  <2> QED BY <1>3, <2>1, <2>4 DEF Orderly, Covering, Readable
<1>6. CASE Return(e) \/ Die(e)
  <2>1. exec[e].pc # "idle" /\ Working(e) /\ pc = "over" /\ run' = run
    BY <1>6, <1>1, <1>2 DEF Return, Die, Over, Working, RunType, ExecState
  <2>2. \A f \in Execs : ~Working(f)' /\ ~Writing(f)'
    BY <1>2, <2>1 DEF Orderly, OneWriter, Working, Writing
  <2>3. OneWriter' /\ InStep'
    BY <1>2, <2>1, <2>2 DEF Orderly, OneWriter, InStep
  <2> QED BY <1>3, <2>1, <2>3 DEF Orderly, Covering, Readable
<1>7. CASE Precompute(e)
  <2>1. /\ exec[e].pc = "simulate" /\ pc = "cache" /\ run' = run /\ job' = job
        /\ \A s \in Seeds : child[e][s] = "marked"
    BY <1>7, <1>1, <1>2 DEF Precompute, Simulated, RunType, ExecState, row
  <2>2. OneWriter'
    BY <1>2, <2>1 DEF Orderly, OneWriter, Working, Writing
  <2>3. InStep'
    BY <1>2, <1>3, <2>1 DEF Orderly, InStep, Writing, Progress
  <2> QED BY <1>3, <2>1, <2>2, <2>3 DEF Orderly, Covering, Readable
<1>8. CASE SimulationFails(e) \/ Finish(e) \/ \E s \in Seeds : PrecomputeFails(e, s)
  <2>1. /\ Writing(e) /\ pc = "recorded" /\ job' = job
        /\ run' = "failed" \/ (run' = "done" /\ exec[e].pc = "cache")
    BY <1>8, <1>1, <1>2 DEF SimulationFails, Finish, PrecomputeFails, Record, Writing, RunType, ExecState
  <2>2. \A s \in Seeds : Progress(e, s)
    BY <2>1 DEF Orderly, InStep
  <2>3. run = "running" /\ Readable'
    BY <1>3, <2>1, <2>2 DEF Orderly, OneWriter, Readable, Progress
  <2>4. \A f \in Execs : ~Writing(f)' /\ (Working(f)' => f = e)
    BY <1>2, <2>1 DEF Orderly, OneWriter, Working, Writing
  <2>5. OneWriter' /\ InStep'
    BY <1>2, <2>1, <2>4 DEF Orderly, OneWriter, InStep, Working, Writing
  <2> QED BY <1>3, <2>3, <2>5 DEF Orderly, Covering
<1> QED BY <1>4, <1>5, <1>6, <1>7, <1>8

\* Reconciliation and the operator act when nobody is at work.
LEMMA RepairOrderly ==
    ASSUME RunType, Orderly, Covering, UNCHANGED <<tier, child, files, report>>, Reap \/ Requeue
    PROVE  Orderly' /\ Covering'
<1>0. UNCHANGED <<exec, data, marker>>
  BY DEF Reap, Requeue, files
<1>1. /\ UNCHANGED <<exec, data, marker>>
      /\ run' = run \/ (run \in ACTIVE /\ run' = "failed")
      /\ \A s \in Seeds : Whole(s)' <=> Whole(s)
  BY <1>0 DEF Reap, Requeue, Whole
<1>2. \A e \in Execs : ~Working(e)
  BY DEF Reap, Requeue, Live, Orderly, OneWriter
<1>3. \A e \in Execs : ~Working(e)' /\ ~Writing(e)'
  BY <1>1, <1>2 DEF Working, Writing
<1>4. OneWriter' /\ InStep'
  BY <1>1, <1>3 DEF Orderly, OneWriter, InStep
<1> QED BY <1>1, <1>4 DEF Orderly, Covering, Vouch, Marked, Readable, ACTIVE

\* The report finds every replicate of a done run, takes them one after another,
\* and is done when it has read them all.
LEMMA ReportCovers ==
    ASSUME RunType, report \in ReportState, UsedType, Orderly, Covering, ReportStep \/ ReportDies \/ ReportRequeue
    PROVE  Covering'
<1>0. UNCHANGED run
  BY ReportType DEF row
<1>1. run = "done" => Marked = Seeds
  BY DEF Orderly, Readable, Marked, Whole
<1> USE DEF Sets
<1>2. CASE ReportStart
  <2>1. CASE report' = ReportEnds("failed")
    BY <2>1, ReportEndsType DEF Covering
  <2>2. CASE /\ report' = [report EXCEPT !.status = "running", !.job = "started", !.pc = "clear"]
             /\ run = "done"
    <3>1. report'.status = "running" /\ report'.pc = "clear"
      BY <2>2 DEF ReportState
    <3> QED BY <1>0, <2>2, <3>1 DEF Covering
  <2> QED BY <1>2, <2>1, <2>2 DEF ReportStart
<1>3. CASE ReportClear
  <2>1. run = "done" /\ Marked = Seeds /\ report.status = "running"
    BY <1>1, <1>3 DEF ReportClear, Covering
  <2>2. report' = [report EXCEPT !.pc = "stage", !.todo = Marked, !.staged = {}]
    BY <1>3, <2>1 DEF ReportClear
  <2>3. /\ report'.status = "running" /\ report'.pc = "stage"
        /\ report'.todo = Seeds /\ report'.staged = {}
    BY <2>1, <2>2 DEF ReportState
  <2> QED BY <1>0, <2>1, <2>3 DEF Covering
<1>4. CASE ReportFinish
  <2>1. PICK outcome \in {"done", "failed"} :
          report' = ReportEnds(outcome) /\ (outcome = "done" => report.read = Seeds)
    BY <1>4 DEF ReportFinish, Covering
  <2> QED BY <2>1, ReportEndsType DEF Covering
<1>5. ASSUME NEW s \in Seeds, ReportStage(s) PROVE Covering'
  <2>1. run = "done" /\ marker[s] # "absent" /\ report.status = "running"
    BY <1>1, <1>5 DEF ReportStage, Covering, Marked
  <2>2. CASE report.todo \ {s} = {}
    BY <1>0, <1>5, <2>1, <2>2 DEF ReportStage, Covering, ReportState, First
  <2>3. CASE report.todo \ {s} # {}
    BY <1>0, <1>5, <2>1, <2>3 DEF ReportStage, Covering, ReportState, First
  <2> QED BY <2>2, <2>3
<1>6. ASSUME NEW s \in Seeds, ReportRead(s) PROVE Covering'
  <2>1. CASE report' = ReportEnds("failed")
    BY <2>1, ReportEndsType DEF Covering
  <2>2. CASE report' = [report EXCEPT !.todo = @ \ {s}, !.read = @ \cup {s}]
    BY <1>0, <1>6, <2>2 DEF ReportRead, Covering, ReportState
  <2> QED BY <1>6, <2>1, <2>2 DEF ReportRead
<1>7. CASE ReportDies
  BY <1>7 DEF ReportDies, Covering, ReportState
<1>8. CASE ReportRequeue
  BY <1>0, <1>8 DEF ReportRequeue, Covering, ReportState
<1> QED BY <1>2, <1>3, <1>4, <1>5, <1>6, <1>7, <1>8 DEF ReportStep

\* What writes, or moves the row, is an execution of the run.
LEMMA StepDirectory == TypeOK /\ DirectoryInv /\ [Next]_vars => DirectoryInv'
<1> SUFFICES ASSUME TypeOK, DirectoryInv, [Next]_vars, Unstalled' PROVE Orderly' /\ Covering'
  <2>1. DirectoryInv' <=> (Unstalled' => Orderly' /\ Covering')
    BY DEF DirectoryInv, Orderly, MarkerVouches, DoneIsReadable, Vouch, Readable, InStep
  <2> QED BY <2>1
<1>0. RunType /\ CacheType /\ report \in ReportState /\ UsedType
  BY TypeParts
<1>1. Orderly /\ Covering
  <2>1. used'.stalls >= used.stalls /\ used.stalls \in Nat
    BY <1>0, StepType DEF UsedType
  <2> QED BY <2>1, DirectoryParts DEF Unstalled
<1>2. ASSUME UNCHANGED <<tier, run, job, exec, child, data, marker, report>>
      PROVE  Orderly' /\ Covering'
  BY <1>1, <1>2 DEF Orderly, OneWriter, InStep, Progress, Vouch, Readable, Covering, Working,
                    Writing, Marked, Whole
<1>3. ASSUME NEW e \in Execs, NEW s \in Seeds, Replicate(e, s) PROVE Orderly' /\ Covering'
  BY <1>0, <1>1, <1>3, ReplicateOrderly
<1>4. ASSUME NEW x \in Callers, CacheStep(x) PROVE Orderly' /\ Covering'
  BY <1>0, <1>2, <1>4, CacheStepType DEF Outside, row, files
<1>5. ASSUME NEW e \in Execs,
             \/ Start(e) \/ ClaimRefused(e) \/ Return(e) \/ SimulationFails(e) \/ Die(e)
             \/ Precompute(e) \/ Finish(e) \/ \E s \in Seeds : PrecomputeFails(e, s)
      PROVE  Orderly' /\ Covering'
  BY <1>0, <1>1, <1>5, RowCacheType, RowOrderly
<1>6. CASE ReportStep \/ ReportDies \/ ReportRequeue
  <2>1. Covering' /\ UNCHANGED <<tier, row, child, files>>
    BY <1>0, <1>1, <1>6, ReportCovers, ReportType
  <2> QED BY <1>1, <2>1 DEF Orderly, OneWriter, InStep, Progress, Vouch, Readable, Working, Writing,
                        Marked, Whole, row, files
<1>7. CASE \E e \in Execs : Stall(e)
  <2>1. used'.stalls # 0
    BY <1>0, <1>7, SpendType DEF Stall
  <2> QED BY <2>1 DEF Unstalled
<1>8. CASE Reap \/ Requeue
  BY <1>0, <1>1, <1>8, OtherType, RepairOrderly
<1>9. CASE \E q \in Requests : Ask(q)
  BY <1>2, <1>9 DEF Ask, row, files
<1>10. CASE UNCHANGED vars
  BY <1>2, <1>10 DEF vars, row, files
<1> QED BY <1>3, <1>4, <1>5, <1>6, <1>7, <1>8, <1>9, <1>10 DEF Next, ExecStep, RequestStep, Callers

\* DirectoryInv is inductive for well-typed states.
LEMMA DirectoryKept == Spec => []DirectoryInv
<1>1. Init => TypeOK /\ DirectoryInv
  BY InitType, InitDirectory
<1>2. TypeOK /\ DirectoryInv /\ [Next]_vars => TypeOK' /\ DirectoryInv'
  BY StepType, StepDirectory
<1> QED BY <1>1, <1>2, PTL DEF Spec

\* The marker of a micro replicate vouches for its artifacts through deaths,
\* failures and any number of re-runs.
THEOREM MarkersVouch == Spec => []MarkerVouches
<1>1. DirectoryInv => MarkerVouches
  BY DEF DirectoryInv
<1> QED BY <1>1, DirectoryKept, PTL

\* The artifacts of a done run are all there and readable, in both tiers.
THEOREM DoneRunsAreReadable == Spec => []DoneIsReadable
<1>1. DirectoryInv => DoneIsReadable
  BY DEF DirectoryInv
<1> QED BY <1>1, DirectoryKept, PTL

\* No step of anyone rewrites the artifacts of a done run.
THEOREM DoneRunsStay == Spec => DoneArtifactsStay
<1>1. ASSUME TypeOK, DirectoryInv, [Next]_vars, Unstalled', run = "done"
      PROVE  UNCHANGED files
  <2>0. RunType /\ CacheType /\ report \in ReportState /\ UsedType
    BY <1>1, TypeParts
  <2>1. Orderly
    <3>1. used'.stalls >= used.stalls /\ used.stalls \in Nat
      BY <2>0, <1>1, StepType DEF UsedType
    <3> QED BY <1>1, <3>1, DirectoryParts DEF Unstalled
  <2>2. ASSUME NEW e \in Execs, NEW s \in Seeds, Replicate(e, s) PROVE FALSE
    <3>1. PICK from \in ChildState, to \in ChildState : Child(e, s, from, to)
      BY <2>2 DEF Replicate, Clear, Open, Close, OpenMarker, Mark, ChildState
    <3> QED BY <1>1, <2>1, <3>1 DEF Child, Orderly, OneWriter, Writing
  <2>3. ASSUME NEW x \in Callers, CacheStep(x) PROVE UNCHANGED files
    BY <2>0, <2>3, CacheStepType DEF Outside
  <2>4. ASSUME NEW e \in Execs,
               \/ Start(e) \/ ClaimRefused(e) \/ Return(e) \/ SimulationFails(e) \/ Die(e)
               \/ Precompute(e) \/ Finish(e) \/ \E s \in Seeds : PrecomputeFails(e, s)
        PROVE  UNCHANGED files
    BY <2>0, <2>4, RowCacheType
  <2>5. CASE ReportStep \/ ReportDies \/ ReportRequeue
    BY <2>0, <2>5, ReportType
  <2>6. CASE (\E e \in Execs : Stall(e)) \/ Reap \/ Requeue \/ \E q \in Requests : Ask(q)
    BY <2>0, <2>6, OtherType
  <2>7. CASE UNCHANGED vars
    BY <2>7 DEF vars
  <2> QED BY <1>1, <2>2, <2>3, <2>4, <2>5, <2>6, <2>7 DEF Next, ExecStep, RequestStep, Callers
<1>2. TypeOK /\ DirectoryInv /\ [Next]_vars => [Unstalled' /\ run = "done" => UNCHANGED files]_vars
  BY <1>1
<1> QED BY <1>2, TypeCorrect, DirectoryKept, PTL DEF Spec, DoneArtifactsStay

\* A report that is done has read every replicate of its run, whatever requests
\* and re-runs went on beside it.
THEOREM ReportsCoverRuns == Spec => []ReportCoversRun
<1>1. DirectoryInv => ReportCoversRun
  BY DEF DirectoryInv, Covering, ReportCoversRun
<1> QED BY <1>1, DirectoryKept, PTL

-----------------------------------------------------------------------------
(* The caches.                                                              *)

LEMMA NodeIsItsOwn ==
    /\ \A x, y, s, t : Node(x, s) = Node(y, t) => x = y /\ s = t
    /\ \A x \in Callers, s \in Seeds : Node(x, s) # None
BY DEF Node

\* An execution's process is its own; requests may share one.
LEMMA PidOwner ==
    /\ \A e \in Execs : pid(e) = e
    /\ \A q \in Requests : pid(q) \notin Execs /\ pid(q) = Process[q]
    /\ \A e \in Execs, x \in Callers : pid(x) = pid(e) => x = e
BY ProcessAssumption DEF pid, Callers

LEMMA Moves ==
    ASSUME CacheType, NEW x \in Callers, NEW to, Goes(x, to)
    PROVE  caller'[x] = to /\ \A y \in Callers \ {x} : caller'[y] = caller[y]
BY DEF CacheType, Goes

\* A step of a caller that touches no file of the cache.
Looks(x) ==
    /\ UNCHANGED <<cache, temp, filled>>
    /\ caller[x].pc \in {"next", "filled"}
    /\ caller'[x].pc \in {"next", "computed", "refused", "answered"}
    /\ caller'[x].todo \subseteq caller[x].todo
    /\ caller[x].pc = "filled" => caller'[x].todo = {}
    /\ caller'[x].pc = "computed" => caller'[x].at \in caller'[x].todo
    /\ caller'[x].pc # "refused" => caller'[x].took = caller[x].took

LEMMA CallerLooks ==
    ASSUME CacheType, NEW x \in Callers,
           \/ \E s \in Seeds : Hit(x, s) \/ Reduce(x, s) \/ Unreadable(x, s)
           \/ SwapFails(x) \/ Answer(x)
    PROVE  Looks(x) /\ \A y \in Callers \ {x} : caller'[y] = caller[y]
<1> DEFINE c == caller[x]
<1>0. c \in CallerState
  BY DEF CacheType
<1>1. ASSUME NEW s \in Seeds, Hit(x, s)
      PROVE  Looks(x) /\ \A y \in Callers \ {x} : caller'[y] = caller[y]
  <2>1. caller'[x] = [c EXCEPT !.todo = @ \ {s}] /\ \A y \in Callers \ {x} : caller'[y] = caller[y]
    BY <1>1, Moves DEF Hit
  <2> QED BY <1>0, <1>1, <2>1 DEF Hit, Turn, Looks, CallerState
<1>2. ASSUME NEW s \in Seeds, Reduce(x, s)
      PROVE  Looks(x) /\ \A y \in Callers \ {x} : caller'[y] = caller[y]
  <2>1. caller'[x] = [c EXCEPT !.pc = "computed", !.at = s] /\ \A y \in Callers \ {x} : caller'[y] = caller[y]
    BY <1>2, Moves DEF Reduce
  <2>2. /\ caller'[x].pc = "computed" /\ caller'[x].at = s /\ caller'[x].todo = c.todo
        /\ caller'[x].took = c.took
    BY <1>0, <2>1 DEF CallerState
  <2> QED BY <1>2, <2>1, <2>2 DEF Reduce, Turn, First, Looks
<1>3. ASSUME (\E s \in Seeds : Unreadable(x, s)) \/ SwapFails(x)
      PROVE  Looks(x) /\ \A y \in Callers \ {x} : caller'[y] = caller[y]
  <2>1. caller'[x] = [Away EXCEPT !.pc = "refused"] /\ \A y \in Callers \ {x} : caller'[y] = caller[y]
    BY <1>3, Moves DEF Unreadable, SwapFails, Refuse
  <2>2. caller'[x].pc = "refused" /\ caller'[x].todo = {}
    BY <2>1 DEF Away
  <2> QED BY <1>3, <2>1, <2>2 DEF Unreadable, SwapFails, Turn, Looks
<1>4. CASE Answer(x)
  <2>1. caller'[x] = [c EXCEPT !.pc = "answered"] /\ \A y \in Callers \ {x} : caller'[y] = caller[y]
    BY <1>4, Moves DEF Answer
  <2> QED BY <1>0, <1>4, <2>1 DEF Answer, Looks, CallerState
<1> QED BY <1>1, <1>2, <1>3, <1>4

\* The files stay, nobody falls behind and nobody who fills a file stops, but dead
\* executions: what is said of the files holds on.
LEMMA StillTemp ==
    ASSUME CacheType, TempInv, AtWork', UNCHANGED <<cache, temp, filled>>,
           \A x \in Callers, s \in Seeds : Ahead(x, s)' => Ahead(x, s),
           \A x \in Callers : caller[x].pc = "filling" =>
               caller'[x] = caller[x] \/ (x \in Execs /\ exec'[x].pc = "over"),
           \A e \in Execs : exec[e].pc \in {"recorded", "over"} => exec'[e].pc \in {"recorded", "over"},
           \A q \in Requests : caller[q].pc # "idle" => caller'[q].pc # "idle"
    PROVE  TempInv'
<1>1. Names'
  BY DEF TempInv, Names
<1>2. Fills'
  <2> SUFFICES ASSUME NEW s \in Seeds, NEW p \in Pids, temp[s][p] \notin filled \cup {None}
               PROVE  \/ \E y \in Callers : caller'[y].pc = "filling" /\ caller'[y].node = temp[s][p]
                      \/ p \in Execs /\ exec'[p].pc \in {"recorded", "over"}
    BY DEF Fills
  <2>1. CASE p \in Execs /\ exec[p].pc \in {"recorded", "over"}
    BY <2>1
  <2>2. ASSUME NEW y \in Callers, caller[y].pc = "filling", caller[y].node = temp[s][p],
               y \in Execs, exec'[y].pc = "over"
        PROVE  p = y
    <3>1. PICK z \in Callers : caller[y].node = Node(z, At(y)) /\ pid(z) = pid(y)
      BY <2>2 DEF TempInv, AtWork, Writes
    <3>2. PICK x \in Callers : temp[s][p] = Node(x, s) /\ pid(x) = p
      BY DEF TempInv, Names
    <3>3. Node(z, At(y)) = Node(x, s)
      BY <2>2, <3>1, <3>2
    <3>4. z = x
      BY <3>3, NodeIsItsOwn
    <3> QED BY <2>2, <3>1, <3>2, <3>4, PidOwner
  <2> QED BY <2>1, <2>2 DEF TempInv, Fills
<1>3. TornOnlyBetweenThreads'
  BY CallersAssumption DEF TempInv, TornOnlyBetweenThreads, Beside, Callers
<1> QED BY <1>1, <1>2, <1>3 DEF TempInv

\* A request or an execution looks at the caches, or the listing is made.
LEMMA LooksTemp ==
    ASSUME CacheType, TempInv, NEW x \in Callers, Looks(x), exec' = exec,
           \A y \in Callers \ {x} : caller'[y] = caller[y]
    PROVE  TempInv'
<1>1. \A y \in Callers, s \in Seeds : Ahead(y, s)' => Ahead(y, s)
  <2>1. ASSUME NEW s \in Seeds, Ahead(x, s)' PROVE Ahead(x, s)
    <3>1. CASE x \in Execs /\ exec[x].pc \in {"idle", "simulate"}
      BY <3>1 DEF Ahead
    <3>2. CASE s \in caller'[x].todo
      BY <3>2 DEF Looks, Ahead
    <3> QED BY <2>1, <3>1, <3>2 DEF Ahead, Looks
  <2>2. ASSUME NEW y \in Callers \ {x}, NEW s \in Seeds, Ahead(y, s)' PROVE Ahead(y, s)
    BY <2>2 DEF Ahead, At
  <2> QED BY <2>1, <2>2
<1>2. AtWork'
  <2>1. \A y \in Callers : caller'[y].pc = "computed" => caller'[y].at \in caller'[y].todo
    BY DEF TempInv, AtWork, Looks, At
  <2>2. \A e \in Execs : caller'[e].pc # "idle" => exec'[e].pc = "cache"
    BY DEF TempInv, AtWork, Looks, Callers
  <2>3. ASSUME NEW y \in Callers, Writes(y)'
        PROVE  \E z \in Callers : caller'[y].node = Node(z, caller'[y].at) /\ pid(z) = pid(y)
    BY <2>3 DEF TempInv, AtWork, Looks, Writes, At
  <2> QED BY <2>1, <2>2, <2>3 DEF AtWork, At
<1> QED BY <1>1, <1>2, StillTemp DEF Looks, Callers

\* The temp name of the caller's process is opened.
LEMMA OpenTempKeeps ==
    ASSUME CacheType, TempInv, NEW x \in Callers, OpenTemp(x)
    PROVE  TempInv'
<1>a. PICK s \in Seeds : s = At(x)
  BY DEF OpenTemp, CacheType, InHand, At
<1>b. PICK p \in Pids : p = pid(x)
  BY PidType
<1>c. PICK c \in CallerState : c = caller[x]
  BY DEF CacheType
<1> DEFINE node == IF temp[s][p] = None THEN Node(x, s) ELSE temp[s][p]
<1>0. caller[x].pc = "computed" /\ s \in caller[x].todo /\ caller[x].at = s
  BY <1>a DEF OpenTemp, TempInv, AtWork, At
<1>1. /\ cache' = cache /\ exec' = exec /\ filled' = filled \ {node}
      /\ temp' = [temp EXCEPT ![s][p] = node]
      /\ Goes(x, [c EXCEPT !.pc = "filling", !.node = node])
  BY <1>a, <1>b, <1>c DEF OpenTemp, Outside, row
<1>2. /\ \E y \in Callers : node = Node(y, s) /\ pid(y) = p
      /\ node # None /\ node # cache[s] /\ (temp[s][p] = None \/ node = temp[s][p])
      /\ temp[s][p] = None => node = Node(x, s)
  <2>1. CASE temp[s][p] = None
    <3>1. Ahead(x, s)
      BY <1>0 DEF Ahead
    <3> QED BY <1>b, <2>1, <3>1, NodeIsItsOwn DEF TempInv, Names
  <2>2. CASE temp[s][p] # None
    BY <2>2 DEF TempInv, Names
  <2> QED BY <2>1, <2>2
<1> HIDE DEF node
<1>3. /\ temp'[s][p] = node
      /\ \A t \in Seeds, r \in Pids : t # s \/ r # p => temp'[t][r] = temp[t][r]
  BY <1>0, <1>1 DEF CacheType
<1>4. /\ caller'[x].pc = "filling" /\ caller'[x].node = node /\ caller'[x].at = s
      /\ caller'[x].todo = caller[x].todo
      /\ \A y \in Callers \ {x} : caller'[y] = caller[y]
  <2>1. caller'[x] = [c EXCEPT !.pc = "filling", !.node = node] /\ \A y \in Callers \ {x} : caller'[y] = caller[y]
    BY <1>1, Moves
  <2> QED BY <1>0, <1>c, <2>1 DEF CallerState
<1>5. \A y \in Callers, t \in Seeds : Ahead(y, t)' => Ahead(y, t)
  BY <1>0, <1>1, <1>4 DEF Ahead, At
<1>6. ~Ahead(x, s)'
  <2>1. x \in Execs => exec[x].pc = "cache"
    BY <1>0 DEF TempInv, AtWork
  <2> QED BY <1>1, <1>4, <2>1, CallersAssumption DEF Ahead, At
<1>7. AtWork'
  <2>1. \A y \in Callers : caller'[y].pc = "computed" => caller'[y].at \in caller'[y].todo
    BY <1>4 DEF TempInv, AtWork, At
  <2>2. \A e \in Execs : caller'[e].pc # "idle" => exec'[e].pc = "cache"
    BY <1>0, <1>1, <1>4 DEF TempInv, AtWork, Callers
  <2>3. ASSUME NEW y \in Callers \ {x}, Writes(y)'
        PROVE  \E z \in Callers : caller'[y].node = Node(z, caller'[y].at) /\ pid(z) = pid(y)
    BY <1>4, <2>3 DEF TempInv, AtWork, Writes, At
  <2>4. \E z \in Callers : caller'[x].node = Node(z, caller'[x].at) /\ pid(z) = pid(x)
    BY <1>b, <1>2, <1>4
  <2> QED BY <2>1, <2>2, <2>3, <2>4 DEF AtWork, At
<1>8. Names'
  <2>1. ASSUME NEW t \in Seeds, NEW r \in Pids, temp'[t][r] # None
        PROVE  /\ \E y \in Callers : temp'[t][r] = Node(y, t) /\ pid(y) = r
               /\ cache'[t] # temp'[t][r]
    BY <1>1, <1>2, <1>3, <2>1 DEF TempInv, Names
  <2>2. ASSUME NEW y \in Callers, NEW t \in Seeds, Ahead(y, t)'
        PROVE  cache'[t] # Node(y, t) /\ \A r \in Pids : temp'[t][r] # Node(y, t)
    <3>1. cache[t] # Node(y, t) /\ \A r \in Pids : temp[t][r] # Node(y, t)
      BY <1>5, <2>2 DEF TempInv, Names
    <3>2. CASE t = s
      <4>1. y # x
        BY <1>6, <2>2, <3>2
      <4>2. node # Node(y, t)
        BY <1>0, <1>2, <3>1, <3>2, <4>1, NodeIsItsOwn
      <4> QED BY <1>1, <1>3, <3>1, <3>2, <4>2
    <3> QED BY <1>1, <1>3, <3>1, <3>2
  <2> QED BY <1>1, <2>1, <2>2 DEF TempInv, Names
<1>9. Fills'
  <2> SUFFICES ASSUME NEW t \in Seeds, NEW r \in Pids, temp'[t][r] \notin filled' \cup {None}
               PROVE  \/ \E y \in Callers : caller'[y].pc = "filling" /\ caller'[y].node = temp'[t][r]
                      \/ r \in Execs /\ exec[r].pc \in {"recorded", "over"}
    BY <1>1 DEF Fills
  <2>1. CASE temp'[t][r] = node
    BY <1>4, <2>1
  <2>2. CASE temp'[t][r] # node
    <3>1. temp'[t][r] = temp[t][r] /\ temp[t][r] \notin filled \cup {None}
      BY <1>1, <1>3, <2>2
    <3> QED BY <1>0, <1>4, <3>1 DEF TempInv, Fills
  <2> QED BY <2>1, <2>2
<1>10. TornOnlyBetweenThreads'
  <2> SUFFICES ASSUME NEW t \in Seeds, cache[t] \notin filled' \cup {None}
               PROVE  \E q \in Requests : Beside(q)' # {} /\ caller'[q].pc = "filling" /\ caller'[q].node = cache[t]
    BY <1>1 DEF TornOnlyBetweenThreads
  <2>1. cache[t] # node
    <3>1. CASE t = s
      BY <1>2, <3>1
    <3>2. CASE t # s
      BY <1>2, <3>2, NodeIsItsOwn DEF TempInv, Names
    <3> QED BY <3>1, <3>2
  <2>2. PICK q \in Requests : Beside(q) # {} /\ caller[q].pc = "filling" /\ caller[q].node = cache[t]
    BY <1>1, <2>1 DEF TempInv, TornOnlyBetweenThreads
  <2>3. q # x /\ caller'[q] = caller[q]
    BY <1>0, <1>4, <2>2 DEF Callers
  <2>4. Beside(q)' # {}
    BY <1>0, <1>4, <2>2 DEF Beside, Callers
  <2> QED BY <2>2, <2>3, <2>4
<1> QED BY <1>7, <1>8, <1>9, <1>10 DEF TempInv

\* A temp file is filled.
LEMMA FillKeeps ==
    ASSUME CacheType, TempInv, NEW x \in Callers, Fill(x)
    PROVE  TempInv'
<1>a. PICK c \in CallerState : c = caller[x]
  BY DEF CacheType
<1>1. /\ c.pc = "filling" /\ filled' = filled \cup {c.node} /\ exec' = exec
      /\ UNCHANGED <<cache, temp>> /\ Goes(x, [c EXCEPT !.pc = "filled"])
  BY <1>a DEF Fill, Outside, row
<1>2. /\ caller'[x].pc = "filled" /\ caller'[x].node = c.node /\ caller'[x].at = c.at
      /\ caller'[x].todo = c.todo
      /\ \A y \in Callers \ {x} : caller'[y] = caller[y]
  <2>1. caller'[x] = [c EXCEPT !.pc = "filled"] /\ \A y \in Callers \ {x} : caller'[y] = caller[y]
    BY <1>1, Moves
  <2> QED BY <2>1 DEF CallerState
<1>3. \A y \in Callers, t \in Seeds : Ahead(y, t)' => Ahead(y, t)
  BY <1>a, <1>1, <1>2 DEF Ahead, At
<1>4. Names'
  BY <1>1, <1>3 DEF TempInv, Names
<1>5. AtWork'
  <2>1. \A y \in Callers : caller'[y].pc = "computed" => caller'[y].at \in caller'[y].todo
    BY <1>2 DEF TempInv, AtWork, At
  <2>2. \A e \in Execs : caller'[e].pc # "idle" => exec'[e].pc = "cache"
    BY <1>a, <1>1, <1>2 DEF TempInv, AtWork, Callers
  <2>3. ASSUME NEW y \in Callers, Writes(y)'
        PROVE  \E z \in Callers : caller'[y].node = Node(z, caller'[y].at) /\ pid(z) = pid(y)
    BY <1>a, <1>1, <1>2, <2>3 DEF TempInv, AtWork, Writes, At
  <2> QED BY <2>1, <2>2, <2>3 DEF AtWork, At
<1>6. Fills'
  <2> SUFFICES ASSUME NEW t \in Seeds, NEW r \in Pids, temp[t][r] \notin filled' \cup {None}
               PROVE  \/ \E y \in Callers : caller'[y].pc = "filling" /\ caller'[y].node = temp[t][r]
                      \/ r \in Execs /\ exec[r].pc \in {"recorded", "over"}
    BY <1>1 DEF Fills
  <2>1. temp[t][r] # c.node /\ temp[t][r] \notin filled \cup {None}
    BY <1>1
  <2> QED BY <1>a, <1>2, <2>1 DEF TempInv, Fills
<1>7. TornOnlyBetweenThreads'
  <2> SUFFICES ASSUME NEW t \in Seeds, cache[t] \notin filled' \cup {None}
               PROVE  \E q \in Requests : Beside(q)' # {} /\ caller'[q].pc = "filling" /\ caller'[q].node = cache[t]
    BY <1>1 DEF TornOnlyBetweenThreads
  <2>1. PICK q \in Requests : Beside(q) # {} /\ caller[q].pc = "filling" /\ caller[q].node = cache[t]
    BY <1>1 DEF TempInv, TornOnlyBetweenThreads
  <2>2. q # x /\ caller'[q] = caller[q]
    BY <1>a, <1>1, <1>2, <2>1 DEF Callers
  <2>3. Beside(q)' # {}
    BY <1>a, <1>1, <1>2, <2>1 DEF Beside, Callers
  <2> QED BY <2>1, <2>2, <2>3
<1> QED BY <1>4, <1>5, <1>6, <1>7 DEF TempInv

\* A temp file takes the name of the cache.  If another thread is still filling
\* it, the two are requests of one process.
LEMMA SwapKeeps ==
    ASSUME CacheType, TempInv, NEW x \in Callers, Swap(x)
    PROVE  TempInv'
<1>a. PICK c \in CallerState : c = caller[x]
  BY DEF CacheType
<1>b. PICK s \in Seeds : s = At(x)
  BY DEF Swap, CacheType, InHand, At
<1>c. PICK p \in Pids : p = pid(x)
  BY PidType
<1>1. /\ c.pc = "filled" /\ temp[s][p] # None /\ exec' = exec /\ filled' = filled
      /\ cache' = [cache EXCEPT ![s] = temp[s][p]]
      /\ temp' = [temp EXCEPT ![s][p] = None]
      /\ Goes(x, [c EXCEPT !.pc = "swapped"]) /\ c.at = s
  BY <1>a, <1>b, <1>c DEF Swap, Outside, row, At
<1>2. /\ caller'[x].pc = "swapped" /\ caller'[x].at = s /\ caller'[x].todo = c.todo
      /\ \A y \in Callers \ {x} : caller'[y] = caller[y]
  <2>1. caller'[x] = [c EXCEPT !.pc = "swapped"] /\ \A y \in Callers \ {x} : caller'[y] = caller[y]
    BY <1>1, Moves
  <2> QED BY <1>1, <2>1 DEF CallerState
<1>3. /\ cache'[s] = temp[s][p] /\ \A t \in Seeds \ {s} : cache'[t] = cache[t]
      /\ temp'[s][p] = None
      /\ \A t \in Seeds, r \in Pids : t # s \/ r # p => temp'[t][r] = temp[t][r]
  BY <1>1 DEF CacheType
<1>4. \A y \in Callers, t \in Seeds : Ahead(y, t)' => Ahead(y, t)
  BY <1>a, <1>1, <1>2 DEF Ahead, At
<1>5. Names'
  <2>1. ASSUME NEW t \in Seeds, NEW r \in Pids, temp'[t][r] # None
        PROVE  /\ \E y \in Callers : temp'[t][r] = Node(y, t) /\ pid(y) = r
               /\ cache'[t] # temp'[t][r]
    <3>1. temp'[t][r] = temp[t][r] /\ (t # s \/ r # p)
      BY <1>3, <2>1
    <3>2. PICK y \in Callers : temp[t][r] = Node(y, t) /\ pid(y) = r
      BY <2>1, <3>1 DEF TempInv, Names
    <3>3. CASE t = s
      <4>1. PICK z \in Callers : temp[s][p] = Node(z, s) /\ pid(z) = p
        BY <1>1 DEF TempInv, Names
      <4>2. Node(z, s) # Node(y, s)
        BY <3>1, <3>2, <3>3, <4>1, NodeIsItsOwn
      <4> QED BY <1>3, <3>1, <3>2, <3>3, <4>1, <4>2
    <3>4. CASE t # s
      BY <1>3, <2>1, <3>1, <3>2, <3>4 DEF TempInv, Names
    <3> QED BY <3>3, <3>4
  <2>2. ASSUME NEW t \in Seeds, cache'[t] # None PROVE \E y \in Callers : cache'[t] = Node(y, t)
    BY <1>1, <1>3, <2>2 DEF TempInv, Names
  <2>3. ASSUME NEW y \in Callers, NEW t \in Seeds, Ahead(y, t)'
        PROVE  cache'[t] # Node(y, t) /\ \A r \in Pids : temp'[t][r] # Node(y, t)
    BY <1>3, <1>4, <2>3, NodeIsItsOwn DEF TempInv, Names
  <2> QED BY <2>1, <2>2, <2>3 DEF Names
<1>6. AtWork'
  <2>1. \A y \in Callers : caller'[y].pc = "computed" => caller'[y].at \in caller'[y].todo
    BY <1>2 DEF TempInv, AtWork, At
  <2>2. \A e \in Execs : caller'[e].pc # "idle" => exec'[e].pc = "cache"
    BY <1>a, <1>1, <1>2 DEF TempInv, AtWork, Callers
  <2>3. ASSUME NEW y \in Callers, Writes(y)'
        PROVE  \E z \in Callers : caller'[y].node = Node(z, caller'[y].at) /\ pid(z) = pid(y)
    BY <1>2, <2>3 DEF TempInv, AtWork, Writes, At
  <2> QED BY <2>1, <2>2, <2>3 DEF AtWork, At
<1>7. Fills'
  <2> SUFFICES ASSUME NEW t \in Seeds, NEW r \in Pids, temp'[t][r] \notin filled \cup {None}
               PROVE  \/ \E y \in Callers : caller'[y].pc = "filling" /\ caller'[y].node = temp'[t][r]
                      \/ r \in Execs /\ exec[r].pc \in {"recorded", "over"}
    BY <1>1 DEF Fills
  <2>1. temp'[t][r] = temp[t][r]
    BY <1>3
  <2> QED BY <1>a, <1>1, <1>2, <2>1 DEF TempInv, Fills
<1>8. TornOnlyBetweenThreads'
  <2> SUFFICES ASSUME NEW t \in Seeds, cache'[t] \notin filled \cup {None}
               PROVE  \E q \in Requests : Beside(q)' # {} /\ caller'[q].pc = "filling" /\ caller'[q].node = cache'[t]
    BY <1>1 DEF TornOnlyBetweenThreads
  <2>1. CASE t # s
    <3>1. PICK q \in Requests : Beside(q) # {} /\ caller[q].pc = "filling" /\ caller[q].node = cache[t]
      BY <1>3, <2>1 DEF TempInv, TornOnlyBetweenThreads
    <3>2. q # x /\ caller'[q] = caller[q]
      BY <1>a, <1>1, <1>2, <3>1 DEF Callers
    <3>3. Beside(q)' # {}
      BY <1>a, <1>1, <1>2, <3>1 DEF Beside, Callers
    <3> QED BY <1>3, <2>1, <3>1, <3>2, <3>3
  <2>2. CASE t = s
    <3>0. temp[s][p] \notin filled \cup {None} /\ cache'[t] = temp[s][p]
      BY <1>3, <2>2
    <3>1. ~(p \in Execs /\ exec[p].pc \in {"recorded", "over"})
      BY <1>a, <1>c, <1>1, PidOwner DEF TempInv, AtWork, Callers
    <3>2. PICK y \in Callers : caller[y].pc = "filling" /\ caller[y].node = temp[s][p]
      BY <3>0, <3>1 DEF TempInv, Fills
    <3>3. pid(y) = pid(x)
      <4>1. PICK z \in Callers : caller[y].node = Node(z, At(y)) /\ pid(z) = pid(y)
        BY <3>2 DEF TempInv, AtWork, Writes
      <4>2. PICK w \in Callers : temp[s][p] = Node(w, s) /\ pid(w) = p
        BY <1>1 DEF TempInv, Names
      <4>3. Node(z, At(y)) = Node(w, s)
        BY <3>2, <4>1, <4>2
      <4>4. z = w
        BY <4>3, NodeIsItsOwn
      <4> QED BY <1>c, <4>1, <4>2, <4>4
    <3>4. x # y
      BY <1>a, <1>1, <3>2
    <3>5. x \in Requests /\ y \in Requests /\ Process[x] = Process[y]
      BY <3>3, <3>4, PidOwner DEF Callers
    <3>6. caller'[y] = caller[y] /\ Beside(y)' # {}
      BY <1>2, <3>4, <3>5 DEF Beside
    <3> QED BY <3>0, <3>2, <3>5, <3>6
  <2> QED BY <2>1, <2>2
<1> QED BY <1>5, <1>6, <1>7, <1>8 DEF TempInv

\* What is left of the temp name is removed.
LEMMA UnlinkKeeps ==
    ASSUME CacheType, TempInv, NEW x \in Callers, Unlink(x)
    PROVE  TempInv'
<1>a. PICK c \in CallerState : c = caller[x]
  BY DEF CacheType
<1>b. PICK s \in Seeds : s = At(x)
  BY DEF Unlink, CacheType, InHand, At
<1>1. /\ c.pc = "swapped" /\ exec' = exec /\ filled' = filled /\ cache' = cache /\ c.at = s
      /\ temp' = [temp EXCEPT ![s][pid(x)] = None]
      /\ Goes(x, [c EXCEPT !.pc = "next", !.todo = @ \ {s}])
  BY <1>a, <1>b DEF Unlink, Served, Outside, row, At
<1>2. /\ caller'[x].pc = "next" /\ caller'[x].at = s /\ caller'[x].todo = c.todo \ {s}
      /\ \A y \in Callers \ {x} : caller'[y] = caller[y]
  <2>1. /\ caller'[x] = [c EXCEPT !.pc = "next", !.todo = @ \ {s}]
        /\ \A y \in Callers \ {x} : caller'[y] = caller[y]
    BY <1>1, Moves
  <2> QED BY <1>1, <2>1 DEF CallerState
<1>3. \A t \in Seeds, r \in Pids : temp'[t][r] = None \/ temp'[t][r] = temp[t][r]
  BY <1>1 DEF CacheType
<1>4. \A y \in Callers, t \in Seeds : Ahead(y, t)' => Ahead(y, t)
  BY <1>a, <1>1, <1>2 DEF Ahead, At
<1>5. Names'
  <2>1. ASSUME NEW t \in Seeds, NEW r \in Pids, temp'[t][r] # None
        PROVE  /\ \E y \in Callers : temp'[t][r] = Node(y, t) /\ pid(y) = r
               /\ cache'[t] # temp'[t][r]
    BY <1>1, <1>3, <2>1 DEF TempInv, Names
  <2>2. ASSUME NEW y \in Callers, NEW t \in Seeds, Ahead(y, t)'
        PROVE  cache'[t] # Node(y, t) /\ \A r \in Pids : temp'[t][r] # Node(y, t)
    BY <1>1, <1>3, <1>4, <2>2, NodeIsItsOwn DEF TempInv, Names
  <2> QED BY <1>1, <2>1, <2>2 DEF TempInv, Names
<1>6. AtWork'
  <2>1. \A y \in Callers : caller'[y].pc = "computed" => caller'[y].at \in caller'[y].todo
    BY <1>2 DEF TempInv, AtWork, At
  <2>2. \A e \in Execs : caller'[e].pc # "idle" => exec'[e].pc = "cache"
    BY <1>a, <1>1, <1>2 DEF TempInv, AtWork, Callers
  <2>3. ASSUME NEW y \in Callers, Writes(y)'
        PROVE  \E z \in Callers : caller'[y].node = Node(z, caller'[y].at) /\ pid(z) = pid(y)
    BY <1>2, <2>3 DEF TempInv, AtWork, Writes, At
  <2> QED BY <2>1, <2>2, <2>3 DEF AtWork, At
<1>7. Fills'
  <2> SUFFICES ASSUME NEW t \in Seeds, NEW r \in Pids, temp'[t][r] \notin filled \cup {None}
               PROVE  \/ \E y \in Callers : caller'[y].pc = "filling" /\ caller'[y].node = temp'[t][r]
                      \/ r \in Execs /\ exec[r].pc \in {"recorded", "over"}
    BY <1>1 DEF Fills
  <2>1. temp'[t][r] = temp[t][r]
    BY <1>3
  <2> QED BY <1>a, <1>1, <1>2, <2>1 DEF TempInv, Fills
<1>8. TornOnlyBetweenThreads'
  <2> SUFFICES ASSUME NEW t \in Seeds, cache[t] \notin filled \cup {None}
               PROVE  \E q \in Requests : Beside(q)' # {} /\ caller'[q].pc = "filling" /\ caller'[q].node = cache[t]
    BY <1>1 DEF TornOnlyBetweenThreads
  <2>1. PICK q \in Requests : Beside(q) # {} /\ caller[q].pc = "filling" /\ caller[q].node = cache[t]
    BY DEF TempInv, TornOnlyBetweenThreads
  <2>2. q # x /\ caller'[q] = caller[q]
    BY <1>a, <1>1, <1>2, <2>1 DEF Callers
  <2>3. Beside(q)' # {}
    BY <1>a, <1>1, <1>2, <2>1 DEF Beside, Callers
  <2> QED BY <2>1, <2>2, <2>3
<1> QED BY <1>5, <1>6, <1>7, <1>8 DEF TempInv

\* At the row: an execution lists the replicates, leaves, or is not at the caches.
LEMMA RowTemp ==
    ASSUME RunType, CacheType, TempInv, NEW e \in Execs,
           \/ Start(e) \/ ClaimRefused(e) \/ Return(e) \/ SimulationFails(e) \/ Die(e)
           \/ Precompute(e) \/ Finish(e) \/ \E s \in Seeds : PrecomputeFails(e, s)
    PROVE  TempInv'
<1>0. e \in Callers /\ exec[e] \in ExecState
  BY DEF Callers, RunType
<1>1. PICK pc \in {"idle", "simulate", "cache", "recorded", "over"} :
          exec' = [exec EXCEPT ![e].pc = pc]
  BY DEF Start, ClaimRefused, Return, SimulationFails, Die, Precompute, Finish,
         PrecomputeFails, Over, Record
<1>2. /\ exec'[e].pc = pc
      /\ \A f \in Execs \ {e} : exec'[f] = exec[f]
  BY <1>1, ExecMoves DEF RunType
<1>3. \A f \in Execs : caller[f].pc # "idle" => exec[f].pc = "cache"
  BY DEF TempInv, AtWork
<1>4. CASE Start(e) \/ ClaimRefused(e) \/ Return(e) \/ SimulationFails(e)
  <2>1. /\ UNCHANGED <<cache, temp, filled, caller>>
        /\ \/ exec[e].pc = "idle" /\ pc \in {"simulate", "over"}
           \/ exec[e].pc = "simulate" /\ pc = "recorded"
           \/ exec[e].pc = "recorded" /\ pc = "over"
    BY <1>0, <1>1, <1>2, <1>4 DEF Start, ClaimRefused, Return, SimulationFails, Over, Record, caching, RunType,
                    ExecState
  <2>2. \A x \in Callers, s \in Seeds : Ahead(x, s)' => Ahead(x, s)
    BY <1>2, <2>1 DEF Ahead, At
  <2>3. AtWork'
    BY <1>2, <1>3, <2>1 DEF TempInv, AtWork, Writes, At
  <2> QED BY <1>2, <2>1, <2>2, <2>3, StillTemp
<1>5. CASE Die(e) \/ Finish(e) \/ \E s \in Seeds : PrecomputeFails(e, s)
  <2>1. /\ UNCHANGED <<cache, temp, filled>> /\ Goes(e, Away)
        /\ exec[e].pc # "idle"
        /\ \/ pc = "over" /\ exec[e].pc \in {"simulate", "cache", "recorded"}
           \/ pc = "recorded" /\ exec[e].pc = "cache" /\ caller[e].pc = "next"
    BY <1>0, <1>1, <1>2, <1>5 DEF Die, Working, Finish, PrecomputeFails, Turn, Over, Record, Goes, RunType, ExecState
  <2>2. /\ caller'[e].pc = "idle" /\ caller'[e].todo = {}
        /\ \A y \in Callers \ {e} : caller'[y] = caller[y]
    BY <1>0, <2>1, Moves DEF Away
  <2>3. \A x \in Callers, s \in Seeds : Ahead(x, s)' => Ahead(x, s)
    BY <1>2, <2>1, <2>2, CallersAssumption DEF Ahead, At
  <2>4. AtWork'
    <3>1. \A y \in Callers : caller'[y].pc = "computed" => caller'[y].at \in caller'[y].todo
      BY <2>2 DEF TempInv, AtWork, At
    <3>2. \A f \in Execs : caller'[f].pc # "idle" => exec'[f].pc = "cache"
      BY <1>2, <1>3, <2>2 DEF Callers
    <3>3. ASSUME NEW y \in Callers, Writes(y)'
          PROVE  \E z \in Callers : caller'[y].node = Node(z, caller'[y].at) /\ pid(z) = pid(y)
      BY <2>2, <3>3 DEF TempInv, AtWork, Writes, At
    <3> QED BY <3>1, <3>2, <3>3 DEF AtWork, At
  <2>5. \A x \in Callers : caller[x].pc = "filling" =>
          caller'[x] = caller[x] \/ (x \in Execs /\ exec'[x].pc = "over")
    BY <1>2, <2>1, <2>2
  <2>6. \A f \in Execs : exec[f].pc \in {"recorded", "over"} => exec'[f].pc \in {"recorded", "over"}
    BY <1>2, <2>1
  <2>7. \A q \in Requests : caller[q].pc # "idle" => caller'[q].pc # "idle"
    BY <2>2, CallersAssumption DEF Callers
  <2> QED BY <2>1, <2>3, <2>4, <2>5, <2>6, <2>7, StillTemp
<1>6. CASE Precompute(e)
  <2>1. /\ UNCHANGED <<cache, temp, filled>> /\ Goes(e, Listing)
        /\ exec[e].pc = "simulate" /\ pc = "cache"
    BY <1>0, <1>1, <1>2, <1>6 DEF Precompute, Simulated, RunType, ExecState
  <2>2. /\ caller'[e].pc = "next"
        /\ \A y \in Callers \ {e} : caller'[y] = caller[y]
    <3>1. caller'[e] = Listing /\ \A y \in Callers \ {e} : caller'[y] = caller[y]
      BY <1>0, <2>1, Moves
    <3> QED BY <3>1, ListingType
  <2>3. \A x \in Callers, s \in Seeds : Ahead(x, s)' => Ahead(x, s)
    BY <1>2, <2>1, <2>2 DEF Ahead, At
  <2>4. AtWork'
    <3>1. \A y \in Callers : caller'[y].pc = "computed" => caller'[y].at \in caller'[y].todo
      BY <2>2 DEF TempInv, AtWork, At
    <3>2. \A f \in Execs : caller'[f].pc # "idle" => exec'[f].pc = "cache"
      BY <1>2, <1>3, <2>1, <2>2 DEF Callers
    <3>3. ASSUME NEW y \in Callers, Writes(y)'
          PROVE  \E z \in Callers : caller'[y].node = Node(z, caller'[y].at) /\ pid(z) = pid(y)
      BY <2>2, <3>3 DEF TempInv, AtWork, Writes, At
    <3> QED BY <3>1, <3>2, <3>3 DEF AtWork, At
  <2>5. /\ \A x \in Callers : caller[x].pc = "filling" => caller'[x] = caller[x]
        /\ \A f \in Execs : exec[f].pc \in {"recorded", "over"} => exec'[f].pc \in {"recorded", "over"}
        /\ \A q \in Requests : caller[q].pc # "idle" => caller'[q].pc # "idle"
    BY <1>2, <1>3, <2>1, <2>2, CallersAssumption DEF Callers
  <2> QED BY <2>1, <2>3, <2>4, <2>5, StillTemp
<1> QED BY <1>4, <1>5, <1>6

\* A request makes its listing, or finds nothing.
LEMMA AskTemp ==
    ASSUME CacheType, TempInv, NEW q \in Requests, Ask(q)
    PROVE  TempInv'
<1>0. q \in Callers /\ q \notin Execs
  BY CallersAssumption DEF Callers
<1>1. /\ UNCHANGED <<cache, temp, filled, exec>> /\ caller[q].pc = "idle"
      /\ caller'[q].pc \in {"next", "refused"}
      /\ \A y \in Callers \ {q} : caller'[y] = caller[y]
  <2>1. CASE Goes(q, Listing)
    <3>1. caller'[q] = Listing /\ \A y \in Callers \ {q} : caller'[y] = caller[y]
      BY <1>0, <2>1, Moves
    <3> QED BY <3>1, ListingType DEF Ask, Asked, row
  <2>2. CASE Goes(q, [Away EXCEPT !.pc = "refused"])
    <3>1. caller'[q] = [Away EXCEPT !.pc = "refused"] /\ \A y \in Callers \ {q} : caller'[y] = caller[y]
      BY <1>0, <2>2, Moves
    <3> QED BY <3>1 DEF Ask, Asked, row, Away
  <2> QED BY <2>1, <2>2 DEF Ask, Refuse
<1>2. \A x \in Callers, s \in Seeds : Ahead(x, s)' => Ahead(x, s)
  BY <1>0, <1>1 DEF Ahead, At
<1>3. AtWork'
  <2>1. \A y \in Callers : caller'[y].pc = "computed" => caller'[y].at \in caller'[y].todo
    BY <1>1 DEF TempInv, AtWork, At
  <2>2. \A f \in Execs : caller'[f].pc # "idle" => exec'[f].pc = "cache"
    BY <1>0, <1>1 DEF TempInv, AtWork, Callers
  <2>3. ASSUME NEW y \in Callers, Writes(y)'
        PROVE  \E z \in Callers : caller'[y].node = Node(z, caller'[y].at) /\ pid(z) = pid(y)
    BY <1>1, <2>3 DEF TempInv, AtWork, Writes, At
  <2> QED BY <2>1, <2>2, <2>3 DEF AtWork, At
<1>4. /\ \A x \in Callers : caller[x].pc = "filling" => caller'[x] = caller[x]
      /\ \A r \in Requests : caller[r].pc # "idle" => caller'[r].pc # "idle"
  BY <1>0, <1>1 DEF Callers
<1> QED BY <1>1, <1>2, <1>3, <1>4, StillTemp

\* Whoever moves neither a caller nor how far an execution is.
LEMMA ElsewhereTemp ==
    ASSUME TempInv, UNCHANGED caching, \A e \in Execs : exec'[e].pc = exec[e].pc
    PROVE  TempInv'
<1> USE DEF caching
<1>1. \A x \in Callers, s \in Seeds : Ahead(x, s)' <=> Ahead(x, s)
  BY DEF Ahead, At
<1>2. Names' /\ AtWork' /\ Fills'
  BY <1>1 DEF TempInv, Names, AtWork, Fills, Writes, At
<1> QED BY <1>2 DEF TempInv, TornOnlyBetweenThreads, Beside

LEMMA InitTemp == Init => TempInv
<1> SUFFICES ASSUME Init PROVE TempInv
  OBVIOUS
<1>1. /\ \A s \in Seeds : cache[s] = None /\ \A p \in Pids : temp[s][p] = None
      /\ \A x \in Callers : caller[x].pc = "idle"
  BY DEF Init, NoFile, Away
<1> QED BY <1>1, NodeIsItsOwn DEF TempInv, Names, AtWork, Fills, Writes, TornOnlyBetweenThreads, Callers

LEMMA StepTemp == TypeOK /\ TempInv /\ [Next]_vars => TempInv'
<1> SUFFICES ASSUME TypeOK, TempInv, [Next]_vars PROVE TempInv'
  OBVIOUS
<1>0. RunType /\ CacheType /\ report \in ReportState /\ UsedType
  BY TypeParts
<1>1. ASSUME NEW x \in Callers, CacheStep(x) PROVE TempInv'
  <2>1. CASE \/ \E s \in Seeds : Hit(x, s) \/ Reduce(x, s) \/ Unreadable(x, s)
             \/ SwapFails(x) \/ Answer(x)
    <3>1. exec' = exec
      BY <1>0, <1>1, CacheStepType DEF Outside, row
    <3> QED BY <1>0, <2>1, <3>1, CallerLooks, LooksTemp
  <2> QED BY <1>0, <1>1, <2>1, OpenTempKeeps, FillKeeps, SwapKeeps, UnlinkKeeps DEF CacheStep
<1>2. ASSUME NEW e \in Execs,
             \/ Start(e) \/ ClaimRefused(e) \/ Return(e) \/ SimulationFails(e) \/ Die(e)
             \/ Precompute(e) \/ Finish(e) \/ \E s \in Seeds : PrecomputeFails(e, s)
      PROVE  TempInv'
  BY <1>0, <1>2, RowTemp
<1>3. ASSUME NEW q \in Requests, Ask(q) PROVE TempInv'
  BY <1>0, <1>3, AskTemp
<1>4. ASSUME NEW e \in Execs, NEW s \in Seeds, Replicate(e, s) PROVE TempInv'
  BY <1>0, <1>4, ReplicateType, ElsewhereTemp DEF row
<1>5. CASE ReportStep \/ ReportDies \/ ReportRequeue
  BY <1>0, <1>5, ReportType, ElsewhereTemp DEF row
<1>6. CASE Reap \/ Requeue \/ UNCHANGED vars
  BY <1>6, ElsewhereTemp DEF Reap, Requeue, vars, row
<1>7. ASSUME NEW e \in Execs, Stall(e) PROVE TempInv'
  <2>1. \A f \in Execs : exec'[f].pc = exec[f].pc
    BY <1>0, <1>7 DEF Stall, RunType, ExecState
  <2> QED BY <1>7, <2>1, ElsewhereTemp DEF Stall
<1> QED BY <1>1, <1>2, <1>3, <1>4, <1>5, <1>6, <1>7 DEF Next, ExecStep, RequestStep, Callers

\* Whatever faults occur, and however requests are spread over processes: a
\* reader finds an incomplete cache file only while two threads of one process
\* are at work on it.  Workers and other processes never are.
THEOREM ProcessesKeepApart == Spec => []TornOnlyBetweenThreads
<1>1. Init => TypeOK /\ TempInv
  BY InitType, InitTemp
<1>2. TypeOK /\ TempInv /\ [Next]_vars => TypeOK' /\ TempInv'
  BY StepType, StepTemp
<1>3. TempInv => TornOnlyBetweenThreads
  BY DEF TempInv
<1> QED BY <1>1, <1>2, <1>3, PTL DEF Spec

-----------------------------------------------------------------------------
(* The answers.                                                             *)

\* A step at the caches: what a caller has taken stays, it can be turned away only
\* over a file it cannot read or a temp file that has gone, and it touches the temp
\* files of its own process only.
LEMMA CallerAnswers ==
    ASSUME CacheType, NEW x \in Callers, CacheStep(x)
    PROVE  /\ \A y \in Callers \ {x} : caller'[y] = caller[y]
           /\ caller[x].pc \notin {"idle", "refused"} /\ caller'[x].pc # "idle"
           /\ \/ caller'[x].pc # "refused" /\ caller'[x].took = caller[x].took
              \/ \E s \in Seeds : Unreadable(x, s)
              \/ SwapFails(x)
           /\ \A s \in Seeds, p \in Pids : p # pid(x) => temp'[s][p] = temp[s][p]
           /\ Writes(x)' => \/ ~Writes(x) /\ temp'[caller'[x].at][pid(x)] # None
                            \/ Writes(x) /\ caller'[x].at = caller[x].at /\ temp' = temp
<1>a. PICK c \in CallerState : c = caller[x]
  BY DEF CacheType
<1>1. CASE (\E s \in Seeds : Hit(x, s) \/ Reduce(x, s)) \/ Answer(x)
  <2>1. Looks(x) /\ \A y \in Callers \ {x} : caller'[y] = caller[y]
    BY <1>1, CallerLooks
  <2>2. caller'[x].pc # "refused"
    <3>1. \/ caller'[x].pc = c.pc /\ c.pc = "next"
          \/ caller'[x].pc \in {"computed", "answered"}
      <4>1. ASSUME NEW s \in Seeds, Hit(x, s) PROVE caller'[x].pc = c.pc /\ c.pc = "next"
        <5>1. caller'[x] = [c EXCEPT !.todo = @ \ {s}]
          BY <1>a, <4>1, Moves DEF Hit
        <5> QED BY <1>a, <4>1, <5>1 DEF CallerState, Hit, Turn
      <4>2. ASSUME NEW s \in Seeds, Reduce(x, s) PROVE caller'[x].pc = "computed"
        <5>1. caller'[x] = [c EXCEPT !.pc = "computed", !.at = s]
          BY <1>a, <4>2, Moves DEF Reduce
        <5> QED BY <5>1 DEF CallerState
      <4>3. ASSUME Answer(x) PROVE caller'[x].pc = "answered"
        <5>1. caller'[x] = [c EXCEPT !.pc = "answered"]
          BY <1>a, <4>3, Moves DEF Answer
        <5> QED BY <5>1 DEF CallerState
      <4> QED BY <1>1, <4>1, <4>2, <4>3
    <3> QED BY <3>1
  <2> QED BY <2>1, <2>2 DEF Looks, Writes
<1>2. CASE (\E s \in Seeds : Unreadable(x, s)) \/ SwapFails(x)
  BY <1>2, CallerLooks DEF Looks, Writes
<1>3. CASE OpenTemp(x)
  <2>a. PICK s \in Seeds : s = At(x)
    BY <1>3 DEF OpenTemp, CacheType, InHand, At
  <2> DEFINE node == IF temp[s][pid(x)] = None THEN Node(x, s) ELSE temp[s][pid(x)]
  <2>1. /\ caller[x].pc = "computed" /\ node # None
        /\ temp' = [temp EXCEPT ![s][pid(x)] = node]
        /\ Goes(x, [c EXCEPT !.pc = "filling", !.node = node])
    BY <1>a, <1>3, <2>a, NodeIsItsOwn DEF OpenTemp
  <2> HIDE DEF node
  <2>2. caller'[x] = [c EXCEPT !.pc = "filling", !.node = node] /\ \A y \in Callers \ {x} : caller'[y] = caller[y]
    BY <2>1, Moves
  <2>3. caller'[x].pc = "filling" /\ caller'[x].took = c.took /\ caller'[x].at = s
    BY <1>a, <2>a, <2>2 DEF CallerState, At
  <2>4. temp'[s][pid(x)] = node /\ \A t \in Seeds, p \in Pids : p # pid(x) => temp'[t][p] = temp[t][p]
    BY <2>1, PidType DEF CacheType
  <2> QED BY <1>a, <2>1, <2>2, <2>3, <2>4 DEF Writes
<1>4. CASE Fill(x)
  <2>1. caller'[x] = [c EXCEPT !.pc = "filled"] /\ \A y \in Callers \ {x} : caller'[y] = caller[y]
    BY <1>a, <1>4, Moves DEF Fill
  <2>2. caller'[x].pc = "filled" /\ caller'[x].took = c.took /\ caller'[x].at = c.at
    BY <2>1 DEF CallerState
  <2> QED BY <1>a, <1>4, <2>1, <2>2 DEF Fill, Writes
<1>5. CASE Swap(x)
  <2>1. caller'[x] = [c EXCEPT !.pc = "swapped"] /\ \A y \in Callers \ {x} : caller'[y] = caller[y]
    BY <1>a, <1>5, Moves DEF Swap
  <2>2. caller'[x].pc = "swapped" /\ caller'[x].took = c.took
    BY <2>1 DEF CallerState
  <2>3. \A t \in Seeds, p \in Pids : p # pid(x) => temp'[t][p] = temp[t][p]
    BY <1>5 DEF Swap, CacheType
  <2> QED BY <1>a, <1>5, <2>1, <2>2, <2>3 DEF Swap, Writes
<1>6. CASE Unlink(x)
  <2>1. /\ caller'[x] = [c EXCEPT !.pc = "next", !.todo = @ \ {At(x)}]
        /\ \A y \in Callers \ {x} : caller'[y] = caller[y]
    BY <1>a, <1>6, Moves DEF Unlink, Served
  <2>2. caller'[x].pc = "next" /\ caller'[x].took = c.took
    BY <2>1 DEF CallerState
  <2>3. \A t \in Seeds, p \in Pids : p # pid(x) => temp'[t][p] = temp[t][p]
    BY <1>6 DEF Unlink, CacheType
  <2> QED BY <1>a, <1>6, <2>1, <2>2, <2>3 DEF Unlink, Writes
<1> QED BY <1>1, <1>2, <1>3, <1>4, <1>5, <1>6 DEF CacheStep

\* The run of an answer that is under way stays done.
LEMMA DoneStays ==
    ASSUME RunType, Orderly, run = "done", Unstalled', [Next]_vars, UsedType, CacheType, report \in ReportState
    PROVE  run' = "done"
<1>1. \A e \in Execs : ~Writing(e)
  BY DEF Orderly, OneWriter
<1>2. ASSUME NEW e \in Execs,
             \/ Start(e) \/ ClaimRefused(e) \/ Return(e) \/ SimulationFails(e) \/ Die(e)
             \/ Precompute(e) \/ Finish(e) \/ \E s \in Seeds : PrecomputeFails(e, s)
      PROVE  run' = "done"
  BY <1>1, <1>2 DEF Start, ClaimRefused, Return, SimulationFails, Die, Precompute, Finish, PrecomputeFails,
                    Writing, CLAIMABLE
<1>3. ASSUME NEW e \in Execs, Stall(e) PROVE run' = "done"
  BY <1>3 DEF Stall, ACTIVE
<1>4. ASSUME NEW x \in Callers, CacheStep(x) PROVE run' = "done"
  BY <1>4, CacheStepType DEF Outside, row
<1>5. ASSUME NEW e \in Execs, NEW s \in Seeds, Replicate(e, s) PROVE run' = "done"
  BY <1>5, ReplicateType DEF row
<1>6. CASE ReportStep \/ ReportDies \/ ReportRequeue
  BY <1>6, ReportType DEF row
<1>7. CASE Reap \/ Requeue \/ UNCHANGED vars \/ \E q \in Requests : Ask(q)
  BY <1>7 DEF Reap, Requeue, vars, Ask, row, ACTIVE
<1> QED BY <1>2, <1>3, <1>4, <1>5, <1>6, <1>7 DEF Next, ExecStep, RequestStep, Callers

\* A caller is at the caches: the requests beside it keep their files, or are
\* beside a thread of their process.
LEMMA CacheAnswers ==
    ASSUME RunType, CacheType, Unstalled => Orderly, AnswerInv, NEW x \in Callers, CacheStep(x)
    PROVE  AnswerInv'
<1>0. UNCHANGED <<run, used>>
  BY CacheStepType DEF Outside, row
<1>1. ASSUME NEW q \in Requests PROVE q \in Callers
  BY DEF Callers
<1>2. ASSUME NEW q \in Requests, Beside(q) # {} PROVE Beside(q)' # {}
  <2>1. PICK r \in Requests \ {q} : Process[r] = Process[q] /\ caller[r].pc # "idle"
    BY <1>2 DEF Beside
  <2>2. caller'[r].pc # "idle"
    BY <1>1, <2>1, CallerAnswers
  <2> QED BY <2>1, <2>2 DEF Beside
<1>3. ASSUME NEW q \in Requests, q # x, pid(q) = pid(x) PROVE Beside(q)' # {}
  <2>1. x \in Requests /\ Process[x] = Process[q]
    BY <1>3, PidOwner DEF Callers
  <2> QED BY <1>3, <2>1, CallerAnswers DEF Beside
<1>4. Asking'
  <2> SUFFICES ASSUME NEW q \in Requests
               PROVE  /\ Unstalled' /\ caller'[q].pc # "idle" => run' = "done"
                      /\ Writes(q)' => temp'[caller'[q].at][pid(q)] # None \/ Beside(q)' # {}
    BY DEF Asking, At
  <2>0. InHand(caller[q]) /\ pid(q) \in Pids
    BY <1>1, PidType DEF CacheType
  <2>1. CASE q = x
    BY <1>0, <1>2, <2>1, CallerAnswers DEF AnswerInv, Asking, At, Unstalled
  <2>2. CASE q # x
    <3>1. caller'[q] = caller[q]
      BY <1>1, <2>2, CallerAnswers
    <3>2. Writes(q)' => Writes(q) /\ caller[q].at \in Seeds
      BY <2>0, <3>1 DEF Writes, InHand
    <3>3. CASE pid(q) = pid(x)
      BY <1>0, <1>3, <2>2, <3>1, <3>3 DEF AnswerInv, Asking, Unstalled
    <3>4. CASE pid(q) # pid(x)
      <4>1. Writes(q) => temp'[caller[q].at][pid(q)] = temp[caller[q].at][pid(q)]
        BY <2>0, <3>4, CallerAnswers DEF Writes, InHand
      <4> QED BY <1>0, <1>2, <3>1, <3>2, <4>1 DEF AnswerInv, Asking, At, Unstalled
    <3> QED BY <3>3, <3>4
  <2> QED BY <2>1, <2>2
<1>5. AnswersAreComplete'
  <2> SUFFICES ASSUME Unstalled, NEW q \in Requests
               PROVE  /\ caller'[q].pc \notin {"idle", "refused"} => caller'[q].took = Seeds
                      /\ caller'[q].pc = "refused" => Beside(q)' # {}
    BY <1>0 DEF AnswersAreComplete, Unstalled
  <2>1. CASE q # x
    BY <1>1, <1>2, <2>1, CallerAnswers DEF AnswerInv, AnswersAreComplete
  <2>2. CASE q = x
    <3>1. caller[q].took = Seeds /\ caller[q].pc \notin {"idle", "refused"}
      BY <2>2, CallerAnswers DEF AnswerInv, AnswersAreComplete
    <3>2. \A s \in Seeds : ~Unreadable(q, s)
      <4>1. run = "done"
        BY <3>1 DEF AnswerInv, Asking
      <4>2. \A s \in Seeds : Whole(s)
        BY <4>1 DEF Orderly, Readable
      <4> QED BY <4>2 DEF Unreadable, Metadata, Whole
    <3>3. CASE SwapFails(q)
      <4>1. Writes(q) /\ temp[At(q)][pid(q)] = None
        BY <3>3 DEF SwapFails, Writes
      <4>2. caller'[q].pc = "refused"
        BY <1>1, <3>3, RefusedType, Moves, CallerLooks DEF SwapFails, Refuse, Away
      <4> QED BY <1>2, <4>1, <4>2 DEF AnswerInv, Asking
    <3> QED BY <2>2, <3>1, <3>2, <3>3, CallerAnswers
  <2> QED BY <2>1, <2>2
<1> QED BY <1>4, <1>5 DEF AnswerInv

\* A request begins on a done run: it lists every replicate.
LEMMA AskAnswers ==
    ASSUME CacheType, Unstalled => Orderly, AnswerInv, NEW q \in Requests, Ask(q)
    PROVE  AnswerInv'
<1>0. q \in Callers /\ UNCHANGED <<run, used, temp>> /\ run = "done" /\ caller[q].pc = "idle"
  BY DEF Callers, Ask, Asked, row
<1>1. Unstalled => Marked = Seeds
  BY <1>0 DEF Orderly, Readable, Marked, Whole
<1>2. /\ \A y \in Callers \ {q} : caller'[y] = caller[y]
      /\ caller'[q].pc \in {"next", "refused"}
      /\ Unstalled => caller'[q].pc = "next" /\ caller'[q].took = Seeds
  <2>1. CASE Marked = {}
    <3>1. /\ caller'[q] = [Away EXCEPT !.pc = "refused"]
          /\ \A y \in Callers \ {q} : caller'[y] = caller[y]
      BY <1>0, <2>1, Moves DEF Ask, Refuse
    <3>2. caller'[q].pc = "refused"
      BY <3>1 DEF Away
    <3> QED BY <1>1, <2>1, <3>1, <3>2
  <2>2. CASE Marked # {}
    <3>1. caller'[q] = Listing /\ \A y \in Callers \ {q} : caller'[y] = caller[y]
      BY <1>0, <2>2, Moves DEF Ask
    <3> QED BY <1>1, <3>1, ListingType
  <2> QED BY <2>1, <2>2
<1>3. \A r \in Requests : Beside(r) # {} => Beside(r)' # {}
  BY <1>0, <1>2 DEF Beside, Callers
<1>4. Asking'
  BY <1>0, <1>2, <1>3 DEF AnswerInv, Asking, Writes, At, Unstalled, Callers
<1>5. AnswersAreComplete'
  BY <1>0, <1>2, <1>3 DEF AnswerInv, AnswersAreComplete, Unstalled, Callers
<1> QED BY <1>4, <1>5 DEF AnswerInv

LEMMA InitAnswers == Init => AnswerInv
<1> SUFFICES ASSUME Init PROVE AnswerInv
  OBVIOUS
<1>1. \A q \in Requests : caller[q].pc = "idle"
  BY DEF Init, Away, Callers
<1> QED BY <1>1 DEF AnswerInv, Asking, AnswersAreComplete, Writes

LEMMA StepAnswers == TypeOK /\ DirectoryInv /\ AnswerInv /\ [Next]_vars => AnswerInv'
<1> SUFFICES ASSUME TypeOK, DirectoryInv, AnswerInv, [Next]_vars PROVE AnswerInv'
  OBVIOUS
<1>0. /\ RunType /\ CacheType /\ report \in ReportState /\ UsedType
      /\ Unstalled => Orderly
      /\ Unstalled' => Unstalled
  <2>1. used'.stalls >= used.stalls /\ used.stalls \in Nat
    BY StepType, TypeParts DEF UsedType
  <2> QED BY <2>1, TypeParts, DirectoryParts DEF Unstalled
<1>1. ASSUME \A q \in Requests : caller'[q] = caller[q], temp' = temp PROVE AnswerInv'
  <2>1. Unstalled' /\ run = "done" => run' = "done"
    BY <1>0, DoneStays
  <2>2. \A q \in Requests : Beside(q)' = Beside(q)
    BY <1>1 DEF Beside
  <2> QED BY <1>0, <1>1, <2>1, <2>2 DEF AnswerInv, Asking, AnswersAreComplete, Writes, At
<1>2. ASSUME NEW x \in Callers, CacheStep(x) PROVE AnswerInv'
  BY <1>0, <1>2, CacheAnswers
<1>3. ASSUME NEW q \in Requests, Ask(q) PROVE AnswerInv'
  BY <1>0, <1>3, AskAnswers
<1>4. ASSUME NEW e \in Execs,
             \/ Start(e) \/ ClaimRefused(e) \/ Return(e) \/ SimulationFails(e) \/ Die(e)
             \/ Precompute(e) \/ Finish(e) \/ \E s \in Seeds : PrecomputeFails(e, s)
      PROVE  AnswerInv'
  <2>1. temp' = temp
    BY <1>4 DEF Start, ClaimRefused, Return, SimulationFails, Die, Precompute, Finish, PrecomputeFails, caching
  <2>2. caller' = caller \/ \E to : Goes(e, to)
    BY <1>4 DEF Start, ClaimRefused, Return, SimulationFails, Die, Precompute, Finish, PrecomputeFails,
                caching, Goes
  <2>3. \A q \in Requests : caller'[q] = caller[q]
    <3>1. CASE caller' = caller
      BY <3>1
    <3>2. ASSUME NEW to, Goes(e, to) PROVE \A q \in Requests : caller'[q] = caller[q]
      BY <1>0, <3>2, Moves, CallersAssumption DEF Callers
    <3> QED BY <2>2, <3>1, <3>2
  <2> QED BY <1>1, <2>1, <2>3
<1>5. ASSUME NEW e \in Execs, Stall(e) PROVE AnswerInv'
  BY <1>1, <1>5 DEF Stall, caching
<1>6. ASSUME NEW e \in Execs, NEW s \in Seeds, Replicate(e, s) PROVE AnswerInv'
  BY <1>0, <1>1, <1>6, ReplicateType DEF caching
<1>7. CASE ReportStep \/ ReportDies \/ ReportRequeue
  BY <1>0, <1>1, <1>7, ReportType DEF caching
<1>8. CASE Reap \/ Requeue \/ UNCHANGED vars
  BY <1>1, <1>8 DEF Reap, Requeue, vars, caching
<1> QED BY <1>2, <1>3, <1>4, <1>5, <1>6, <1>7, <1>8 DEF Next, ExecStep, RequestStep, Callers

\* A request for the metrics of a run covers every replicate, and is turned away
\* only beside a thread of its own process.
THEOREM AnswersCoverRuns == Spec => []AnswersAreComplete
<1>1. Init => TypeOK /\ DirectoryInv /\ AnswerInv
  BY InitType, InitDirectory, InitAnswers
<1>2. TypeOK /\ DirectoryInv /\ AnswerInv /\ [Next]_vars => TypeOK' /\ DirectoryInv' /\ AnswerInv'
  BY StepType, StepDirectory, StepAnswers
<1>3. AnswerInv => AnswersAreComplete
  BY DEF AnswerInv
<1> QED BY <1>1, <1>2, <1>3, PTL DEF Spec

-----------------------------------------------------------------------------
(* The rows a client sees.                                                  *)

\* The row of the run and the row of its report, each with the execution at work
\* on it.
AtRun == \E e \in Execs : Writing(e)
status == [r \in {"run", "report"} |-> IF r = "run" THEN run ELSE report.status]
busy == {r \in {"run", "report"} : IF r = "run" THEN AtRun ELSE report.pc # "idle"}

Contract == INSTANCE RowContract WITH Rows <- {"run", "report"}, row <- status

\* What a step may make of the run's row, and of the report's, in the contract.
LEMMA RunSteps ==
    ASSUME UNCHANGED report,
           \/ run \in CLAIMABLE /\ run' = "running" /\ ~AtRun /\ AtRun'
           \/ run' \in {"done", "failed"} /\ AtRun /\ ~AtRun'
           \/ run' = run /\ AtRun /\ ~AtRun'
           \/ run \in ACTIVE /\ run' = "failed" /\ (AtRun' <=> AtRun)
           \/ run' = run /\ (AtRun' <=> AtRun)
    PROVE  [Contract!Next]_<<status, busy>>
<1> HIDE DEF AtRun
<1>1. CASE run \in CLAIMABLE /\ run' = "running" /\ ~AtRun /\ AtRun'
  <2>1. Contract!Take("run")
    BY <1>1 DEF Contract!Take, Contract!Becomes, status, busy, CLAIMABLE
  <2> QED BY <2>1 DEF Contract!Next
<1>2. CASE run' \in {"done", "failed"} /\ AtRun /\ ~AtRun'
  <2>1. Contract!Report("run")
    BY <1>2 DEF Contract!Report, Contract!Becomes, status, busy
  <2> QED BY <2>1 DEF Contract!Next
<1>3. CASE run' = run /\ AtRun /\ ~AtRun'
  <2>1. Contract!Vanish("run")
    BY <1>3 DEF Contract!Vanish, status, busy
  <2> QED BY <2>1 DEF Contract!Next
<1>4. CASE run \in ACTIVE /\ run' = "failed" /\ (AtRun' <=> AtRun)
  <2>1. Contract!GiveUp("run")
    BY <1>4 DEF Contract!GiveUp, Contract!Becomes, status, busy, ACTIVE
  <2> QED BY <2>1 DEF Contract!Next
<1>5. CASE run' = run /\ (AtRun' <=> AtRun)
  BY <1>5 DEF status, busy
<1> QED BY <1>1, <1>2, <1>3, <1>4, <1>5

LEMMA ReportSteps ==
    ASSUME UNCHANGED <<run, exec>>,
           \/ /\ report.status \in CLAIMABLE /\ report'.status = "running"
              /\ report.pc = "idle" /\ report'.pc # "idle"
           \/ report'.status \in {"done", "failed"} /\ report.pc # "idle" /\ report'.pc = "idle"
           \/ /\ report.status \in ACTIVE /\ report'.status = "failed"
              /\ report'.pc = report.pc
           \/ report'.status = report.status /\ (report'.pc = "idle" <=> report.pc = "idle")
    PROVE  [Contract!Next]_<<status, busy>>
<1>0. AtRun' = AtRun
  BY DEF AtRun, Writing
<1> HIDE DEF AtRun
<1>1. CASE /\ report.status \in CLAIMABLE /\ report'.status = "running"
           /\ report.pc = "idle" /\ report'.pc # "idle"
  <2>1. Contract!Take("report")
    BY <1>0, <1>1 DEF Contract!Take, Contract!Becomes, status, busy, CLAIMABLE
  <2> QED BY <2>1 DEF Contract!Next
<1>2. CASE report'.status \in {"done", "failed"} /\ report.pc # "idle" /\ report'.pc = "idle"
  <2>1. Contract!Report("report")
    BY <1>0, <1>2 DEF Contract!Report, Contract!Becomes, status, busy
  <2> QED BY <2>1 DEF Contract!Next
<1>3. CASE /\ report.status \in ACTIVE /\ report'.status = "failed" /\ report'.pc = report.pc
  <2>1. Contract!GiveUp("report")
    BY <1>0, <1>3 DEF Contract!GiveUp, Contract!Becomes, status, busy, ACTIVE
  <2> QED BY <2>1 DEF Contract!Next
<1>4. CASE report'.status = report.status /\ (report'.pc = "idle" <=> report.pc = "idle")
  BY <1>0, <1>4 DEF status, busy
<1> QED BY <1>1, <1>2, <1>3, <1>4

LEMMA ReportContract ==
    ASSUME report \in ReportState, Covering, ReportStep \/ ReportDies \/ ReportRequeue
    PROVE  \/ /\ report.status \in CLAIMABLE /\ report'.status = "running"
              /\ report.pc = "idle" /\ report'.pc # "idle"
           \/ report'.status \in {"done", "failed"} /\ report.pc # "idle" /\ report'.pc = "idle"
           \/ /\ report.status \in ACTIVE /\ report'.status = "failed"
              /\ report'.pc = report.pc
           \/ report'.status = report.status /\ (report'.pc = "idle" <=> report.pc = "idle")
<1> USE DEF Sets
<1>1. CASE ReportStart
  <2>1. report.pc = "idle" /\ report.status \in {"queued", "failed"}
    BY <1>1 DEF ReportStart, Covering, CLAIMABLE
  <2>2. CASE report' = ReportEnds("failed")
    BY <2>1, <2>2, ReportEndsType DEF ACTIVE
  <2>3. CASE report' = [report EXCEPT !.status = "running", !.job = "started", !.pc = "clear"]
    BY <2>1, <2>3 DEF ReportState, CLAIMABLE
  <2> QED BY <1>1, <2>2, <2>3 DEF ReportStart
<1>2. CASE ReportClear
  BY <1>2 DEF ReportClear, ReportEnds, ReportState
<1>3. CASE ReportFinish
  <2>1. \E outcome \in {"done", "failed"} : report' = ReportEnds(outcome)
    BY <1>3 DEF ReportFinish
  <2> QED BY <1>3, <2>1, ReportEndsType DEF ReportFinish
<1>4. ASSUME NEW s \in Seeds, ReportStage(s)
      PROVE  report'.status = report.status /\ report.pc # "idle" /\ report'.pc # "idle"
  BY <1>4 DEF ReportStage, ReportState
<1>5. ASSUME NEW s \in Seeds, ReportRead(s)
      PROVE  \/ report'.status = "failed" /\ report.pc # "idle" /\ report'.pc = "idle"
             \/ report'.status = report.status /\ report'.pc = report.pc
  <2>1. CASE report' = ReportEnds("failed")
    BY <1>5, <2>1, ReportEndsType DEF ReportRead
  <2>2. CASE report' = [report EXCEPT !.todo = @ \ {s}, !.read = @ \cup {s}]
    BY <2>2 DEF ReportState
  <2> QED BY <1>5, <2>1, <2>2 DEF ReportRead
<1>6. CASE ReportDies
  BY <1>6 DEF ReportDies, ReportState
<1>7. CASE ReportRequeue
  BY <1>7 DEF ReportRequeue, ReportState
<1> QED BY <1>1, <1>2, <1>3, <1>4, <1>5, <1>6, <1>7 DEF ReportStep

\* An execution that leaves its writing leaves nobody at work on the run.
LEMMA LeavesRun ==
    ASSUME RunType, Orderly, NEW e \in Execs, Writing(e), ~Writing(e)',
           \A f \in Execs \ {e} : exec'[f] = exec[f]
    PROVE  AtRun /\ ~AtRun'
BY DEF Orderly, OneWriter, Writing, Working, AtRun

LEMMA ExecContract ==
    ASSUME RunType, Orderly, NEW e \in Execs,
           \/ Start(e) \/ ClaimRefused(e) \/ Return(e) \/ SimulationFails(e) \/ Die(e)
           \/ Precompute(e) \/ Finish(e) \/ \E s \in Seeds : PrecomputeFails(e, s)
    PROVE  [Contract!Next]_<<status, busy>>
<1>0. exec \in [Execs -> ExecState]
  BY DEF RunType
<1>1. CASE Start(e)
  <2>1. exec'[e].pc = "simulate"
    BY <1>0, <1>1, ExecMoves DEF Start
  <2>2. ~AtRun /\ AtRun'
    BY <1>1, <2>1 DEF Start, Orderly, OneWriter, Writing, Working, AtRun
  <2> QED BY <1>1, <2>2, RunSteps DEF Start
<1>2. CASE ClaimRefused(e) \/ Return(e) \/ Precompute(e) \/ (Die(e) /\ ~Writing(e))
  <2>1. PICK pc \in {"over", "cache"} :
          /\ exec' = [exec EXCEPT ![e].pc = pc]
          /\ pc = "cache" <=> Writing(e)
    BY <1>2 DEF ClaimRefused, Return, Precompute, Simulated, Die, Over, Writing
  <2>2. exec'[e].pc = pc /\ \A f \in Execs \ {e} : exec'[f] = exec[f]
    BY <1>0, <2>1, ExecMoves
  <2>3. AtRun' <=> AtRun
    BY <2>1, <2>2 DEF AtRun, Writing
  <2> QED BY <1>2, <2>3, RunSteps DEF ClaimRefused, Return, Precompute, Die
<1>3. CASE SimulationFails(e) \/ Finish(e) \/ \E s \in Seeds : PrecomputeFails(e, s)
  <2>1. PICK outcome \in {"done", "failed"} : Record(e, outcome)
    BY <1>3 DEF SimulationFails, Finish, PrecomputeFails
  <2>2. exec'[e].pc = "recorded" /\ \A f \in Execs \ {e} : exec'[f] = exec[f]
    BY <1>0, <2>1, ExecMoves DEF Record
  <2>3. Writing(e) /\ ~Writing(e)' /\ UNCHANGED report
    BY <1>3, <2>2 DEF SimulationFails, Finish, PrecomputeFails, Writing
  <2> QED BY <2>1, <2>2, <2>3, LeavesRun, RunSteps DEF Record
<1>4. CASE Die(e) /\ Writing(e)
  <2>1. exec'[e].pc = "over" /\ \A f \in Execs \ {e} : exec'[f] = exec[f]
    BY <1>0, <1>4, ExecMoves DEF Die, Over
  <2>2. ~Writing(e)'
    BY <2>1 DEF Writing
  <2> QED BY <1>4, <2>1, <2>2, LeavesRun, RunSteps DEF Die
<1> QED BY <1>1, <1>2, <1>3, <1>4

LEMMA StepContract ==
    ASSUME TypeOK, DirectoryInv, [Next]_vars, Unstalled'
    PROVE  [Contract!Next]_<<status, busy>>
<1>0. RunType /\ CacheType /\ report \in ReportState /\ UsedType
  BY TypeParts
<1>1. Orderly /\ Covering
  <2>1. used'.stalls >= used.stalls /\ used.stalls \in Nat
    BY <1>0, StepType DEF UsedType
  <2> QED BY <2>1, DirectoryParts DEF Unstalled
<1>2. ASSUME UNCHANGED <<run, exec, report>> PROVE UNCHANGED <<status, busy>>
  BY <1>2 DEF status, busy, AtRun, Writing
<1>3. ASSUME NEW e \in Execs, NEW s \in Seeds, Replicate(e, s) PROVE UNCHANGED <<status, busy>>
  BY <1>0, <1>2, <1>3, ReplicateType DEF row
<1>4. ASSUME NEW x \in Callers, CacheStep(x) PROVE UNCHANGED <<status, busy>>
  BY <1>0, <1>2, <1>4, CacheStepType DEF Outside, row
<1>5. CASE ReportStep \/ ReportDies \/ ReportRequeue
  BY <1>0, <1>1, <1>5, ReportType, ReportContract, ReportSteps DEF row
<1>6. CASE \E e \in Execs : Stall(e)
  <2>1. used'.stalls # 0
    BY <1>0, <1>6, SpendType DEF Stall
  <2> QED BY <2>1 DEF Unstalled
<1>7. CASE Reap
  <2>1. AtRun' <=> AtRun
    BY <1>7 DEF Reap, AtRun, Writing
  <2> QED BY <1>7, <2>1, RunSteps DEF Reap
<1>8. CASE Requeue \/ (\E q \in Requests : Ask(q)) \/ UNCHANGED vars
  BY <1>2, <1>8 DEF Requeue, Ask, vars, row
<1> QED BY <1>0, <1>1, <1>3, <1>4, <1>5, <1>6, <1>7, <1>8, ExecContract
        DEF Next, ExecStep, RequestStep, Callers

\* Until a live execution is given up, the run's row and the report's both move
\* as RowContract says, whatever the two jobs find in the directory.
RowsKept == [][Unstalled' => [Contract!Next]_<<status, busy>>]_vars

THEOREM ImplementsRowContract == Spec => RowsKept
<1>1. TypeOK /\ DirectoryInv /\ [Next]_vars
        => [Unstalled' => [Contract!Next]_<<status, busy>>]_vars
  BY StepContract
<1> QED BY <1>1, TypeCorrect, DirectoryKept, PTL DEF Spec, RowsKept

=============================================================================
