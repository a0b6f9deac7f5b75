------------------------- MODULE ReplicatePool_proofs -------------------------
(***************************************************************************)
(* Theorems about ReplicatePool, for every batch, pool and budget.         *)
(***************************************************************************)
EXTENDS ReplicatePool, TLAPS, FiniteSetTheorems, FunctionTheorems

USE SeedsAssumption, BoundsAssumption

-----------------------------------------------------------------------------
(* The inductive invariants.                                              *)

\* A batch that goes on has no exception; one that ends without an exception has
\* all its results, and once the call is over its processes are dead and their
\* markers stand.
EndInv ==
    /\ parent \in {"waiting", "guard", "joining"} <=> parent # "ended" /\ cause = "none"
    /\ parent \in {"joining", "ended"} /\ cause = "none" => results = Seeds
    /\ parent = "ended" => \A p \in Procs : proc[p].pc = "dead"
    /\ parent = "ended" /\ cause = "none" => marker = Seeds

-----------------------------------------------------------------------------
(* Type correctness.                                                        *)

\* The budget of a batch is a number of ticks.
LEMMA BudgetNat == Budget \in Nat
<1>1. Cardinality(Seeds) \in Nat /\ Cardinality(Procs) \in Nat
  BY ProcsAssumption, FS_CardinalityType
<1>2. Cardinality(Procs) # 0
  BY ProcsAssumption, FS_EmptySet
<1>3. \A a \in Nat, b \in Nat \ {0} : (a + b - 1) \div b \in Nat
  OBVIOUS
<1>4. Waves \in Nat
  BY <1>1, <1>2, <1>3 DEF Waves
<1>5. \A a \in Nat, b \in Nat : a * b \in Nat
  OBVIOUS
<1> QED BY <1>4, <1>5 DEF Budget

\* Process p moves to a well-formed state and the others stay.
LEMMA ProcMoves ==
    ASSUME TypeOK, NEW p \in Procs, NEW q \in ProcState,
           q.pc \in Busy => q.seed \in Seeds,
           proc' = [proc EXCEPT ![p] = q]
    PROVE  /\ proc' \in [Procs -> ProcState]
           /\ \A r \in Procs : proc'[r].pc \in Busy => proc'[r].seed \in Seeds
           /\ proc'[p] = q
<1>1. proc \in [Procs -> ProcState]
  BY DEF TypeOK
<1> HIDE DEF ProcState
<1> QED BY <1>1 DEF TypeOK

LEMMA RestTypes == Idle \in ProcState /\ Dead \in ProcState
                   /\ Idle.pc \notin Busy /\ Dead.pc \notin Busy /\ Dead.pc = "dead"
BY DEF Idle, Dead, ProcState, Busy

\* Going on to another pc of a task is such a move.
LEMMA BecomesMoves ==
    ASSUME TypeOK, NEW p \in Procs, proc[p].pc \in Busy, NEW pc \in Busy, Becomes(p, pc)
    PROVE  /\ proc' \in [Procs -> ProcState]
           /\ \A r \in Procs : proc'[r].pc \in Busy => proc'[r].seed \in Seeds
<1> DEFINE q == [pc |-> pc, seed |-> proc[p].seed, age |-> proc[p].age]
<1>1. proc[p] \in ProcState /\ proc[p].seed \in Seeds
  BY DEF TypeOK
<1>2. q \in ProcState /\ q.seed \in Seeds
  BY <1>1 DEF ProcState
<1>3. proc' = [proc EXCEPT ![p] = q]
  <2>1. proc \in [Procs -> ProcState]
    BY DEF TypeOK
  <2> QED BY <2>1 DEF Becomes
<1> HIDE DEF q
<1> QED BY <1>2, <1>3, ProcMoves

\* Spending within a bound keeps the count within it.
LEMMA SpendType ==
    ASSUME used \in UsedState
    PROVE  /\ used.deaths < MaxDeaths /\ Spend("deaths") => used' \in UsedState
           /\ used.stuck < MaxStuck /\ Spend("stuck") => used' \in UsedState
           /\ used.slow < MaxSlow /\ Spend("slow") => used' \in UsedState
           /\ Spend("relabelled") => used' \in UsedState
<1> USE DEF Spend, UsedState
<1>1. used.deaths < MaxDeaths /\ Spend("deaths") => used' \in UsedState
  OBVIOUS
<1>2. used.stuck < MaxStuck /\ Spend("stuck") => used' \in UsedState
  OBVIOUS
<1>3. used.slow < MaxSlow /\ Spend("slow") => used' \in UsedState
  OBVIOUS
<1>4. Spend("relabelled") => used' \in UsedState
  OBVIOUS
<1> QED BY <1>1, <1>2, <1>3, <1>4

LEMMA InitType == Init => TypeOK
<1> SUFFICES ASSUME Init PROVE TypeOK
  OBVIOUS
<1>1. proc \in [Procs -> ProcState] /\ \A p \in Procs : proc[p].pc \notin Busy
  BY RestTypes DEF Init
<1>2. used \in UsedState
  BY DEF Init, UsedState
<1> QED BY <1>1, <1>2, BudgetNat DEF Init, TypeOK, OPEN

LEMMA ProcessType ==
    ASSUME TypeOK, NEW p \in Procs, Process(p) \/ GetStuck(p) \/ Die(p) \/ Terminate(p)
    PROVE  TypeOK'
<1> DEFINE ProcType == /\ proc' \in [Procs -> ProcState]
                       /\ \A r \in Procs : proc'[r].pc \in Busy => proc'[r].seed \in Seeds
<1> HIDE DEF ProcState, UsedState
<1>1. CASE Take(p)
  <2>1. PICK s \in Seeds :
           /\ fut[s] = "pending" /\ fut' = [fut EXCEPT ![s] = "running"]
           /\ proc' = [proc EXCEPT ![p] = [pc |-> "running", seed |-> s, age |-> 0]]
           /\ marker' = marker \ {s}
    BY <1>1 DEF Take
  <2>2. [pc |-> "running", seed |-> s, age |-> 0] \in ProcState
    BY DEF ProcState, Busy
  <2>3. ProcType
    BY <2>1, <2>2, ProcMoves
  <2>4. \A t \in results : fut'[t] = "done"
    BY <2>1 DEF TypeOK
  <2> QED BY <1>1, <2>1, <2>3, <2>4 DEF TypeOK, Take, OPEN
<1>2. CASE WriteMarker(p)
  <2>1. ProcType
    BY <1>2, BecomesMoves DEF WriteMarker, Busy
  <2>2. marker' \subseteq Seeds
    BY <1>2 DEF WriteMarker, TypeOK, Busy
  <2> QED BY <1>2, <2>1, <2>2 DEF TypeOK, WriteMarker
<1>3. CASE Deliver(p) \/ RunRaises(p)
  <2>1. ProcType
    BY <1>3, ProcMoves, RestTypes DEF Deliver, RunRaises
  <2>2. PICK outcome \in {"done", "raised"} : Settle(proc[p].seed, outcome)
    BY <1>3 DEF Deliver, RunRaises
  <2>3. proc[p].seed \in Seeds
    BY <1>3 DEF TypeOK, Deliver, RunRaises, Busy
  <2>4. /\ fut' \in [Seeds -> OPEN \cup {"done", "raised", "broken"}]
        /\ ready' \subseteq Seeds
        /\ \A s \in results : fut'[s] = "done"
    BY <2>2, <2>3 DEF TypeOK, Settle
  <2> QED BY <1>3, <2>1, <2>4 DEF TypeOK, Deliver, RunRaises
<1>4. CASE GetStuck(p)
  <2>1. ProcType
    BY <1>4, BecomesMoves DEF GetStuck, Busy
  <2>2. used' \in UsedState
    BY <1>4, SpendType DEF GetStuck, TypeOK
  <2> QED BY <1>4, <2>1, <2>2 DEF TypeOK, GetStuck
<1>5. CASE Die(p)
  <2>1. ProcType
    BY <1>5, ProcMoves, RestTypes DEF Die
  <2>2. used' \in UsedState
    BY <1>5, SpendType DEF Die, TypeOK
  <2> QED BY <1>5, <2>1, <2>2 DEF TypeOK, Die
<1>6. CASE Terminate(p)
  <2>1. ProcType
    BY <1>6, ProcMoves, RestTypes DEF Terminate
  <2> QED BY <1>6, <2>1 DEF TypeOK, Terminate
<1> QED BY <1>1, <1>2, <1>3, <1>4, <1>5, <1>6 DEF Process

LEMMA ParentType == TypeOK /\ Parent => TypeOK'
<1> SUFFICES ASSUME TypeOK, Parent PROVE TypeOK'
  OBVIOUS
<1> HIDE DEF ProcState, UsedState
<1>1. CASE PickUp \/ TimeOut \/ GuardPasses \/ GuardStops \/ Complete \/ Killed
  BY <1>1 DEF TypeOK, PickUp, TimeOut, GuardPasses, GuardStops, Complete, Killed, Raise, pool
<1>2. CASE Join
  <2>1. proc' \in [Procs -> ProcState] /\ \A p \in Procs : proc'[p].pc \notin Busy
    BY <1>2, RestTypes DEF Join
  <2> QED BY <1>2, <2>1 DEF TypeOK, Join
<1>3. ASSUME NEW s \in Seeds, Yield(s) PROVE TypeOK'
  BY <1>3 DEF TypeOK, Yield, pool
<1>4. ASSUME NEW s \in Seeds, YieldError(s) PROVE TypeOK'
  BY <1>4 DEF TypeOK, YieldError, Raise, pool
<1>5. ASSUME NEW p \in Procs, Kill(p) PROVE TypeOK'
  <2>1. /\ proc' \in [Procs -> ProcState]
        /\ \A r \in Procs : proc'[r].pc \in Busy => proc'[r].seed \in Seeds
    BY <1>5, ProcMoves, RestTypes DEF Kill
  <2> QED BY <1>5, <2>1 DEF TypeOK, Kill
<1>6. ASSUME NEW isTimeout \in BOOLEAN, GuardRaises(isTimeout) PROVE TypeOK'
  <2>1. used' \in UsedState
    BY <1>6, SpendType DEF GuardRaises, TypeOK
  <2> QED BY <1>6, <2>1 DEF TypeOK, GuardRaises, Raise, pool
<1> QED BY <1>1, <1>2, <1>3, <1>4, <1>5, <1>6 DEF Parent

LEMMA PoolBreaksType == TypeOK /\ PoolBreaks => TypeOK'
BY DEF TypeOK, PoolBreaks, OPEN

LEMMA TickType == TypeOK /\ Tick => TypeOK'
<1> SUFFICES ASSUME TypeOK, Tick PROVE TypeOK'
  OBVIOUS
<1>1. now' \in 0..Budget + 1
  BY BudgetNat DEF TypeOK, Tick
<1>2. used' \in UsedState
  BY SpendType DEF TypeOK, Tick
<1> DEFINE older(p) == [pc |-> proc[p].pc, seed |-> proc[p].seed, age |-> proc[p].age + 1]
           next(p) == IF proc[p].pc \in {"running", "marked"} THEN older(p) ELSE proc[p]
<1>3. ASSUME NEW p \in Procs PROVE next(p) \in ProcState /\ next(p).pc = proc[p].pc
                                   /\ next(p).seed = proc[p].seed
  <2>1. proc[p] \in ProcState
    BY DEF TypeOK
  <2>2. CASE proc[p].pc \in {"running", "marked"}
    <3>1. proc[p].age # Timeout
      BY <2>2 DEF Tick, Urgent
    <3>2. older(p) \in ProcState
      BY <2>1, <3>1 DEF ProcState
    <3> QED BY <2>2, <3>2
  <2>3. CASE proc[p].pc \notin {"running", "marked"}
    BY <2>1, <2>3
  <2> QED BY <2>2, <2>3
<1>4. proc' = [p \in Procs |-> next(p)]
  BY DEF Tick
<1> HIDE DEF next, ProcState, UsedState
<1>5. /\ proc' \in [Procs -> ProcState]
      /\ \A p \in Procs : proc'[p].pc \in Busy => proc'[p].seed \in Seeds
  BY <1>3, <1>4 DEF TypeOK
<1> QED BY <1>1, <1>2, <1>5 DEF TypeOK, Tick

\* Every step of the batch keeps TypeOK.
LEMMA NextType == TypeOK /\ [Next]_vars => TypeOK'
<1>1. TypeOK /\ UNCHANGED vars => TypeOK'
  BY DEF TypeOK, vars, pool
<1> QED BY <1>1, ParentType, PoolBreaksType, TickType, ProcessType DEF Next

\* Type correctness of a batch of replicates (run_replicates, _map_replicates):
\* the clock stops one tick past the budget, a busy process has a replicate, and
\* only a replicate that ran to its end has a result.
THEOREM TypeCorrect == Spec => []TypeOK
<1> QED BY InitType, NextType, PTL DEF Spec

-----------------------------------------------------------------------------
(* How a batch ends.                                                        *)

LEMMA InitEnd == Init => EndInv
BY DEF Init, EndInv

LEMMA NextEnd == TypeOK /\ EndInv /\ [Next]_vars => EndInv'
<1> SUFFICES ASSUME TypeOK, EndInv, [Next]_vars PROVE EndInv'
  OBVIOUS
<1> USE DEF EndInv
<1>1. CASE Parent
  <2>1. CASE PickUp \/ TimeOut \/ GuardPasses \/ GuardStops \/ Complete \/ Killed
    BY <1>1, <2>1 DEF PickUp, TimeOut, GuardPasses, GuardStops, Complete, Killed, Raise, pool
  <2>2. CASE Join
    BY <2>2 DEF Join, Dead
  <2>3. ASSUME NEW s \in Seeds, Yield(s) PROVE EndInv'
    BY <2>3 DEF Yield, pool
  <2>4. ASSUME NEW s \in Seeds, YieldError(s) PROVE EndInv'
    BY <2>4 DEF YieldError, Raise, pool
  <2>5. ASSUME NEW p \in Procs, Kill(p) PROVE EndInv'
    BY <2>5 DEF Kill
  <2>6. ASSUME NEW isTimeout \in BOOLEAN, GuardRaises(isTimeout) PROVE EndInv'
    BY <2>6 DEF GuardRaises, Raise, pool
  <2> QED BY <1>1, <2>1, <2>2, <2>3, <2>4, <2>5, <2>6 DEF Parent
<1>2. CASE PoolBreaks
  BY <1>2 DEF PoolBreaks
<1>3. CASE Tick
  BY <1>3 DEF Tick
<1>4. ASSUME NEW p \in Procs, Process(p) \/ GetStuck(p) \/ Die(p) \/ Terminate(p)
      PROVE  EndInv'
  <2>1. proc[p].pc # "dead" /\ UNCHANGED <<parent, cause, results>>
    BY <1>4 DEF Process, Take, WriteMarker, Deliver, RunRaises, GetStuck, Die, Terminate
  <2>2. parent # "ended"
    BY <2>1
  <2> QED BY <2>1, <2>2
<1>5. CASE UNCHANGED vars
  BY <1>5 DEF vars, pool
<1> QED BY <1>1, <1>2, <1>3, <1>4, <1>5 DEF Next

\* EndInv is an invariant.
THEOREM EndInvariant == Spec => []EndInv
<1> QED BY InitEnd, NextEnd, TypeCorrect, PTL DEF Spec

\* The paths run_replicates returns are of replicates that all ran to their end in
\* this call, each with its completion marker, whatever died, stuck or broke.
THEOREM BatchesAreComplete == Spec => []ReturnedIsComplete
<1>1. EndInv => ReturnedIsComplete
  BY DEF EndInv, ReturnedIsComplete
<1> QED BY <1>1, EndInvariant, PTL

\* However _map_replicates ends, its processes are gone by then and no marker is
\* written or dropped afterwards.
THEOREM NothingOutlives == Spec => NothingOutlivesTheCall
<1>1. TypeOK /\ EndInv /\ [Next]_vars
        => [parent' = "ended" => /\ \A p \in Procs : proc'[p].pc = "dead"
                                 /\ parent = "ended" => UNCHANGED marker]_vars
  <2> SUFFICES ASSUME TypeOK, EndInv, Next
               PROVE  parent' = "ended" => /\ \A p \in Procs : proc'[p].pc = "dead"
                                           /\ parent = "ended" => UNCHANGED marker
    OBVIOUS
  <2>1. parent' = "ended" => \A p \in Procs : proc'[p].pc = "dead"
    BY NextEnd DEF EndInv
  <2>2. ASSUME parent = "ended" PROVE UNCHANGED marker
    <3>1. \A p \in Procs : proc[p].pc = "dead"
      BY <2>2 DEF EndInv
    <3>2. ~Parent
      BY <2>2 DEF Parent, PickUp, TimeOut, GuardPasses, GuardStops, Complete, Join, Killed,
                  Yield, YieldError, Kill, GuardRaises
    <3>3. \A p \in Procs : ~Process(p)
      BY <3>1 DEF Process, Take, WriteMarker, Deliver, RunRaises
    <3> QED BY <3>2, <3>3 DEF Next, PoolBreaks, Tick, GetStuck, Die, Terminate
  <2> QED BY <2>1, <2>2
<1> QED BY <1>1, TypeCorrect, EndInvariant, PTL DEF Spec, NothingOutlivesTheCall

-----------------------------------------------------------------------------
(* The budget is enough.                                                    *)

\* Waves is the ceiling it is meant to be: a wave for every replicate, and at
\* least one.
LEMMA WavesCover ==
    /\ Waves \in Nat \ {0}
    /\ Cardinality(Procs) * Waves >= Cardinality(Seeds)
    /\ Budget = Timeout * (Waves - 1) + Timeout
<1>1. Cardinality(Seeds) \in Nat /\ Cardinality(Procs) \in Nat
  BY ProcsAssumption, FS_CardinalityType
<1>2. Cardinality(Seeds) # 0 /\ Cardinality(Procs) # 0
  BY ProcsAssumption, FS_EmptySet
<1>3. ASSUME NEW a \in Nat \ {0}, NEW b \in Nat \ {0}
      PROVE  LET w == (a + b - 1) \div b IN w \in Nat \ {0} /\ b * w >= a
  <2> DEFINE x == a + b - 1
             w == x \div b
  <2>1. x \in Nat /\ x >= b
    OBVIOUS
  <2>2. w \in Int /\ x = b * w + (x % b) /\ x % b < b
    BY <2>1
  <2>3. b * w >= a
    BY <2>2
  <2>4. w \in Nat \ {0}
    <3>1. w <= 0 => b * w <= 0
      BY <2>2
    <3> QED BY <2>2, <2>3, <3>1
  <2> QED BY <2>3, <2>4
<1>4. Waves \in Nat \ {0} /\ Cardinality(Procs) * Waves >= Cardinality(Seeds)
  BY <1>1, <1>2, <1>3 DEF Waves
<1>5. \A t \in Nat, w \in Nat \ {0} : t * w = t * (w - 1) + t
  OBVIOUS
<1> QED BY <1>4, <1>5 DEF Budget

\* A longer share is not less time.
LEMMA MoreTurnsMoreTime ==
    \A m, n \in Int : m <= n => Timeout * m <= Timeout * n
OBVIOUS

\* How the replicates of S were dealt to the processes, each to one of them.
IsDeal(dealt, S) ==
    /\ dealt \in [Procs -> SUBSET S]
    /\ \A p \in Procs : \A q \in Procs \ {p} : dealt[p] \cap dealt[q] = {}

\* No deal gives every process n of them when there are fewer than that in all.
LEMMA DealsAreShort ==
    ASSUME NEW S, IsFiniteSet(S), NEW n \in Nat, NEW dealt, IsDeal(dealt, S),
           \A p \in Procs : Cardinality(dealt[p]) >= n
    PROVE  Cardinality(Procs) * n <= Cardinality(S)
<1>1. ASSUME NEW p \in Procs
      PROVE  Bijection(1..Cardinality(dealt[p]), dealt[p]) # {}
  <2>1. IsFiniteSet(dealt[p])
    BY FS_Subset DEF IsDeal
  <2> QED BY <2>1, FS_CardinalityType DEF ExistsBijection
<1> DEFINE nth == [p \in Procs |-> CHOOSE b \in Bijection(1..Cardinality(dealt[p]), dealt[p]) : TRUE]
           place == [x \in Procs \X (1..n) |-> nth[x[1]][x[2]]]
<1>2. ASSUME NEW p \in Procs PROVE nth[p] \in Bijection(1..Cardinality(dealt[p]), dealt[p])
  BY <1>1
<1>3. ASSUME NEW p \in Procs
      PROVE  1..n \subseteq 1..Cardinality(dealt[p])
  <2>1. IsFiniteSet(dealt[p])
    BY FS_Subset DEF IsDeal
  <2> QED BY <2>1, FS_CardinalityType
<1> HIDE DEF nth
<1>4. ASSUME NEW p \in Procs, NEW i \in 1..n
      PROVE  nth[p][i] \in dealt[p] /\ nth[p][i] \in S
  BY <1>2, <1>3 DEF IsDeal, Bijection, Injection, Surjection
<1>5. ASSUME NEW p \in Procs, NEW i \in 1..n, NEW q \in Procs, NEW j \in 1..n,
             nth[p][i] = nth[q][j]
      PROVE  p = q /\ i = j
  <2>1. p = q
    BY <1>4, <1>5 DEF IsDeal
  <2> QED BY <1>2, <1>3, <1>5, <2>1 DEF Bijection, Injection, IsInjective
<1>6. place \in Injection(Procs \X (1..n), S)
  BY <1>4, <1>5 DEF Injection, IsInjective
<1>7. Cardinality(Procs \X (1..n)) <= Cardinality(S)
  BY <1>6, FS_Injection
<1>8. IsFiniteSet(1..n) /\ Cardinality(1..n) = n
  <2>1. ExistsBijection(1..n, 1..n)
    BY Fun_ExistsBijReflexive
  <2> QED BY <2>1, FS_NatBijection, FS_CountingElements
<1> QED BY <1>7, <1>8, ProcsAssumption, FS_Product

\* No replicate got stuck and no guard was slow.
Unhindered == used.stuck = 0 /\ used.slow = 0
Started == {s \in Seeds : fut[s] # "pending"}
SomePending == \E s \in Seeds : fut[s] = "pending"

\* A process that was dealt so many replicates has been busy all along.
KeepsUp(dealt, p) ==
    /\ now <= Timeout * Cardinality(dealt[p])
    /\ proc[p].pc \in Busy => now <= Timeout * (Cardinality(dealt[p]) - 1) + proc[p].age

StuckIsSpent == used.stuck = 0 => \A p \in Procs : proc[p].pc # "stuck"

RunningHasProcess ==
    \A s \in Seeds : fut[s] = "running" =>
        \E p \in Procs : proc[p].pc = "dead" \/ (proc[p].pc \in Busy /\ proc[p].seed = s)

\* The parent holds, or is about to see, whatever has finished.
FinishedIsHeld ==
    parent \in {"waiting", "guard"} =>
        \A s \in Seeds : fut[s] \in {"done", "raised", "broken"} => s \in ready \cup batch \cup results

\* What runs last was started with a whole replicate's time left.
LastWave ==
    Unhindered => /\ now <= Budget
                  /\ \A p \in Procs : proc[p].pc \in Busy => now <= Timeout * (Waves - 1) + proc[p].age

\* As long as a replicate waits for a process none has been idle: the clock is
\* bounded by the replicates that process was dealt.
EvenDeal ==
    Unhindered /\ SomePending =>
        \E dealt \in [Procs -> SUBSET Started] :
            IsDeal(dealt, Started) /\ \A p \in Procs : KeepsUp(dealt, p)

BudgetInv ==
    /\ StuckIsSpent /\ RunningHasProcess /\ FinishedIsHeld
    /\ LastWave /\ EvenDeal
    /\ BudgetSuffices

LEMMA InitBudget == Init => BudgetInv
<1> SUFFICES ASSUME Init PROVE BudgetInv
  OBVIOUS
<1> DEFINE none == [p \in Procs |-> {}]
<1>1. IsDeal(none, Started)
  BY DEF IsDeal
<1>2. \A p \in Procs : proc[p].pc \notin Busy
  BY RestTypes DEF Init
<1>3. now = 0 /\ 0 <= Budget /\ Timeout * 0 = 0
  BY BudgetNat DEF Init
<1>4. \A p \in Procs : KeepsUp(none, p)
  BY <1>2, <1>3, FS_EmptySet DEF KeepsUp
<1>5. LastWave /\ EvenDeal
  BY <1>1, <1>2, <1>3, <1>4 DEF LastWave, EvenDeal, IsDeal
<1>6. StuckIsSpent /\ RunningHasProcess /\ FinishedIsHeld /\ BudgetSuffices
  BY <1>2 DEF Init, StuckIsSpent, RunningHasProcess, FinishedIsHeld, BudgetSuffices, Busy
<1> QED BY <1>5, <1>6 DEF BudgetInv

\* A step that neither starts a replicate nor lets time pass.
Calm ==
    /\ now' = now
    /\ \A p \in Procs : proc'[p].pc \in Busy => proc[p].pc \in Busy /\ proc'[p].age = proc[p].age
    /\ \A s \in Seeds : fut[s] # "pending" => fut'[s] # "pending"
    /\ Unhindered' => Unhindered

LEMMA CalmKeepsTime == LastWave /\ EvenDeal /\ Calm => LastWave' /\ EvenDeal'
<1> SUFFICES ASSUME LastWave, EvenDeal, Calm PROVE LastWave' /\ EvenDeal'
  OBVIOUS
<1>1. LastWave'
  BY DEF LastWave, Calm
<1>2. ASSUME Unhindered', SomePending'
      PROVE  \E dealt \in [Procs -> SUBSET Started'] :
               IsDeal(dealt, Started') /\ \A p \in Procs : KeepsUp(dealt, p)'
  <2>1. PICK dealt \in [Procs -> SUBSET Started] : IsDeal(dealt, Started) /\ \A p \in Procs : KeepsUp(dealt, p)
    BY <1>2 DEF EvenDeal, Calm, SomePending
  <2>2. Started \subseteq Started'
    BY DEF Calm, Started
  <2>3. IsDeal(dealt, Started')
    BY <2>1, <2>2 DEF IsDeal
  <2>4. \A p \in Procs : KeepsUp(dealt, p)'
    BY <2>1 DEF KeepsUp, Calm
  <2> QED BY <2>3, <2>4 DEF IsDeal
<1> QED BY <1>1, <1>2 DEF EvenDeal

\* A process that takes a replicate takes a turn; the last replicate is taken by
\* the time all but one of the waves are over, since somebody was dealt fewer.
LEMMA TakeKeepsTime ==
    ASSUME TypeOK, LastWave, EvenDeal, NEW p \in Procs, Take(p)
    PROVE  LastWave' /\ EvenDeal'
<1>1. PICK s \in Seeds :
         /\ fut[s] = "pending" /\ fut' = [fut EXCEPT ![s] = "running"]
         /\ proc' = [proc EXCEPT ![p] = [pc |-> "running", seed |-> s, age |-> 0]]
  BY DEF Take
<1>2. now' = now /\ used' = used /\ proc[p].pc = "idle"
  BY DEF Take
<1>3. /\ proc'[p].age = 0
      /\ \A q \in Procs \ {p} : proc'[q] = proc[q]
  BY <1>1 DEF TypeOK
<1>4. Started' = Started \cup {s} /\ s \notin Started /\ Started \subseteq Seeds
  BY <1>1 DEF Started, TypeOK
<1>5. now \in Nat
  BY BudgetNat DEF TypeOK
<1>6. IsFiniteSet(Started) /\ IsFiniteSet(Seeds) /\ Cardinality(Started) < Cardinality(Seeds)
  <2>1. IsFiniteSet(Seeds) /\ Started \in SUBSET Seeds /\ Started # Seeds
    BY <1>1, <1>4
  <2>2. IsFiniteSet(Started) /\ Cardinality(Started) <= Cardinality(Seeds)
        /\ Cardinality(Seeds) # Cardinality(Started)
    BY <2>1, FS_Subset
  <2>3. Cardinality(Started) \in Nat /\ Cardinality(Seeds) \in Nat
    BY <2>1, <2>2, FS_CardinalityType
  <2> QED BY <2>1, <2>2, <2>3
<1>7. CASE Unhindered'
  <2>1. Unhindered
    BY <1>2, <1>7 DEF Unhindered
  <2>2. PICK dealt \in [Procs -> SUBSET Started] :
           IsDeal(dealt, Started) /\ \A q \in Procs : KeepsUp(dealt, q)
    BY <1>1, <2>1 DEF EvenDeal, SomePending
  <2>3. \A q \in Procs : Cardinality(dealt[q]) \in Nat /\ IsFiniteSet(dealt[q]) /\ s \notin dealt[q]
    <3>1. ASSUME NEW q \in Procs PROVE dealt[q] \in SUBSET Started
      OBVIOUS
    <3> QED BY <1>4, <1>6, <3>1, FS_Subset, FS_CardinalityType
  <2>4. PICK q \in Procs : Cardinality(dealt[q]) <= Waves - 1
    <3>1. ASSUME \A q \in Procs : Cardinality(dealt[q]) >= Waves PROVE FALSE
      <4>1. Cardinality(Procs) * Waves <= Cardinality(Started)
        BY <1>6, <2>2, <3>1, DealsAreShort, WavesCover
      <4>2. Cardinality(Procs) * Waves \in Int
        BY ProcsAssumption, FS_CardinalityType, WavesCover
      <4> QED BY <1>6, <4>1, <4>2, WavesCover, FS_CardinalityType
    <3> QED BY <2>3, <3>1, WavesCover
  <2>5. now <= Timeout * (Waves - 1)
    <3>1. Timeout * Cardinality(dealt[q]) <= Timeout * (Waves - 1)
      BY <2>3, <2>4, MoreTurnsMoreTime, WavesCover
    <3>2. Timeout * Cardinality(dealt[q]) \in Int /\ Timeout * (Waves - 1) \in Int
      BY <2>3, WavesCover
    <3> QED BY <1>5, <2>2, <3>1, <3>2 DEF KeepsUp
  <2>6. LastWave'
    <3>1. ASSUME NEW r \in Procs, proc'[r].pc \in Busy
          PROVE  now' <= Timeout * (Waves - 1) + proc'[r].age
      <4>1. CASE r = p
        <5>1. Timeout * (Waves - 1) \in Int
          BY WavesCover
        <5> QED BY <1>2, <1>3, <2>5, <4>1, <5>1
      <4>2. CASE r # p
        BY <1>2, <1>3, <2>1, <3>1, <4>2 DEF LastWave
      <4> QED BY <4>1, <4>2
    <3>2. now' <= Budget
      BY <1>2, <2>1 DEF LastWave
    <3> QED BY <3>1, <3>2 DEF LastWave
  <2> DEFINE dealtNow == [dealt EXCEPT ![p] = @ \cup {s}]
  <2>7. dealtNow \in [Procs -> SUBSET Started'] /\ IsDeal(dealtNow, Started')
    <3>1. dealtNow \in [Procs -> SUBSET Started']
      BY <1>4
    <3>2. \A r \in Procs : \A u \in Procs \ {r} : dealtNow[r] \cap dealtNow[u] = {}
      BY <2>2, <2>3 DEF IsDeal
    <3> QED BY <3>1, <3>2 DEF IsDeal
  <2>8. ASSUME NEW r \in Procs PROVE KeepsUp(dealtNow, r)'
    <3>1. CASE r = p
      <4>1. dealtNow[p] = dealt[p] \cup {s}
        OBVIOUS
      <4>2. Cardinality(dealtNow[p]) = Cardinality(dealt[p]) + 1
        BY <2>3, <4>1, FS_AddElement
      <4> HIDE DEF dealtNow
      <4>3. PICK n \in Nat : n = Cardinality(dealt[p]) /\ n + 1 = Cardinality(dealtNow[p])
        BY <2>3, <4>2
      <4>4. now <= Timeout * n
        BY <2>2, <4>3 DEF KeepsUp
      <4>5. now <= Timeout * (n + 1) /\ now <= Timeout * ((n + 1) - 1) + 0
        BY <1>5, <4>4
      <4> QED BY <1>2, <1>3, <3>1, <4>3, <4>5 DEF KeepsUp
    <3>2. CASE r # p
      <4>1. dealtNow[r] = dealt[r]
        BY <3>2
      <4>2. Cardinality(dealtNow[r]) = Cardinality(dealt[r])
        BY <4>1
      <4> HIDE DEF dealtNow
      <4> QED BY <1>2, <1>3, <2>2, <3>2, <4>2 DEF KeepsUp
    <3> QED BY <3>1, <3>2
  <2>9. EvenDeal'
    <3>1. PICK d : d = dealtNow
      OBVIOUS
    <3> HIDE DEF dealtNow
    <3>2. d \in [Procs -> SUBSET Started'] /\ IsDeal(d, Started')
      BY <2>7, <3>1
    <3>3. \A r \in Procs : KeepsUp(d, r)'
      BY <2>8, <3>1
    <3> QED BY <3>2, <3>3 DEF EvenDeal
  <2> QED BY <2>6, <2>9
<1> QED BY <1>7 DEF LastWave, EvenDeal

\* What a tick does to a process.
LEMMA TickAges ==
    ASSUME TypeOK, Tick, NEW p \in Procs
    PROVE  /\ proc'[p].pc = proc[p].pc /\ proc'[p].seed = proc[p].seed
           /\ proc[p].pc \in {"running", "marked"} =>
                 proc'[p].age = proc[p].age + 1 /\ proc[p].age + 1 <= Timeout
<1>1. proc[p] \in ProcState
  BY DEF TypeOK
<1>2. proc'[p] = IF proc[p].pc \in {"running", "marked"}
                   THEN [pc |-> proc[p].pc, seed |-> proc[p].seed, age |-> proc[p].age + 1]
                   ELSE proc[p]
  BY DEF Tick
<1>3. ASSUME proc[p].pc \in {"running", "marked"} PROVE proc[p].age + 1 <= Timeout
  <2>1. proc[p].age # Timeout
    BY <1>3 DEF Tick, Urgent
  <2> QED BY <1>1, <2>1 DEF ProcState
<1> QED BY <1>2, <1>3

\* Time passes in a waiting parent only while some replicate is at work, and while
\* replicates wait only with every process at work.
LEMMA TickNeedsWork ==
    ASSUME TypeOK, StuckIsSpent, RunningHasProcess, FinishedIsHeld, Tick, Unhindered'
    PROVE  /\ Unhindered
           /\ \A p \in Procs : proc[p].pc # "stuck"
           /\ \E p \in Procs : proc[p].pc \in {"running", "marked"}
           /\ SomePending => \A p \in Procs : proc[p].pc \in {"running", "marked"}
<1>1. parent = "waiting" /\ used' = used
  <2>1. parent # "guard"
    BY DEF Tick, Spend, Unhindered, TypeOK, UsedState
  <2> QED BY <2>1 DEF Tick
<1>2. Unhindered /\ \A p \in Procs : proc[p].pc # "stuck"
  BY <1>1 DEF Unhindered, StuckIsSpent
<1>3. ready = {} /\ batch = {} /\ results # Seeds
  BY <1>1 DEF Tick, Urgent
<1>4. \A s \in Seeds : fut[s] \in OPEN \/ s \in results
  BY <1>1, <1>3 DEF FinishedIsHeld, TypeOK
<1>5. PICK s \in Seeds : fut[s] \in OPEN
  BY <1>3, <1>4 DEF TypeOK
<1>6. ~Broken
  BY <1>4 DEF Broken, TypeOK, OPEN
<1>7. \A p \in Procs : proc[p].pc # "dead"
  BY <1>5 DEF Tick, Urgent
<1>8. \A p \in Procs : proc[p].pc \in {"idle", "running", "marked"}
  BY <1>2, <1>7 DEF TypeOK, ProcState, Busy
<1>9. SomePending => \A p \in Procs : proc[p].pc \in {"running", "marked"}
  BY <1>6, <1>8 DEF Tick, Urgent, SomePending
<1>10. \E p \in Procs : proc[p].pc \in {"running", "marked"}
  <2>1. CASE SomePending
    BY <1>9, <2>1, ProcsAssumption
  <2>2. CASE ~SomePending
    <3>1. fut[s] = "running"
      BY <1>5, <2>2 DEF OPEN, SomePending
    <3>2. PICK p \in Procs : proc[p].pc \in Busy
      BY <1>7, <3>1 DEF RunningHasProcess
    <3> QED BY <1>8, <3>2 DEF Busy
  <2> QED BY <2>1, <2>2
<1> QED BY <1>2, <1>9, <1>10

LEMMA TickKeepsTime ==
    ASSUME TypeOK, BudgetInv, Tick
    PROVE  LastWave' /\ EvenDeal'
<1>1. CASE Unhindered'
  <2>1. /\ Unhindered /\ \A p \in Procs : proc[p].pc # "stuck"
        /\ \E p \in Procs : proc[p].pc \in {"running", "marked"}
        /\ SomePending => \A p \in Procs : proc[p].pc \in {"running", "marked"}
    BY <1>1, TickNeedsWork DEF BudgetInv
  <2>2. now \in Nat /\ now' = now + 1 /\ Timeout * (Waves - 1) \in Int
    BY BudgetNat, WavesCover DEF TypeOK, Tick
  <2>3. \A p \in Procs : proc[p].age \in Nat
    BY DEF TypeOK, ProcState
  <2>4. ASSUME NEW p \in Procs, proc'[p].pc \in Busy
        PROVE  /\ proc[p].pc \in {"running", "marked"}
               /\ proc'[p].age = proc[p].age + 1 /\ proc[p].age + 1 <= Timeout
               /\ now' <= Timeout * (Waves - 1) + proc'[p].age
    <3>1. proc[p].pc \in {"running", "marked"}
      BY <2>1, <2>4, TickAges DEF Busy
    <3>2. proc'[p].age = proc[p].age + 1 /\ proc[p].age + 1 <= Timeout
      BY <3>1, TickAges
    <3>3. now <= Timeout * (Waves - 1) + proc[p].age
      BY <2>1, <3>1 DEF BudgetInv, LastWave, Busy
    <3> QED BY <2>2, <2>3, <3>1, <3>2, <3>3
  <2>5. now' <= Budget
    <3>1. PICK p \in Procs : proc'[p].pc \in Busy
      BY <2>1, TickAges DEF Busy
    <3> QED BY <2>2, <2>3, <2>4, <3>1, WavesCover
  <2>6. LastWave'
    BY <2>4, <2>5 DEF LastWave
  <2>7. CASE SomePending
    <3>1. PICK dealt \in [Procs -> SUBSET Started] :
             IsDeal(dealt, Started) /\ \A p \in Procs : KeepsUp(dealt, p)
      BY <2>1, <2>7 DEF BudgetInv, EvenDeal
    <3>2. Started' = Started
      BY DEF Tick, Started
    <3>3. ASSUME NEW p \in Procs PROVE KeepsUp(dealt, p)'
      <4>1. proc[p].pc \in {"running", "marked"} /\ proc'[p].pc \in Busy
        BY <2>1, <2>7, TickAges DEF Busy
      <4>2. dealt[p] \in SUBSET Seeds
        BY DEF Started
      <4>3. PICK n \in Nat : n = Cardinality(dealt[p])
        BY <4>2, FS_Subset, FS_CardinalityType
      <4>4. now <= Timeout * (n - 1) + proc[p].age
        BY <3>1, <4>1, <4>3 DEF KeepsUp, Busy
      <4>5. now + 1 <= Timeout * (n - 1) + proc'[p].age /\ proc'[p].age <= Timeout
        <5>1. Timeout * (n - 1) \in Int
          OBVIOUS
        <5> QED BY <2>2, <2>3, <2>4, <4>1, <4>4, <5>1
      <4>6. now + 1 <= Timeout * n
        <5>1. Timeout * n = Timeout * (n - 1) + Timeout /\ Timeout * (n - 1) \in Int
          OBVIOUS
        <5> QED BY <2>2, <2>3, <2>4, <4>1, <4>5, <5>1
      <4> QED BY <2>2, <4>3, <4>5, <4>6 DEF KeepsUp
    <3>4. EvenDeal'
      BY <3>1, <3>2, <3>3 DEF EvenDeal
    <3> QED BY <2>6, <3>4
  <2>8. CASE ~SomePending
    BY <2>6, <2>8 DEF EvenDeal, SomePending, Tick
  <2> QED BY <2>7, <2>8
<1> QED BY <1>1 DEF LastWave, EvenDeal

\* Every other step is calm.
LEMMA OtherStepsAreCalm ==
    ASSUME TypeOK, [Next]_vars, ~Tick, \A p \in Procs : ~Take(p)
    PROVE  Calm
<1>1. CASE Parent
  <2>1. CASE PickUp \/ TimeOut \/ GuardPasses \/ GuardStops \/ Complete \/ Killed
             \/ (\E s \in Seeds : Yield(s) \/ YieldError(s))
    BY <2>1 DEF PickUp, TimeOut, GuardPasses, GuardStops, Complete, Killed, Yield, YieldError,
                pool, Calm, Unhindered
  <2>2. CASE Join
    BY <2>2, RestTypes DEF Join, Calm, Unhindered
  <2>3. ASSUME NEW p \in Procs, Kill(p) PROVE Calm
    BY <2>3, RestTypes DEF Kill, Calm, Unhindered, TypeOK
  <2>4. ASSUME NEW isTimeout \in BOOLEAN, GuardRaises(isTimeout) PROVE Calm
    BY <2>4 DEF GuardRaises, pool, Calm, Unhindered, Spend, TypeOK, UsedState
  <2> QED BY <1>1, <2>1, <2>2, <2>3, <2>4 DEF Parent
<1>2. CASE PoolBreaks
  BY <1>2 DEF PoolBreaks, Calm, Unhindered, TypeOK
<1>3. ASSUME NEW p \in Procs, WriteMarker(p) \/ GetStuck(p) PROVE Calm
  <2>1. /\ proc[p].pc \in Busy /\ proc'[p].age = proc[p].age
        /\ \A q \in Procs \ {p} : proc'[q] = proc[q]
    BY <1>3 DEF WriteMarker, GetStuck, Becomes, Busy, TypeOK
  <2>2. Unhindered' => Unhindered
    BY <1>3 DEF WriteMarker, GetStuck, Unhindered, Spend, TypeOK, UsedState
  <2>3. now' = now /\ fut' = fut
    BY <1>3 DEF WriteMarker, GetStuck
  <2> QED BY <2>1, <2>2, <2>3 DEF Calm
<1>4. ASSUME NEW p \in Procs, Deliver(p) \/ RunRaises(p) \/ Die(p) \/ Terminate(p) PROVE Calm
  <2>1. /\ proc'[p].pc \notin Busy
        /\ \A q \in Procs \ {p} : proc'[q] = proc[q]
    BY <1>4, RestTypes DEF Deliver, RunRaises, Die, Terminate, TypeOK
  <2>2. Unhindered' => Unhindered
    BY <1>4 DEF Deliver, RunRaises, Die, Terminate, Unhindered, Spend, TypeOK, UsedState
  <2>3. now' = now /\ \A s \in Seeds : fut[s] # "pending" => fut'[s] # "pending"
    BY <1>4 DEF Deliver, RunRaises, Die, Terminate, Settle, TypeOK
  <2> QED BY <2>1, <2>2, <2>3 DEF Calm
<1>5. CASE UNCHANGED vars
  BY <1>5 DEF vars, pool, Calm, Unhindered
<1> QED BY <1>1, <1>2, <1>3, <1>4, <1>5 DEF Next, Process

\* The clock never passes the budget on its own, so TimeOut is never reached.
LEMMA NextReasons ==
    ASSUME TypeOK, BudgetInv, [Next]_vars
    PROVE  BudgetSuffices'
<1> DEFINE Excused == used.stuck > 0 \/ used.slow > 0 \/ used.relabelled > 0
<1>1. Excused => Excused'
  <2>1. used' = used \/ \E what \in {"deaths", "stuck", "slow", "relabelled"} : Spend(what)
    BY DEF Next, Parent, Process, PickUp, TimeOut, GuardPasses, GuardStops, Complete, Join, Killed,
           Yield, YieldError, Kill, GuardRaises, PoolBreaks, Tick, Take, WriteMarker, Deliver,
           RunRaises, GetStuck, Die, Terminate, vars
  <2> QED BY <2>1 DEF Spend, TypeOK, UsedState
<1>2. CASE cause' = cause
  BY <1>1, <1>2 DEF BudgetInv, BudgetSuffices
<1>3. CASE TimeOut
  <2>1. ~Unhindered
    BY <1>3, BudgetNat DEF TimeOut, BudgetInv, LastWave, TypeOK
  <2> QED BY <1>3, <2>1 DEF TimeOut, Unhindered, BudgetSuffices, TypeOK, UsedState
<1>4. ASSUME NEW isTimeout \in BOOLEAN, GuardRaises(isTimeout) PROVE BudgetSuffices'
  BY <1>4 DEF GuardRaises, Raise, Spend, BudgetSuffices, TypeOK, UsedState
<1>5. CASE Join \/ GuardStops \/ \E s \in Seeds : YieldError(s)
  <2>1. cause' # "timeout" \/ cause' = cause
    BY <1>5 DEF Join, GuardStops, YieldError, Raise
  <2> QED BY <1>1, <2>1 DEF BudgetInv, BudgetSuffices
<1>6. \/ cause' = cause \/ TimeOut \/ Join \/ GuardStops
      \/ \E s \in Seeds : YieldError(s)
      \/ \E isTimeout \in BOOLEAN : GuardRaises(isTimeout)
  BY DEF Next, Parent, Process, PickUp, GuardPasses, Complete, Killed, Yield, Kill, PoolBreaks, Tick,
         Take, WriteMarker, Deliver, RunRaises, GetStuck, Die, Terminate, vars
<1> QED BY <1>2, <1>3, <1>4, <1>5, <1>6

LEMMA NextHeld ==
    ASSUME TypeOK, BudgetInv, [Next]_vars
    PROVE  FinishedIsHeld'
<1> USE DEF FinishedIsHeld, BudgetInv
<1>1. CASE Parent
  BY <1>1 DEF Parent, PickUp, TimeOut, GuardPasses, GuardStops, Complete, Join, Killed,
              Yield, YieldError, Kill, GuardRaises, Raise, pool
<1>2. CASE PoolBreaks
  BY <1>2 DEF PoolBreaks, TypeOK
<1>3. CASE Tick \/ UNCHANGED vars
  BY <1>3 DEF Tick, vars, pool
<1>4. ASSUME NEW p \in Procs, Take(p) PROVE FinishedIsHeld'
  BY <1>4 DEF Take, TypeOK
<1>5. ASSUME NEW p \in Procs, Deliver(p) \/ RunRaises(p) PROVE FinishedIsHeld'
  BY <1>5 DEF Deliver, RunRaises, Settle, TypeOK
<1>6. ASSUME NEW p \in Procs, WriteMarker(p) \/ GetStuck(p) \/ Die(p) \/ Terminate(p)
      PROVE  FinishedIsHeld'
  BY <1>6 DEF WriteMarker, GetStuck, Die, Terminate
<1> QED BY <1>1, <1>2, <1>3, <1>4, <1>5, <1>6 DEF Next, Process

LEMMA NextStuck ==
    ASSUME TypeOK, BudgetInv, [Next]_vars
    PROVE  StuckIsSpent'
<1> USE DEF StuckIsSpent, BudgetInv
<1>1. CASE Tick
  BY <1>1, TickAges DEF Tick, Spend, TypeOK, UsedState
<1>2. ASSUME NEW p \in Procs, GetStuck(p) PROVE StuckIsSpent'
  BY <1>2 DEF GetStuck, Spend, TypeOK, UsedState
<1>3. CASE Join
  BY <1>3 DEF Join, Dead
<1>4. CASE UNCHANGED <<proc, used>>
  BY <1>4
<1>5. ASSUME NEW isTimeout \in BOOLEAN, GuardRaises(isTimeout) PROVE StuckIsSpent'
  BY <1>5 DEF GuardRaises, Spend, pool, TypeOK, UsedState
<1>6. ASSUME NEW p \in Procs,
             Take(p) \/ WriteMarker(p) \/ Deliver(p) \/ RunRaises(p) \/ Die(p) \/ Terminate(p) \/ Kill(p)
      PROVE  StuckIsSpent'
  <2>1. used'.stuck = used.stuck
    BY <1>6 DEF Take, WriteMarker, Deliver, RunRaises, Die, Terminate, Kill, Spend, TypeOK, UsedState
  <2>2. proc'[p].pc # "stuck" /\ \A q \in Procs \ {p} : proc'[q] = proc[q]
    BY <1>6 DEF Take, WriteMarker, Deliver, RunRaises, Die, Terminate, Kill, Becomes, Idle, Dead, TypeOK
  <2> QED BY <2>1, <2>2
<1>7. CASE PickUp \/ TimeOut \/ GuardPasses \/ GuardStops \/ Complete \/ Killed \/ PoolBreaks
           \/ \E s \in Seeds : Yield(s) \/ YieldError(s)
  BY <1>4, <1>7 DEF PickUp, TimeOut, GuardPasses, GuardStops, Complete, Killed, PoolBreaks,
                    Yield, YieldError, pool
<1> QED BY <1>1, <1>2, <1>3, <1>4, <1>5, <1>6, <1>7 DEF Next, Parent, Process, vars, pool

LEMMA NextRunning ==
    ASSUME TypeOK, BudgetInv, [Next]_vars
    PROVE  RunningHasProcess'
<1> USE DEF RunningHasProcess, BudgetInv
<1>1. CASE Tick
  BY <1>1, TickAges DEF Tick
<1>2. CASE Join
  BY <1>2, ProcsAssumption DEF Join, Dead
<1>3. CASE PoolBreaks
  BY <1>3 DEF PoolBreaks, OPEN
<1>4. ASSUME NEW p \in Procs, Take(p) PROVE RunningHasProcess'
  <2>1. PICK s \in Seeds :
           /\ fut' = [fut EXCEPT ![s] = "running"]
           /\ proc' = [proc EXCEPT ![p] = [pc |-> "running", seed |-> s, age |-> 0]]
    BY <1>4 DEF Take
  <2>2. proc[p].pc = "idle"
    BY <1>4 DEF Take
  <2>3. /\ proc'[p].pc \in Busy /\ proc'[p].seed = s
        /\ \A q \in Procs \ {p} : proc'[q] = proc[q]
        /\ \A t \in Seeds \ {s} : fut'[t] = fut[t]
    BY <2>1 DEF TypeOK, Busy
  <2> QED BY <2>2, <2>3 DEF Busy
<1>5. ASSUME NEW p \in Procs, WriteMarker(p) \/ GetStuck(p) PROVE RunningHasProcess'
  <2>1. /\ proc'[p].pc \in Busy /\ proc'[p].seed = proc[p].seed /\ fut' = fut
        /\ \A q \in Procs \ {p} : proc'[q] = proc[q]
    BY <1>5 DEF WriteMarker, GetStuck, Becomes, Busy, TypeOK
  <2>2. proc[p].pc # "dead"
    BY <1>5 DEF WriteMarker, GetStuck
  <2> QED BY <2>1, <2>2
<1>6. ASSUME NEW p \in Procs, Deliver(p) \/ RunRaises(p) PROVE RunningHasProcess'
  <2>1. /\ proc[p].pc # "dead" /\ proc[p].seed \in Seeds
        /\ \A q \in Procs \ {p} : proc'[q] = proc[q]
    BY <1>6 DEF Deliver, RunRaises, Busy, TypeOK
  <2>2. ASSUME NEW s \in Seeds, fut'[s] = "running" PROVE fut[s] = "running" /\ s # proc[p].seed
    BY <1>6, <2>1, <2>2 DEF Deliver, RunRaises, Settle, TypeOK
  <2> QED BY <2>1, <2>2
<1>7. ASSUME NEW p \in Procs, Die(p) \/ Terminate(p) \/ Kill(p) PROVE RunningHasProcess'
  BY <1>7 DEF Die, Terminate, Kill, Dead, TypeOK
<1>8. CASE UNCHANGED <<proc, fut>>
  BY <1>8
<1>9. CASE PickUp \/ TimeOut \/ GuardPasses \/ GuardStops \/ Complete \/ Killed
           \/ (\E s \in Seeds : Yield(s) \/ YieldError(s))
           \/ (\E isTimeout \in BOOLEAN : GuardRaises(isTimeout))
  BY <1>8, <1>9 DEF PickUp, TimeOut, GuardPasses, GuardStops, Complete, Killed,
                    Yield, YieldError, GuardRaises, pool
<1> QED BY <1>1, <1>2, <1>3, <1>4, <1>5, <1>6, <1>7, <1>8, <1>9 DEF Next, Parent, Process, vars, pool

LEMMA NextBudget == TypeOK /\ BudgetInv /\ [Next]_vars => BudgetInv'
<1> SUFFICES ASSUME TypeOK, BudgetInv, [Next]_vars PROVE BudgetInv'
  OBVIOUS
<1>1. LastWave' /\ EvenDeal'
  <2>1. CASE Tick
    BY <2>1, TickKeepsTime
  <2>2. CASE \E p \in Procs : Take(p)
    BY <2>2, TakeKeepsTime DEF BudgetInv
  <2>3. CASE ~Tick /\ \A p \in Procs : ~Take(p)
    BY <2>3, OtherStepsAreCalm, CalmKeepsTime DEF BudgetInv
  <2> QED BY <2>1, <2>2, <2>3
<1> QED BY <1>1, NextReasons, NextHeld, NextStuck, NextRunning DEF BudgetInv

\* The wall-clock budget of _map_replicates (timeout_s times the waves) is enough:
\* unless a replicate gets stuck or a completion guard takes time or raises a
\* TimeoutError, no batch ends with the budget's TimeoutError, however many replicates
\* and processes there are, and whichever replicates die or fail.
THEOREM BudgetIsEnough == Spec => []BudgetSuffices
<1>1. BudgetInv => BudgetSuffices
  BY DEF BudgetInv
<1>2. Spec => []BudgetInv
  BY InitBudget, NextBudget, TypeCorrect, PTL DEF Spec
<1> QED BY <1>1, <1>2, PTL

=============================================================================
