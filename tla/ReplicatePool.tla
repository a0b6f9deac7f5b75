---------------------------- MODULE ReplicatePool ----------------------------
(***************************************************************************)
(* One batch of replicates: run_replicates and _map_replicates of          *)
(* packages/microsim/microsim/runner.py, in a parent that waits, and the   *)
(* processes of its spawn pool.  Time passes in ticks.                     *)
(*                                                                         *)
(* ProcessPoolExecutor and as_completed are outside the repository and are *)
(* modelled by what the code relies on: submission order, one task at a    *)
(* time in a process, a death that breaks every future not yet finished,   *)
(* and a deadline that is looked at only between two batches of results.   *)
(***************************************************************************)
EXTENDS Naturals, FiniteSets

CONSTANTS
    Seeds,      \* replicate seeds, submitted in increasing order
    Procs,      \* processes of the pool
    Timeout,    \* wall-clock budget of one replicate (timeout_s), in ticks
    MaxDeaths,  \* bound on processes that die by themselves
    MaxStuck,   \* bound on replicates that get stuck
    MaxSlow     \* bound on ticks spent in the completion guard

ASSUME SeedsAssumption == Seeds \subseteq Nat /\ IsFiniteSet(Seeds) /\ Seeds # {}
ASSUME ProcsAssumption == IsFiniteSet(Procs) /\ Procs # {}
ASSUME BoundsAssumption == Timeout \in Nat \ {0} /\ {MaxDeaths, MaxStuck, MaxSlow} \subseteq Nat

VARIABLES
    now,      \* ticks since as_completed was entered
    fut,      \* state of each replicate's future
    proc,     \* what each process of the pool is doing
    marker,   \* replicate directories with their completion marker
    ready,    \* finished futures as_completed has not picked up
    batch,    \* finished futures it is handing over
    results,  \* replicates whose result the parent holds
    parent,   \* where the parent is
    cause,    \* the exception it ends with ("none" so far)
    used      \* how much of each bound has been spent, and guards' TimeoutErrors

pool == <<fut, proc, marker>>
vars == <<now, pool, ready, batch, results, parent, cause, used>>

OPEN == {"pending", "running"}
Idle == [pc |-> "idle", seed |-> 0, age |-> 0]
Dead == [pc |-> "dead", seed |-> 0, age |-> 0]
Busy == {"running", "marked", "stuck"}
Becomes(p, pc) == proc' = [proc EXCEPT ![p] = [pc |-> pc, seed |-> @.seed, age |-> @.age]]
Spend(what) == used' = [used EXCEPT ![what] = @ + 1]
Broken == \E s \in Seeds : fut[s] = "broken"

\* Mutant of Waves: the last, partial wave is not counted.
WavesFloor == IF Cardinality(Seeds) < Cardinality(Procs)
                THEN 1 ELSE Cardinality(Seeds) \div Cardinality(Procs)

\* ceil(len(seeds) / n_procs)
Waves == (Cardinality(Seeds) + Cardinality(Procs) - 1) \div Cardinality(Procs)
Budget == Timeout * Waves

-----------------------------------------------------------------------------
(* The processes: _replicate_worker, one run_micro at a time.               *)

\* The next replicate starts; run_micro drops the directory's marker first.
Take(p) ==
    /\ proc[p].pc = "idle" /\ ~Broken
    /\ \E s \in Seeds :
         /\ fut[s] = "pending"
         /\ \A t \in Seeds : fut[t] = "pending" => s <= t
         /\ fut' = [fut EXCEPT ![s] = "running"]
         /\ proc' = [proc EXCEPT ![p] = [pc |-> "running", seed |-> s, age |-> 0]]
         /\ marker' = marker \ {s}
    /\ UNCHANGED <<now, ready, batch, results, parent, cause, used>>

\* run_micro's last write.
WriteMarker(p) ==
    /\ proc[p].pc = "running"
    /\ Becomes(p, "marked")
    /\ marker' = marker \cup {proc[p].seed}
    /\ UNCHANGED <<now, fut, ready, batch, results, parent, cause, used>>

\* A future is finished unless the pool broke first.
Settle(s, outcome) ==
    IF fut[s] = "running"
      THEN fut' = [fut EXCEPT ![s] = outcome] /\ ready' = ready \cup {s}
      ELSE UNCHANGED <<fut, ready>>

Deliver(p) ==
    /\ proc[p].pc = "marked"
    /\ Settle(proc[p].seed, "done")
    /\ proc' = [proc EXCEPT ![p] = Idle]
    /\ UNCHANGED <<now, marker, batch, results, parent, cause, used>>

\* The replicate raises.
RunRaises(p) ==
    /\ proc[p].pc = "running"
    /\ Settle(proc[p].seed, "raised")
    /\ proc' = [proc EXCEPT ![p] = Idle]
    /\ UNCHANGED <<now, marker, batch, results, parent, cause, used>>

\* The replicate is stuck for good: alive, and never finished.
GetStuck(p) ==
    /\ proc[p].pc = "running" /\ used.stuck < MaxStuck
    /\ Becomes(p, "stuck")
    /\ Spend("stuck")
    /\ UNCHANGED <<now, fut, marker, ready, batch, results, parent, cause>>

\* The process is killed from outside (OOM, operator).
Die(p) ==
    /\ proc[p].pc # "dead" /\ used.deaths < MaxDeaths
    /\ proc' = [proc EXCEPT ![p] = Dead]
    /\ Spend("deaths")
    /\ UNCHANGED <<now, fut, marker, ready, batch, results, parent, cause>>

\* The executor finds a dead process: every open future breaks.
PoolBreaks ==
    /\ \E p \in Procs : proc[p].pc = "dead"
    /\ \E s \in Seeds : fut[s] \in OPEN
    /\ fut' = [s \in Seeds |-> IF fut[s] \in OPEN THEN "broken" ELSE fut[s]]
    /\ ready' = ready \cup {s \in Seeds : fut[s] \in OPEN}
    /\ UNCHANGED <<now, proc, marker, batch, results, parent, cause, used>>

\* It then terminates the other processes, which go on meanwhile.
Terminate(p) ==
    /\ Broken /\ proc[p].pc # "dead"
    /\ proc' = [proc EXCEPT ![p] = Dead]
    /\ UNCHANGED <<now, fut, marker, ready, batch, results, parent, cause, used>>

-----------------------------------------------------------------------------
(* The parent: the loop over as_completed.                                  *)

Raise(why) == parent' = "killing" /\ cause' = why

\* as_completed looks at the clock, then picks up what has finished.
PickUp ==
    /\ parent = "waiting" /\ batch = {} /\ ready # {} /\ now <= Budget
    /\ batch' = ready /\ ready' = {}
    /\ UNCHANGED <<now, pool, results, parent, cause, used>>

\* The deadline is past, whatever has finished since the last look.
TimeOut ==
    /\ parent = "waiting" /\ batch = {} /\ results # Seeds /\ now > Budget
    /\ Raise("timeout")
    /\ UNCHANGED <<now, pool, ready, batch, results, used>>

\* Mutant of Yield: what a future raised is taken for its result.
YieldAny(s) ==
    /\ parent = "waiting" /\ s \in batch
    /\ batch' = batch \ {s}
    /\ results' = results \cup {s}
    /\ parent' = "guard"
    /\ UNCHANGED <<now, pool, ready, cause, used>>

\* A result goes to the completion guard.
Yield(s) ==
    /\ parent = "waiting" /\ s \in batch /\ fut[s] = "done"
    /\ batch' = batch \ {s}
    /\ results' = results \cup {s}
    /\ parent' = "guard"
    /\ UNCHANGED <<now, pool, ready, cause, used>>

\* BrokenProcessPool, or the replicate's own exception.
YieldError(s) ==
    /\ parent = "waiting" /\ s \in batch /\ fut[s] \in {"raised", "broken"}
    /\ batch' = batch \ {s}
    /\ Raise(fut[s])
    /\ UNCHANGED <<now, pool, ready, results, used>>

\* No guard, or the guard lets the batch go on.
GuardPasses ==
    /\ parent = "guard"
    /\ parent' = "waiting"
    /\ UNCHANGED <<now, pool, ready, batch, results, cause, used>>

\* ReplicatesAborted.
GuardStops ==
    /\ parent = "guard"
    /\ Raise("aborted")
    /\ UNCHANGED <<now, pool, ready, batch, results, used>>

\* The guard raises.  It is called inside the try whose clause turns every
\* TimeoutError into the batch's own, one of the guard included.
GuardRaises(isTimeout) ==
    /\ parent = "guard"
    /\ Raise(IF isTimeout THEN "timeout" ELSE "guard")
    /\ IF isTimeout THEN Spend("relabelled") ELSE UNCHANGED used
    /\ UNCHANGED <<now, pool, ready, batch, results>>

\* Mutant of Complete: the loop ends with the last future that was picked up.
CompleteEarly ==
    /\ parent = "waiting" /\ batch = {} /\ results # {}
    /\ parent' = "joining"
    /\ UNCHANGED <<now, pool, ready, batch, results, cause, used>>

\* Every future has been handed over: shutdown(wait=True).
Complete ==
    /\ parent = "waiting" /\ results = Seeds
    /\ parent' = "joining"
    /\ UNCHANGED <<now, pool, ready, batch, results, cause, used>>

\* The processes have nothing left and exit; require_complete_run looks at
\* every directory before the paths are returned.
Join ==
    /\ parent = "joining"
    /\ \A p \in Procs : proc[p].pc \notin Busy
    /\ proc' = [p \in Procs |-> Dead]
    /\ parent' = "ended"
    /\ cause' = IF marker = Seeds THEN cause ELSE "incomplete"
    /\ UNCHANGED <<now, fut, marker, ready, batch, results, used>>

\* Mutant of Kill: a process is asked to stop once it is idle.
KillIdle(p) ==
    /\ parent = "killing" /\ proc[p].pc = "idle"
    /\ proc' = [proc EXCEPT ![p] = Dead]
    /\ UNCHANGED <<now, fut, marker, ready, batch, results, parent, cause, used>>

\* _kill_pool kills one process after another; the others go on meanwhile.
Kill(p) ==
    /\ parent = "killing" /\ proc[p].pc # "dead"
    /\ proc' = [proc EXCEPT ![p] = Dead]
    /\ UNCHANGED <<now, fut, marker, ready, batch, results, parent, cause, used>>

\* Mutant of Killed: the kill stops short of a process that is between tasks.
KilledBusy ==
    /\ parent = "killing" /\ \A p \in Procs : proc[p].pc \notin Busy
    /\ parent' = "ended"
    /\ UNCHANGED <<now, pool, ready, batch, results, cause, used>>

\* shutdown(wait=False, cancel_futures=True), and the exception goes on.
Killed ==
    /\ parent = "killing" /\ \A p \in Procs : proc[p].pc = "dead"
    /\ parent' = "ended"
    /\ UNCHANGED <<now, pool, ready, batch, results, cause, used>>

-----------------------------------------------------------------------------
(* Time.  A tick waits for whatever takes none: a process that finds work, a *)
(* death that is noticed, a parent that has something to do, a replicate    *)
(* that has used its budget and is not stuck.  A slow guard lets it pass.    *)

Urgent ==
    \/ \E p \in Procs : proc[p].pc = "idle" /\ ~Broken /\ \E s \in Seeds : fut[s] = "pending"
    \/ \E p \in Procs : proc[p].pc \in {"running", "marked"} /\ proc[p].age = Timeout
    \/ (\E p \in Procs : proc[p].pc = "dead") /\ \E s \in Seeds : fut[s] \in OPEN
    \/ parent = "waiting" /\ (ready \cup batch # {} \/ results = Seeds)

Tick ==
    /\ parent = "guard" => used.slow < MaxSlow
    /\ parent \in {"waiting", "guard"} /\ now <= Budget /\ ~Urgent
    /\ now' = now + 1
    /\ proc' = [p \in Procs |-> IF proc[p].pc \in {"running", "marked"}
                                  THEN [pc |-> proc[p].pc, seed |-> proc[p].seed, age |-> proc[p].age + 1]
                                  ELSE proc[p]]
    /\ IF parent = "guard" THEN Spend("slow") ELSE UNCHANGED used
    /\ UNCHANGED <<fut, marker, ready, batch, results, parent, cause>>

-----------------------------------------------------------------------------
\* Markers of an earlier attempt may be there.
Init ==
    /\ now = 0
    /\ fut = [s \in Seeds |-> "pending"]
    /\ proc = [p \in Procs |-> Idle]
    /\ marker \in SUBSET Seeds
    /\ ready = {} /\ batch = {} /\ results = {}
    /\ parent = "waiting" /\ cause = "none"
    /\ used = [deaths |-> 0, stuck |-> 0, slow |-> 0, relabelled |-> 0]

Process(p) == Take(p) \/ WriteMarker(p) \/ Deliver(p) \/ RunRaises(p)

Parent ==
    \/ PickUp \/ TimeOut \/ GuardPasses \/ GuardStops \/ Complete \/ Join \/ Killed
    \/ \E s \in Seeds : Yield(s) \/ YieldError(s)
    \/ \E p \in Procs : Kill(p)
    \/ \E isTimeout \in BOOLEAN : GuardRaises(isTimeout)

Next ==
    \/ Parent \/ PoolBreaks \/ Tick
    \/ \E p \in Procs : Process(p) \/ GetStuck(p) \/ Die(p) \/ Terminate(p)

Spec == Init /\ [][Next]_vars

Fairness ==
    /\ WF_vars(Parent) /\ WF_vars(PoolBreaks) /\ WF_vars(Tick)
    /\ \A p \in Procs : WF_vars(Process(p)) /\ WF_vars(Terminate(p))

FairSpec == Spec /\ Fairness

-----------------------------------------------------------------------------
(* Properties.                                                              *)

ProcState == [pc : {"idle", "dead"} \cup Busy, seed : Seeds \cup {0}, age : 0..Timeout]
UsedState == [deaths : 0..MaxDeaths, stuck : 0..MaxStuck, slow : 0..MaxSlow,
              relabelled : Nat]

\* Every variable keeps to its domain, a busy process has its replicate, and only
\* a replicate that ran to its end has a result.
TypeOK ==
    /\ now \in 0..Budget + 1
    /\ fut \in [Seeds -> OPEN \cup {"done", "raised", "broken"}]
    /\ proc \in [Procs -> ProcState]
    /\ \A p \in Procs : proc[p].pc \in Busy => proc[p].seed \in Seeds
    /\ marker \subseteq Seeds /\ ready \subseteq Seeds
    /\ batch \subseteq Seeds /\ results \subseteq Seeds
    /\ \A s \in results : fut[s] = "done"
    /\ parent \in {"waiting", "guard", "joining", "killing", "ended"}
    /\ cause \in {"none", "timeout", "raised", "broken", "aborted", "guard", "incomplete"}
    /\ used \in UsedState

\* What run_replicates returns is the batch: every replicate has run to its end
\* in this call and has its marker, one of an earlier attempt not counting.
ReturnedIsComplete ==
    parent = "ended" /\ cause = "none" => results = Seeds /\ marker = Seeds

\* Every process is gone when the call is over: nothing is written behind the
\* caller's back, however the batch ended.
NothingOutlivesTheCall ==
    [][parent' = "ended" => /\ \A p \in Procs : proc'[p].pc = "dead"
                            /\ parent = "ended" => UNCHANGED marker]_vars

\* The budget only ever ends a batch that has a stuck replicate: replicates that
\* keep to their own budget fit in it however they are dealt to the processes,
\* the last of them on the deadline itself (left out: a completion guard that
\* takes time spends the replicates' budget, and one that raises a TimeoutError is
\* reported as if the budget had run out).
BudgetSuffices ==
    cause = "timeout" => used.stuck > 0 \/ used.slow > 0 \/ used.relabelled > 0

\* The call always ends: stuck replicates, dead processes and broken pools
\* included.
AlwaysEnds == <>(parent = "ended")

=============================================================================
