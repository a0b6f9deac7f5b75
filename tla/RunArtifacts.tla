---------------------------- MODULE RunArtifacts ----------------------------
(***************************************************************************)
(* The directory of one run: the replicates its executions write into it,  *)
(* the metrics cache the worker and the API's requests keep beside them,   *)
(* and the report that stages and reads them (packages/api/api: jobs.py,   *)
(* results.py, main.py; microsim/runner.py; macrosim/runner.py).           *)
(*                                                                         *)
(* A replicate is a pure function of its configuration and seed, so a data *)
(* file is either whole or not: what two executions write at one offset is *)
(* the same.  Trajectories and edges are one file here: the first is       *)
(* opened first, the second closed last.                                   *)
(***************************************************************************)
EXTENDS Naturals, FiniteSets

CONSTANTS
    Seeds,        \* the run's seed list
    Execs,        \* executions of the run's job, at most one attempt each
    Requests,     \* GET /runs/{id}/metrics requests, at most one answer each
    Process,      \* the API process whose thread serves a request
    None,         \* "no file", "no replicate"
    MaxDeaths,    \* bound on work horses killed
    MaxStalls,    \* bound on live executions declared dead
    MaxRequeues   \* bound on `rq requeue`, of the run and of the report

Callers == Execs \cup Requests
Pids == Execs \cup {Process[q] : q \in Requests}

ASSUME SeedsAssumption == Seeds \subseteq Nat /\ Seeds # {} /\ IsFiniteSet(Seeds)
ASSUME NoneAssumption == None \notin Callers \cup Seeds \cup (Callers \X Seeds)
ASSUME CallersAssumption == Execs \cap Requests = {}
ASSUME ProcessAssumption == \A q \in Requests : Process[q] \notin Execs
ASSUME FilesAssumption == Execs \cap {"absent", "torn", "whole"} = {}
ASSUME BoundsAssumption == {MaxDeaths, MaxStalls, MaxRequeues} \subseteq Nat

VARIABLES
    tier,     \* "micro" or "macro"
    run,      \* status column of the run's row
    job,      \* status of the run's RQ job
    exec,     \* executions of run_scenario_job
    child,    \* how far an execution's replicate of a seed has come
    data,     \* a seed's data file: whole, or torn by the execution that
              \* truncated it last
    marker,   \* a seed's meta.json
    cache,    \* the file a seed's metrics.json names
    temp,     \* the file a seed's metrics.json.tmp-<pid> names
    filled,   \* cache files whose content is complete
    caller,   \* who is in precompute_run_metrics or in run_metrics, and where
    report,   \* the report's row and its job
    used      \* how much of each bound has been spent

files == <<data, marker>>
caching == <<cache, temp, filled, caller>>
row   == <<run, job, exec>>
vars  == <<tier, row, child, files, caching, report, used>>

-----------------------------------------------------------------------------
CLAIMABLE == {"queued", "failed"}
ACTIVE    == {"queued", "running"}

Away == [pc |-> "idle", todo |-> {}, took |-> {}, at |-> None, node |-> None]

Spend(what) == used' = [used EXCEPT ![what] = @ + 1]
Unspent(what, bound) == used[what] < bound

\* The seeds are taken in the order of their list.
First(s, todo) == s \in todo /\ \A t \in todo : s <= t

\* replicate_dirs: the directories that hold a meta.json.
Marked == {s \in Seeds : marker[s] # "absent"}

\* Both load_meta and the data reader succeed.
Whole(s) == marker[s] = "whole" /\ data[s] = "whole"

pid(x) == IF x \in Execs THEN x ELSE Process[x]

-----------------------------------------------------------------------------
(* run_scenario_job: the row and the RQ job around it, as JobLifecycle has  *)
(* them.                                                                    *)

Working(e) == exec[e].pc \in {"simulate", "cache", "recorded"}
Live(e) == Working(e) /\ ~exec[e].dead
Over(e) == exec' = [exec EXCEPT ![e].pc = "over"]

Start(e) ==
    /\ exec[e].pc = "idle" /\ job = "queued" /\ run \in CLAIMABLE
    /\ run' = "running" /\ job' = "started"
    /\ exec' = [exec EXCEPT ![e].pc = "simulate"]
    /\ UNCHANGED <<tier, child, files, caching, report, used>>

ClaimRefused(e) ==
    /\ exec[e].pc = "idle" /\ job = "queued" /\ run \notin CLAIMABLE
    /\ job' = "finished" /\ Over(e)
    /\ UNCHANGED <<tier, run, child, files, caching, report, used>>

\* set_run_status is unconditional.
Record(e, outcome) ==
    /\ run' = outcome
    /\ exec' = [exec EXCEPT ![e].pc = "recorded"]
    /\ UNCHANGED job

\* RQ records the return of an execution it has not given up.
Return(e) ==
    /\ exec[e].pc = "recorded"
    /\ job' = IF exec[e].dead THEN job ELSE "finished"
    /\ Over(e)
    /\ UNCHANGED <<tier, run, child, files, caching, report, used>>

\* A replicate fails, or an earlier marker has gone: the pool is killed.
SimulationFails(e) ==
    /\ exec[e].pc = "simulate"
    /\ Record(e, "failed")
    /\ UNCHANGED <<tier, child, files, caching, report, used>>

\* The whole process group of the horse is killed.
Die(e) ==
    /\ Working(e) /\ Unspent("deaths", MaxDeaths)
    /\ Over(e) /\ Spend("deaths")
    /\ caller' = [caller EXCEPT ![e] = Away]
    /\ UNCHANGED <<tier, run, job, child, files, cache, temp, filled, report>>

\* A live execution misses its heartbeats: job and row are failed without it.
Stall(e) ==
    /\ Live(e) /\ Unspent("stalls", MaxStalls)
    /\ exec' = [exec EXCEPT ![e].dead = TRUE]
    /\ run' = IF run \in ACTIVE THEN "failed" ELSE run
    /\ job' = "failed" /\ Spend("stalls")
    /\ UNCHANGED <<tier, child, files, caching, report>>

\* The horse-death handler or reconciliation.
Reap ==
    /\ job = "started" /\ \A e \in Execs : ~Live(e)
    /\ job' = "failed" /\ run' = IF run \in ACTIVE THEN "failed" ELSE run
    /\ UNCHANGED <<tier, exec, child, files, caching, report, used>>

Requeue ==
    /\ job = "failed" /\ Unspent("requeues", MaxRequeues)
    /\ job' = "queued" /\ Spend("requeues")
    /\ UNCHANGED <<tier, run, exec, child, files, caching, report>>

-----------------------------------------------------------------------------
(* One replicate: run_micro in a pool child, run_macro in the job itself.   *)

\* Mutant of Child: the pool's children outlive the execution.
ChildLivesOn(e, s, from, to) ==
    /\ exec[e].pc # "idle" /\ child[e][s] = from
    /\ child' = [child EXCEPT ![e][s] = to]
    /\ UNCHANGED <<tier, row, caching, report, used>>

Child(e, s, from, to) ==
    /\ exec[e].pc = "simulate" /\ child[e][s] = from
    /\ child' = [child EXCEPT ![e][s] = to]
    /\ UNCHANGED <<tier, row, caching, report, used>>

\* Mutant of Clear: the old marker stays while its artifacts are rewritten.
ClearNothing(e, s) == tier = "micro" /\ Child(e, s, "todo", "cleared") /\ UNCHANGED files

\* run_micro drops the marker before it touches what it vouches for.
Clear(e, s) ==
    /\ tier = "micro" /\ Child(e, s, "todo", "cleared")
    /\ marker' = [marker EXCEPT ![s] = "absent"]
    /\ UNCHANGED data

\* run_macro takes the seeds one after the other and drops no marker.
Open(e, s) ==
    /\ \/ tier = "micro" /\ Child(e, s, "cleared", "open")
       \/ /\ tier = "macro" /\ First(s, {t \in Seeds : child[e][t] # "marked"})
          /\ Child(e, s, "todo", "open")
    /\ data' = [data EXCEPT ![s] = e]
    /\ UNCHANGED marker

Close(e, s) ==
    /\ Child(e, s, "open", "closed")
    /\ data' = [data EXCEPT ![s] = IF @ = e THEN "whole" ELSE @]
    /\ UNCHANGED marker

\* run_macro writes meta.json in place.
OpenMarker(e, s) ==
    /\ tier = "macro" /\ Child(e, s, "closed", "marking")
    /\ marker' = [marker EXCEPT ![s] = "torn"]
    /\ UNCHANGED data

\* run_micro swaps a temp file in; run_macro closes the file it opened.
Mark(e, s) ==
    /\ Child(e, s, IF tier = "micro" THEN "closed" ELSE "marking", "marked")
    /\ marker' = [marker EXCEPT ![s] = "whole"]
    /\ UNCHANGED data

Replicate(e, s) ==
    Clear(e, s) \/ Open(e, s) \/ Close(e, s) \/ OpenMarker(e, s) \/ Mark(e, s)

-----------------------------------------------------------------------------
(* The metrics cache: precompute_run_metrics by the execution, run_metrics  *)
(* by a request.                                                            *)

\* The file a caller creates under a seed's temp name.
Node(x, s) == <<x, s>>
Nodes == Callers \X Seeds

Goes(x, to) == caller' = [caller EXCEPT ![x] = to]
At(x) == caller[x].at

\* cached_replicate_metrics finds a file it can parse.
Cached(s) == cache[s] # None /\ cache[s] \in filled

\* Mutant of Simulated: the markers are looked for, the replicates not waited for.
MarkersFound(e) == exec[e].pc = "simulate" /\ \A s \in Seeds : marker[s] # "absent"

\* Every replicate has returned; run_replicates looks for every marker.
Simulated(e) ==
    exec[e].pc = "simulate" /\ \A s \in Seeds : child[e][s] = "marked" /\ marker[s] # "absent"

\* Mutant of Asked: the status of the run is not looked at.
AskedAnyway(q) == caller[q].pc = "idle"

\* require_done: only a done run has metrics to ask for.
Asked(q) == run = "done" /\ caller[q].pc = "idle"

\* The directories are listed once.
Listing == [Away EXCEPT !.pc = "next", !.todo = Marked, !.took = Marked]

Precompute(e) ==
    /\ Simulated(e)
    /\ exec' = [exec EXCEPT ![e].pc = "cache"]
    /\ Goes(e, Listing)
    /\ UNCHANGED <<tier, run, job, child, files, cache, temp, filled, report, used>>

Refuse(x) == Goes(x, [Away EXCEPT !.pc = "refused"])

Ask(q) ==
    /\ Asked(q)
    /\ IF Marked = {} THEN Refuse(q) ELSE Goes(q, Listing)
    /\ UNCHANGED <<tier, row, child, files, cache, temp, filled, report, used>>

Outside == <<tier, row, child, files, report, used>>

\* The next replicate of the listing; a request parses its meta.json.
Turn(x, s) == caller[x].pc = "next" /\ First(s, caller[x].todo)
Metadata(x, s) == x \in Requests => marker[s] = "whole"
Served(x) == [caller[x] EXCEPT !.pc = "next", !.todo = @ \ {At(x)}]

Hit(x, s) ==
    /\ Turn(x, s) /\ Metadata(x, s) /\ Cached(s)
    /\ Goes(x, [caller[x] EXCEPT !.todo = @ \ {s}])
    /\ UNCHANGED <<cache, temp, filled, Outside>>

Reduce(x, s) ==
    /\ Turn(x, s) /\ ~Cached(s) /\ Whole(s)
    /\ Goes(x, [caller[x] EXCEPT !.pc = "computed", !.at = s])
    /\ UNCHANGED <<cache, temp, filled, Outside>>

\* meta.json or the data cannot be read.
Unreadable(q, s) ==
    /\ q \in Requests /\ Turn(q, s)
    /\ Metadata(q, s) => ~Cached(s) /\ ~Whole(s)
    /\ Refuse(q)
    /\ UNCHANGED <<cache, temp, filled, Outside>>

\* Mutant of OpenTemp: metrics.json itself is opened.
OpenInPlace(x) ==
    LET s == At(x)
        node == Node(x, s)
    IN  /\ caller[x].pc = "computed"
        /\ temp' = [temp EXCEPT ![s][pid(x)] = node]
        /\ cache' = [cache EXCEPT ![s] = node]
        /\ filled' = filled \ {node}
        /\ Goes(x, [caller[x] EXCEPT !.pc = "filling", !.node = node])
        /\ UNCHANGED Outside

\* _write_metrics_cache: the temp name is opened (a file already there is
\* truncated), written, and swapped in.
OpenTemp(x) ==
    LET s == At(x)
        node == IF temp[s][pid(x)] = None THEN Node(x, s) ELSE temp[s][pid(x)]
    IN  /\ caller[x].pc = "computed"
        /\ temp' = [temp EXCEPT ![s][pid(x)] = node]
        /\ filled' = filled \ {node}
        /\ Goes(x, [caller[x] EXCEPT !.pc = "filling", !.node = node])
        /\ UNCHANGED <<cache, Outside>>

Fill(x) ==
    /\ caller[x].pc = "filling"
    /\ filled' = filled \cup {caller[x].node}
    /\ Goes(x, [caller[x] EXCEPT !.pc = "filled"])
    /\ UNCHANGED <<cache, temp, Outside>>

Swap(x) ==
    LET s == At(x)
    IN  /\ caller[x].pc = "filled" /\ temp[s][pid(x)] # None
        /\ cache' = [cache EXCEPT ![s] = temp[s][pid(x)]]
        /\ temp' = [temp EXCEPT ![s][pid(x)] = None]
        /\ Goes(x, [caller[x] EXCEPT !.pc = "swapped"])
        /\ UNCHANGED <<filled, Outside>>

\* os.replace finds no temp file; FileNotFoundError is the request's 409.
SwapFails(q) ==
    /\ q \in Requests /\ caller[q].pc = "filled" /\ temp[At(q)][pid(q)] = None
    /\ Refuse(q)
    /\ UNCHANGED <<cache, temp, filled, Outside>>

\* finally: tmp.unlink(missing_ok=True).
Unlink(x) ==
    /\ caller[x].pc = "swapped"
    /\ temp' = [temp EXCEPT ![At(x)][pid(x)] = None]
    /\ Goes(x, Served(x))
    /\ UNCHANGED <<cache, filled, Outside>>

Answer(q) ==
    /\ q \in Requests /\ caller[q].pc = "next" /\ caller[q].todo = {}
    /\ Goes(q, [caller[q] EXCEPT !.pc = "answered"])
    /\ UNCHANGED <<cache, temp, filled, Outside>>

Finish(e) ==
    /\ exec[e].pc = "cache" /\ caller[e].pc = "next" /\ caller[e].todo = {}
    /\ Record(e, "done")
    /\ Goes(e, Away)
    /\ UNCHANGED <<tier, child, files, cache, temp, filled, report, used>>

\* The data of a replicate cannot be reduced: the run fails.
PrecomputeFails(e, s) ==
    /\ exec[e].pc = "cache" /\ Turn(e, s) /\ ~Cached(s) /\ ~Whole(s)
    /\ Record(e, "failed")
    /\ Goes(e, Away)
    /\ UNCHANGED <<tier, child, files, cache, temp, filled, report, used>>

CacheStep(x) ==
    \/ \E s \in Seeds : Hit(x, s) \/ Reduce(x, s) \/ Unreadable(x, s)
    \/ OpenTemp(x) \/ Fill(x) \/ Swap(x) \/ SwapFails(x) \/ Unlink(x) \/ Answer(x)

-----------------------------------------------------------------------------
(* report_job over this run.                                                *)

Sets(fields) == report' = fields /\ UNCHANGED <<tier, row, child, files, caching>>

\* Mutant of ReportEnds: the row takes over the status of the job.
ReportEndsAsJob(outcome) ==
    [report EXCEPT !.status = "finished", !.job = "finished", !.pc = "idle"]

ReportEnds(outcome) ==
    [report EXCEPT !.status = outcome, !.job = "finished", !.pc = "idle"]

\* Mutant of ReportStart: the run's status is not looked at.
ReportStartAnyway ==
    /\ report.job = "queued" /\ report.status \in CLAIMABLE
    /\ Sets([report EXCEPT !.status = "running", !.job = "started", !.pc = "clear"])
    /\ UNCHANGED used

\* claim_report, then the row of every run.
ReportStart ==
    /\ report.job = "queued" /\ report.status \in CLAIMABLE
    /\ IF run = "done"
         THEN Sets([report EXCEPT !.status = "running", !.job = "started", !.pc = "clear"])
         ELSE Sets(ReportEnds("failed"))
    /\ UNCHANGED used

\* The staging tree of an earlier attempt is removed; the directories are listed.
ReportClear ==
    /\ report.pc = "clear"
    /\ IF Marked = {}
         THEN Sets([ReportEnds("failed") EXCEPT !.staged = {}])
         ELSE Sets([report EXCEPT !.pc = "stage", !.todo = Marked, !.staged = {}])
    /\ UNCHANGED used

\* _stage_runs links the files that are there: the directory is found again by
\* its meta.json only.
ReportStage(s) ==
    /\ report.pc = "stage" /\ First(s, report.todo)
    /\ LET links == IF marker[s] = "absent" THEN {} ELSE {s}
           todo  == report.todo \ {s}
       IN  Sets([report EXCEPT !.todo = IF todo = {} THEN report.staged \cup links ELSE todo,
                               !.staged = @ \cup links,
                               !.read = {},
                               !.pc = IF todo = {} THEN "read" ELSE "stage"])
    /\ UNCHANGED used

\* generate_report scans the tree; the links are the run's own files, except
\* that run_micro's new meta.json is another file than the linked one.
ReportRead(s) ==
    /\ report.pc = "read" /\ First(s, report.todo)
    /\ IF data[s] = "whole" /\ (tier = "macro" => marker[s] = "whole")
         THEN Sets([report EXCEPT !.todo = @ \ {s}, !.read = @ \cup {s}])
         ELSE Sets(ReportEnds("failed"))
    /\ UNCHANGED used

\* A tree without a directory is refused.
ReportFinish ==
    /\ report.pc = "read" /\ report.todo = {}
    /\ Sets(ReportEnds(IF report.read = {} THEN "failed" ELSE "done"))
    /\ UNCHANGED used

ReportDies ==
    /\ report.pc # "idle" /\ Unspent("deaths", MaxDeaths)
    /\ Sets([report EXCEPT !.status = "failed", !.job = "failed", !.pc = "idle"])
    /\ Spend("deaths")

ReportRequeue ==
    /\ report.job = "failed" /\ Unspent("requeues", MaxRequeues)
    /\ Sets([report EXCEPT !.job = "queued"])
    /\ Spend("requeues")

ReportStep ==
    \/ ReportStart \/ ReportClear \/ ReportFinish
    \/ \E s \in Seeds : ReportStage(s) \/ ReportRead(s)

-----------------------------------------------------------------------------
NoFile == [s \in Seeds |-> None]

\* A run just submitted, and one from before the worker filled the caches (or
\* whose caches carry an earlier schema).
Fresh ==
    /\ run = "queued" /\ job = "queued"
    /\ data = [s \in Seeds |-> "absent"] /\ marker = [s \in Seeds |-> "absent"]
Legacy ==
    /\ run = "done" /\ job = "finished"
    /\ data = [s \in Seeds |-> "whole"] /\ marker = [s \in Seeds |-> "whole"]

Init ==
    /\ tier \in {"micro", "macro"} /\ (Fresh \/ Legacy)
    /\ exec = [e \in Execs |-> [pc |-> "idle", dead |-> FALSE]]
    /\ child = [e \in Execs |-> [s \in Seeds |-> "todo"]]
    /\ cache = NoFile /\ temp = [s \in Seeds |-> [p \in Pids |-> None]] /\ filled = {}
    /\ caller = [x \in Callers |-> Away]
    /\ report = [status |-> "queued", job |-> "queued", pc |-> "idle",
                 todo |-> {}, staged |-> {}, read |-> {}]
    /\ used = [deaths |-> 0, stalls |-> 0, requeues |-> 0]

ExecStep(e) ==
    \/ Start(e) \/ ClaimRefused(e) \/ Precompute(e) \/ Finish(e) \/ Return(e)
    \/ \E s \in Seeds : Replicate(e, s) \/ PrecomputeFails(e, s)
    \/ CacheStep(e)

RequestStep(q) == Ask(q) \/ CacheStep(q)

Next ==
    \/ \E e \in Execs : ExecStep(e) \/ SimulationFails(e) \/ Die(e) \/ Stall(e)
    \/ Reap \/ Requeue
    \/ \E q \in Requests : RequestStep(q)
    \/ ReportStep \/ ReportDies \/ ReportRequeue

Spec == Init /\ [][Next]_vars

-----------------------------------------------------------------------------
ExecState == [pc : {"idle", "simulate", "cache", "recorded", "over"}, dead : BOOLEAN]
ChildState == {"todo", "cleared", "open", "closed", "marking", "marked"}
CallerState == [pc : {"idle", "next", "computed", "filling", "filled", "swapped",
                      "answered", "refused"},
                todo : SUBSET Seeds, took : SUBSET Seeds,
                at : Seeds \cup {None}, node : Nodes \cup {None}]
ReportState == [status : ACTIVE \cup {"done", "failed"},
                job : {"queued", "started", "finished", "failed"},
                pc : {"idle", "clear", "stage", "read"},
                todo : SUBSET Seeds, staged : SUBSET Seeds, read : SUBSET Seeds]

\* Every variable keeps to its domain, and a caller that writes a cache file has a
\* replicate and a file in hand.
TypeOK ==
    /\ tier \in {"micro", "macro"}
    /\ run \in ACTIVE \cup {"done", "failed"}
    /\ job \in {"queued", "started", "finished", "failed"}
    /\ exec \in [Execs -> ExecState]
    /\ child \in [Execs -> [Seeds -> ChildState]]
    /\ data \in [Seeds -> {"absent", "whole"} \cup Execs]
    /\ marker \in [Seeds -> {"absent", "torn", "whole"}]
    /\ cache \in [Seeds -> Nodes \cup {None}]
    /\ temp \in [Seeds -> [Pids -> Nodes \cup {None}]]
    /\ filled \subseteq Nodes
    /\ caller \in [Callers -> CallerState]
    /\ \A x \in Callers :
         /\ caller[x].pc \in {"computed", "filling", "filled", "swapped"} => At(x) \in Seeds
         /\ caller[x].pc \in {"filling", "filled"} => caller[x].node \in Nodes
    /\ report \in ReportState
    /\ used \in [{"deaths", "stalls", "requeues"} -> Nat]

Unstalled == used.stalls = 0

\* The marker of a micro replicate vouches for its artifacts through deaths,
\* failures and re-runs, as long as no execution writes on after it was given up.
MarkerVouches == Unstalled /\ tier = "micro" => \A s \in Marked : Whole(s)

\* The artifacts of a done run are all there, readable, and stay as they are.
DoneIsReadable == Unstalled /\ run = "done" => \A s \in Seeds : Whole(s)
DoneArtifactsStay == [][Unstalled' /\ run = "done" => UNCHANGED files]_vars

\* A request for metrics covers every replicate of the run, whoever else fills
\* the caches meanwhile, and is turned away only beside a thread of its process.
Beside(q) == {r \in Requests \ {q} : Process[r] = Process[q] /\ caller[r].pc # "idle"}
AnswersAreComplete ==
    Unstalled => \A q \in Requests :
        /\ caller[q].pc \notin {"idle", "refused"} => caller[q].took = Seeds
        /\ caller[q].pc = "refused" => Beside(q) # {}

\* Processes may fill one cache together: a file that a reader finds incomplete
\* is in the hands of a thread whose process has two requests at work on it.
TornOnlyBetweenThreads ==
    \A s \in Seeds : cache[s] \notin filled \cup {None} =>
        \E q \in Requests : Beside(q) # {} /\ caller[q].pc = "filling" /\ caller[q].node = cache[s]

\* results.py:337: a reader only ever sees a complete cache file or none.
ReaderSeesWhole == \A s \in Seeds : cache[s] # None => cache[s] \in filled

\* A report that is done has read every replicate of its run.
ReportCoversRun == Unstalled /\ report.status = "done" => report.read = Seeds

=============================================================================
