-------------------------- MODULE CorridorOnboarding --------------------------
(***************************************************************************)
(* Onboardings of one corridor name: POST /corridors of main.py, the name  *)
(* lock of Store.create_corridor and corridor_onboarding_job of            *)
(* onboarding_jobs.py, with the three files it installs outside its own    *)
(* directory.  The extract and the preset are also what a name is refused  *)
(* over.                                                                   *)
(*                                                                         *)
(* How a row's job reaches an execution is JobLifecycle's subject; here a  *)
(* job is delivered, dies, and is requeued.                                *)
(***************************************************************************)
EXTENDS Naturals

CONSTANTS
    Jobs,            \* requests for the name, each with its row and RQ job
    Execs,           \* executions of corridor_onboarding_job
    None,            \* no job; no file
    MaxRequeues,   \* bound on `rq requeue`
    MaxFaults      \* bound on the faults together: executions killed, live ones
                   \* declared dead, job timeouts between a rename and its record,
                   \* failures of the write that records "done"

ASSUME NoneAssumption == None \notin Jobs
ASSUME BoundsAssumption ==
    {MaxRequeues, MaxFaults} \subseteq Nat

VARIABLES
    post,      \* the handler of each request: "new", "checked" or "answered"
    row,       \* status of each corridors row ("absent": no such row)
    rq,        \* status of each RQ job
    file,      \* whose bytes are at each shared path
    scenario,  \* jobs whose scenario is stored
    exec,      \* executions
    killed,    \* jobs an execution of which was killed (history)
    used       \* how much of each bound has been spent

vars == <<post, row, rq, file, scenario, exec, killed, used>>

ACTIVE    == {"queued", "running"}
SETTLED   == {"done", "failed"}
CLAIMABLE == {"queued", "failed"}

Locks == {"extract", "preset"}
Files == Locks \cup {"patch"}

Idle == [pc |-> "idle", job |-> None, installed |-> {}, dead |-> FALSE]
Stages == {"check", "extract", "extracted", "network", "build", "demand", "install",
           "renamed", "store", "report"}
Working == Stages \cup {"claim", "cleanup", "fail"}

Faults == used.deaths + used.stalls + used.timeouts + used.storeErrors
Spend(what) == used' = [used EXCEPT ![what] = @ + 1]
Goto(e, pc) == exec' = [exec EXCEPT ![e].pc = pc]
Taken == \E f \in Locks : file[f] # None

-----------------------------------------------------------------------------
(* POST /corridors.                                                         *)

\* The handler looks at both paths before it saves the uploads.
CheckFiles(j) ==
    /\ post[j] = "new"
    /\ post' = [post EXCEPT ![j] = IF Taken THEN "answered" ELSE "checked"]
    /\ UNCHANGED <<row, rq, file, scenario, exec, killed, used>>

\* Mutant of create_corridor: the row is inserted without a look at the others.
create_unchecked(j) ==
    /\ post[j] = "checked"
    /\ post' = [post EXCEPT ![j] = "answered"]
    /\ row' = [row EXCEPT ![j] = "queued"]
    /\ rq' = [rq EXCEPT ![j] = "queued"]
    /\ UNCHANGED <<file, scenario, exec, killed, used>>

\* create_corridor: the look at the active rows and the insert are one immediate
\* transaction; the job is enqueued after it.
create_corridor(j) ==
    /\ post[j] = "checked"
    /\ \A k \in Jobs : row[k] \notin ACTIVE
    /\ post' = [post EXCEPT ![j] = "answered"]
    /\ row' = [row EXCEPT ![j] = "queued"]
    /\ rq' = [rq EXCEPT ![j] = "queued"]
    /\ UNCHANGED <<file, scenario, exec, killed, used>>

CorridorNameTaken(j) ==
    /\ post[j] = "checked"
    /\ \E k \in Jobs : row[k] \in ACTIVE
    /\ post' = [post EXCEPT ![j] = "answered"]
    /\ UNCHANGED <<row, rq, file, scenario, exec, killed, used>>

-----------------------------------------------------------------------------
(* corridor_onboarding_job.                                                 *)

Take(e, j) ==
    /\ exec[e].pc = "idle" /\ rq[j] = "queued"
    /\ rq' = [rq EXCEPT ![j] = "started"]
    /\ exec' = [exec EXCEPT ![e] =
                  [pc |-> "claim", job |-> j, installed |-> {}, dead |-> FALSE]]
    /\ UNCHANGED <<post, row, file, scenario, killed, used>>

\* RQ records the return unless it has given the execution up.
Return(e) ==
    /\ exec' = [exec EXCEPT ![e] = Idle]
    /\ rq' = IF exec[e].dead THEN rq ELSE [rq EXCEPT ![exec[e].job] = "finished"]

Claim(e) ==
    /\ exec[e].pc = "claim" /\ row[exec[e].job] \in CLAIMABLE
    /\ row' = [row EXCEPT ![exec[e].job] = "running"]
    /\ Goto(e, "check")
    /\ UNCHANGED <<post, rq, file, scenario, killed, used>>

ClaimRefused(e) ==
    /\ exec[e].pc = "claim" /\ row[exec[e].job] \notin CLAIMABLE
    /\ Return(e)
    /\ UNCHANGED <<post, row, file, scenario, killed, used>>

\* Mutant of Check: the handler's look is taken for good.
CheckNothing(e) ==
    /\ exec[e].pc = "check"
    /\ Goto(e, "extract")
    /\ UNCHANGED <<post, row, rq, file, scenario, killed, used>>

\* Both paths are looked at again: the handler's look is stale by now.
Check(e) ==
    /\ exec[e].pc = "check"
    /\ Goto(e, IF Taken THEN "cleanup" ELSE "extract")
    /\ UNCHANGED <<post, row, rq, file, scenario, killed, used>>

\* _install_atomic: the job's copy is renamed over whatever is at the path.
Install(e, f) == file' = [file EXCEPT ![f] = exec[e].job]

\* The path is recorded for the clean-up only after the rename.
Record(e, f, pc) ==
    exec' = [exec EXCEPT ![e] = [pc |-> pc, job |-> exec[e].job, dead |-> exec[e].dead,
                                 installed |-> exec[e].installed \cup {f}]]

InstallExtract(e) ==
    /\ exec[e].pc = "extract"
    /\ Install(e, "extract") /\ Goto(e, "extracted")
    /\ UNCHANGED <<post, row, rq, scenario, killed, used>>

RecordExtract(e) ==
    /\ exec[e].pc = "extracted"
    /\ Record(e, "extract", "network")
    /\ UNCHANGED <<post, row, rq, file, scenario, killed, used>>

\* With split fixes asked for, a patch that is not there yet is recorded before
\* the build may write it; without them nothing writes one.
RegisterPatch(e) ==
    /\ exec[e].pc = "network"
    /\ \/ Goto(e, "demand")
       \/ IF file["patch"] = None THEN Record(e, "patch", "build") ELSE Goto(e, "build")
    /\ UNCHANGED <<post, row, rq, file, scenario, killed, used>>

\* corridor_from_bbox writes a patch, over any that is there, if a fix needs one.
Build(e) ==
    /\ exec[e].pc = "build"
    /\ Install(e, "patch") \/ UNCHANGED file
    /\ Goto(e, "demand")
    /\ UNCHANGED <<post, row, rq, scenario, killed, used>>

\* Observations and demand: nothing outside the job's own directory.
Calibrate(e) ==
    /\ exec[e].pc = "demand"
    /\ Goto(e, "install")
    /\ UNCHANGED <<post, row, rq, file, scenario, killed, used>>

InstallPreset(e) ==
    /\ exec[e].pc = "install"
    /\ Install(e, "preset") /\ Goto(e, "renamed")
    /\ UNCHANGED <<post, row, rq, scenario, killed, used>>

RecordPreset(e) ==
    /\ exec[e].pc = "renamed"
    /\ Record(e, "preset", "store")
    /\ UNCHANGED <<post, row, rq, file, scenario, killed, used>>

create_scenario(e) ==
    /\ exec[e].pc = "store"
    /\ scenario' = scenario \cup {exec[e].job}
    /\ Goto(e, "report")
    /\ UNCHANGED <<post, row, rq, file, killed, used>>

\* Mutant of Succeed: the stage is written where the status goes.
SucceedStage(e) ==
    /\ exec[e].pc = "report"
    /\ row' = [row EXCEPT ![exec[e].job] = "install"]
    /\ Return(e)
    /\ UNCHANGED <<post, file, scenario, killed, used>>

Succeed(e) ==
    /\ exec[e].pc = "report"
    /\ row' = [row EXCEPT ![exec[e].job] = "done"]
    /\ Return(e)
    /\ UNCHANGED <<post, file, scenario, killed, used>>

\* A stage raises.
Raise(e) ==
    /\ exec[e].pc \in Stages \ {"extracted", "renamed", "report"}
    /\ Goto(e, "cleanup")
    /\ UNCHANGED <<post, row, rq, file, scenario, killed, used>>

\* RQ's alarm raises JobTimeoutException between a rename and its record.
Timeout(e) ==
    /\ exec[e].pc \in {"extracted", "renamed"} /\ Faults < MaxFaults
    /\ Goto(e, "cleanup")
    /\ Spend("timeouts")
    /\ UNCHANGED <<post, row, rq, file, scenario, killed>>

\* The write of "done" raises, the scenario being stored.
StoreError(e) ==
    /\ exec[e].pc = "report" /\ Faults < MaxFaults
    /\ Goto(e, "cleanup")
    /\ Spend("storeErrors")
    /\ UNCHANGED <<post, row, rq, file, scenario, killed>>

\* Mutant of CleanUp: every path of the name goes.
CleanUpAll(e) ==
    /\ exec[e].pc = "cleanup"
    /\ file' = [f \in Files |-> None]
    /\ Goto(e, "fail")
    /\ UNCHANGED <<post, row, rq, scenario, killed, used>>

\* Mutant of CleanUp: the preset is forgotten.
CleanUpMap(e) ==
    /\ exec[e].pc = "cleanup"
    /\ file' = [f \in Files |-> IF f \in exec[e].installed \ {"preset"} THEN None ELSE file[f]]
    /\ Goto(e, "fail")
    /\ UNCHANGED <<post, row, rq, scenario, killed, used>>

\* The except clause removes what the job recorded as its own ...
CleanUp(e) ==
    /\ exec[e].pc = "cleanup"
    /\ file' = [f \in Files |-> IF f \in exec[e].installed THEN None ELSE file[f]]
    /\ Goto(e, "fail")
    /\ UNCHANGED <<post, row, rq, scenario, killed, used>>

\* Mutant of Fail: the failure is not recorded.
FailSilently(e) ==
    /\ exec[e].pc = "fail"
    /\ Return(e)
    /\ UNCHANGED <<post, row, file, scenario, killed, used>>

\* ... and then records the failure.
Fail(e) ==
    /\ exec[e].pc = "fail"
    /\ row' = [row EXCEPT ![exec[e].job] = "failed"]
    /\ Return(e)
    /\ UNCHANGED <<post, file, scenario, killed, used>>

-----------------------------------------------------------------------------
(* What befalls an execution, and the repairs.                              *)

fail_active(j) == row' = IF row[j] \in ACTIVE THEN [row EXCEPT ![j] = "failed"] ELSE row

\* SIGKILL: no clean-up.
Die(e) ==
    /\ exec[e].pc # "idle" /\ Faults < MaxFaults
    /\ exec' = [exec EXCEPT ![e] = Idle]
    /\ killed' = killed \cup {exec[e].job}
    /\ Spend("deaths")
    /\ UNCHANGED <<post, row, rq, file, scenario>>

\* Horse-death handler or reconciliation: no execution lives, the job is failed.
Reap(j) ==
    /\ rq[j] = "started"
    /\ \A e \in Execs : exec[e].job = j => exec[e].dead
    /\ rq' = [rq EXCEPT ![j] = "failed"]
    /\ fail_active(j)
    /\ UNCHANGED <<post, file, scenario, exec, killed, used>>

\* A live execution misses its heartbeats and is declared dead.
Stall(e) ==
    /\ exec[e].pc # "idle" /\ ~exec[e].dead /\ Faults < MaxFaults
    /\ exec' = [exec EXCEPT ![e].dead = TRUE]
    /\ rq' = [rq EXCEPT ![exec[e].job] = "failed"]
    /\ fail_active(exec[e].job)
    /\ Spend("stalls")
    /\ UNCHANGED <<post, file, scenario, killed>>

Requeue(j) ==
    /\ rq[j] = "failed" /\ used.requeues < MaxRequeues
    /\ rq' = [rq EXCEPT ![j] = "queued"]
    /\ Spend("requeues")
    /\ UNCHANGED <<post, row, file, scenario, exec, killed>>

\* The operator deletes the locks a killed onboarding left, its patch or not.
DeleteLeftovers(j) ==
    /\ j \in killed /\ row[j] = "failed"
    /\ \A k \in Jobs : row[k] \notin ACTIVE
    /\ \E kept \in SUBSET {"patch"} :
         file' = [f \in Files |-> IF file[f] = j /\ f \notin kept THEN None ELSE file[f]]
    /\ UNCHANGED <<post, row, rq, scenario, exec, killed, used>>

-----------------------------------------------------------------------------
Init ==
    /\ post = [j \in Jobs |-> "new"]
    /\ row = [j \in Jobs |-> "absent"]
    /\ rq = [j \in Jobs |-> "missing"]
    /\ file = [f \in Files |-> None]
    /\ scenario = {} /\ killed = {}
    /\ exec = [e \in Execs |-> Idle]
    /\ used = [deaths |-> 0, requeues |-> 0, stalls |-> 0, timeouts |-> 0, storeErrors |-> 0]

Request(j) == CheckFiles(j) \/ create_corridor(j) \/ CorridorNameTaken(j)

ExecStep(e) ==
    \/ Claim(e) \/ ClaimRefused(e) \/ Check(e)
    \/ InstallExtract(e) \/ RecordExtract(e) \/ RegisterPatch(e) \/ Build(e)
    \/ Calibrate(e) \/ InstallPreset(e) \/ RecordPreset(e) \/ create_scenario(e)
    \/ Succeed(e) \/ Raise(e) \/ Timeout(e) \/ StoreError(e) \/ CleanUp(e) \/ Fail(e)

Fault(e) == Die(e) \/ Stall(e)
Operator(j) == Requeue(j) \/ DeleteLeftovers(j)

Next ==
    \/ \E j \in Jobs : Request(j) \/ Operator(j) \/ Reap(j)
    \/ \E e \in Execs, j \in Jobs : Take(e, j)
    \/ \E e \in Execs : ExecStep(e) \/ Fault(e)

Spec == Init /\ [][Next]_vars

Fairness ==
    /\ \A j \in Jobs : WF_vars(\E e \in Execs : Take(e, j)) /\ WF_vars(Reap(j))
    /\ \A e \in Execs : WF_vars(ExecStep(e))

FairSpec == Spec /\ Fairness

-----------------------------------------------------------------------------
(* Properties.                                                              *)

ExecState == [pc : {"idle"} \cup Working, job : Jobs \cup {None},
              installed : SUBSET Files, dead : BOOLEAN]

Usage == [deaths : 0..MaxFaults, requeues : 0..MaxRequeues, stalls : 0..MaxFaults,
          timeouts : 0..MaxFaults, storeErrors : 0..MaxFaults]

\* Every variable keeps to its domain, and a working execution has its job.
TypeOK ==
    /\ post \in [Jobs -> {"new", "checked", "answered"}]
    /\ row \in [Jobs -> ACTIVE \cup SETTLED \cup {"absent"}]
    /\ rq \in [Jobs -> {"missing", "queued", "started", "finished", "failed"}]
    /\ file \in [Files -> Jobs \cup {None}]
    /\ scenario \subseteq Jobs /\ killed \subseteq Jobs
    /\ exec \in [Execs -> ExecState]
    /\ \A e \in Execs : exec[e].pc # "idle" <=> exec[e].job # None
    /\ used \in Usage

\* No execution has been given up alive and no failed job requeued: what the name
\* lock and the clean-up take for granted.
Undisturbed == used.stalls = 0 /\ used.requeues = 0

\* The name lock and the two looks at the files together keep NameRegistry's
\* promise: one onboarding holds the name at a time, and it reports its corridor
\* done only while no other one is (create_corridor, CorridorNameTaken, the job's
\* own look).
Holding == {j \in Jobs : row[j] \in ACTIVE}
Done == {j \in Jobs : row[j] = "done"}
Registry == INSTANCE NameRegistry WITH holding <- Holding, installed <- Done
RegistryKept == Registry!Init /\ [][Undisturbed' => [Registry!Next]_<<Holding, Done>>]_vars

\* A corridor reported done is the one installed: its map and its preset are
\* the bytes at the two paths, and its scenario is stored.
Installed(j) == j \in scenario /\ \A f \in Locks : file[f] = j
AllDoneInstalled == \A j \in Jobs : row[j] = "done" => Installed(j)
DoneIsInstalled == Undisturbed => AllDoneInstalled

\* "A name is free again after a failure": a failed onboarding that was not
\* killed leaves nothing the name would be refused over, if no timeout fell
\* between a rename and its record.
Leaves(j) == \E f \in Locks : file[f] = j
Kept == Undisturbed /\ used.timeouts = 0
FailureFreesTheName ==
    Kept =>
        \A j \in Jobs :
            row[j] = "failed" /\ j \notin killed /\ (\A e \in Execs : exec[e].job # j) => ~Leaves(j)

\* A file goes only with the job that wrote it: the clean-up of one onboarding
\* never removes what another one installed.
OwnFile(f) ==
    \/ file[f] \in killed
    \/ \E e \in Execs : exec[e].job = file[f] /\ exec[e].pc = "cleanup"
OnlyOwnRemoved == \A f \in Files : file[f] # None /\ file'[f] = None => OwnFile(f)
RemovesOnlyItsOwn == [][OnlyOwnRemoved]_vars

\* The same while no execution is given up alive and no job is requeued.
CleanUpKeepsOthers == [][Undisturbed => OnlyOwnRemoved]_vars

\* Every accepted request settles, whatever befalls its executions; as long as
\* no execution is given up alive, no job is requeued and no timeout falls
\* between a rename and its record, the name is then installed, free again, or
\* left to the operator by a kill.
NameSettles ==
    \A j \in Jobs :
        row[j] = "queued" ~>
            \/ row[j] = "done" /\ (Kept => Installed(j))
            \/ row[j] = "failed" /\ (Kept => j \in killed \/ ~Leaves(j))

=============================================================================
