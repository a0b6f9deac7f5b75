---------------------------- MODULE CloudPipeline ----------------------------
(***************************************************************************)
(* One launch of the I-24 pipeline on a cloud instance (scripts/gcp): the  *)
(* launcher, the pipeline's stages, archives and exit trap, the idle guard *)
(* on the instance, Compute Engine's run-time limit, and the watcher on    *)
(* the laptop that fetches the archives and deletes the instance.          *)
(*                                                                         *)
(* An archive is what it holds: the stages finished, the exit marker, the  *)
(* run trees (not in a fallback), and whose it is.  A copy that is tried   *)
(* several times is one copy that lands or fails; time is abstracted, so a *)
(* limit may fire whenever the instance runs.  Compute Engine, SSH and the *)
(* metadata server do what the scripts rely on.                            *)
(***************************************************************************)
EXTENDS Naturals

CONSTANTS
    Stages,   \* number of stages the run selects
    None,     \* "no archive"
    Most      \* bounds on the faults, by their names

Faults == {"tars", "listings", "copies", "fetches", "deletes", "stops", "losses"}
Archive == [n : 0..Stages, exit : BOOLEAN, whole : BOOLEAN, own : BOOLEAN]
Maybe == Archive \cup {None}
Objects == {"final", "partial"}
Places == [Objects -> Maybe]

ASSUME StagesAssumption == Stages \in Nat \ {0}
ASSUME NoneAssumption == None \notin Archive
ASSUME MostAssumption == Most \in [Faults -> Nat]

VARIABLES
    launch,    \* what was asked for: self-delete, a bucket
    vm,        \* the instance: "running", "stopped" or "deleted"
    going,     \* what it is going down for: "stop", "delete" or "up"
    off,       \* a power-off is scheduled on it (shutdown -h +m)
    pipe,      \* the pipeline's process: where it is, what is left to do
    arch,      \* what make_archive and the trap have noted
    disk,      \* final.tgz, final_partial.tgz in the pipeline's home
    bucket,    \* the same objects under the bucket prefix
    laptop,    \* the same files fetched by the watcher
    watcher,   \* where the laptop is: the launcher, then the watcher
    used       \* how often each fault has happened

machine == <<vm, going, off>>
process == <<pipe, arch, disk, bucket>>
vars == <<launch, machine, process, laptop, watcher, used>>

-----------------------------------------------------------------------------
Empty == [f \in Objects |-> None]

Spend(fault) == used[fault] < Most[fault] /\ used' = [used EXCEPT ![fault] = @ + 1]

Up == vm = "running"
At(pc) == Up /\ pipe.pc = pc
To(pc) == pipe' = [pipe EXCEPT !.pc = pc]

\* Where the laptop has ended.
Ended == {"over", "failed", "lost"}

Complete(a) == a # None /\ a.own /\ a.exit

\* What tar packs now: the whole file list, or artifacts, scenarios and logs.
Packed(whole) == [n |-> arch.n, exit |-> arch.exit, whole |-> whole, own |-> TRUE]

\* Another launch's archive, left under a reused prefix.
Foreign == [n |-> Stages, exit |-> TRUE, whole |-> TRUE, own |-> FALSE]

-----------------------------------------------------------------------------
(* pipeline_i24.sh: the stages and make_archive.                            *)

Inside == UNCHANGED <<launch, machine, laptop, watcher>>

\* A stage is marked done or fails; make_archive follows either way.
StageEnds ==
    /\ At("stage")
    /\ \E ok \in BOOLEAN :
         /\ pipe' = [pipe EXCEPT !.pc = "tar", !.left = @ - 1, !.ok = ok]
         /\ arch' = IF ok THEN [arch EXCEPT !.n = @ + 1] ELSE arch
    /\ UNCHANGED <<disk, bucket, used>> /\ Inside

\* From the file written to its copy, if there is a bucket.
Written(file, archive, object) ==
    /\ disk' = [disk EXCEPT ![file] = archive]
    /\ arch' = [arch EXCEPT !.fresh = (file = "final"), !.uploaded = FALSE,
                            !.item = archive, !.object = object]
    /\ To(IF launch.bucket THEN "copy" ELSE "packed")
    /\ UNCHANGED bucket

PackAll ==
    /\ At("tar")
    /\ Written("final", Packed(TRUE), "final")
    /\ UNCHANGED used /\ Inside

\* The file list cannot be read, or a SIGTERM killed tar.
TarFails ==
    /\ At("tar") /\ Spend("tars")
    /\ To("fallback")
    /\ UNCHANGED <<arch, disk, bucket>> /\ Inside

FallbackFails ==
    /\ At("fallback") /\ Spend("tars")
    /\ To("packed")
    /\ arch' = [arch EXCEPT !.fresh = FALSE, !.uploaded = FALSE]
    /\ UNCHANGED <<disk, bucket>> /\ Inside

\* Mutant of Beside: the fallback takes the archive's place.
InPlace(archive) == "final"

\* The fallback goes beside a complete archive, never in its place.
Beside(archive) == IF archive = None THEN "final" ELSE "partial"

PackFallback ==
    /\ At("fallback")
    /\ Written(Beside(disk.final), Packed(FALSE), Beside(bucket.final))
    /\ UNCHANGED used /\ Inside

\* `gcloud storage ls` fails: the bucket's archive reads as absent.
PackFallbackUnlisted ==
    /\ At("fallback") /\ launch.bucket /\ Spend("listings")
    /\ Written(Beside(disk.final), Packed(FALSE), "final")
    /\ Inside

\* upload_archive: an object changes only when an upload completes.
CopyLands ==
    /\ At("copy")
    /\ bucket' = [bucket EXCEPT ![arch.object] = arch.item]
    /\ arch' = [arch EXCEPT !.uploaded = (arch.object = "final")]
    /\ To("packed")
    /\ UNCHANGED <<disk, used>> /\ Inside

CopyFails ==
    /\ At("copy") /\ Spend("copies")
    /\ To("packed")
    /\ UNCHANGED <<arch, disk, bucket>> /\ Inside

\* Mutant of NextStage: a stage more than the run selects.
NextStageAnyway ==
    /\ At("packed") /\ pipe.phase = "stages"
    /\ To("stage")
    /\ UNCHANGED <<arch, disk, bucket, used>> /\ Inside

\* `|| exit 1` or `|| true` after a stage that failed.
NextStage ==
    /\ At("packed") /\ pipe.phase = "stages" /\ pipe.left > 0
    /\ To("stage")
    /\ UNCHANGED <<arch, disk, bucket, used>> /\ Inside

-----------------------------------------------------------------------------
(* The exit trap: finish.                                                   *)

\* PIPELINE_EXIT is written before anything is archived.
Finish(term) ==
    /\ pipe' = [pipe EXCEPT !.pc = "tar", !.phase = "light", !.term = term]
    /\ arch' = [arch EXCEPT !.exit = TRUE]

StagesEnd ==
    /\ At("packed") /\ pipe.phase = "stages"
    /\ pipe.left = 0 \/ ~pipe.ok
    /\ Finish(FALSE)
    /\ UNCHANGED <<disk, bucket, used>> /\ Inside

\* Mutant of LightCopy: what stands in $ARCHIVE is copied, whoever wrote it.
LightCopyAnyway == disk.final

\* Only an archive this call wrote is kept for the second upload.
LightCopy == IF arch.fresh THEN disk.final ELSE None

AfterLight ==
    /\ At("packed") /\ pipe.phase = "light"
    /\ arch' = [arch EXCEPT !.light = LightCopy, !.inBucket = arch.uploaded]
    /\ pipe' = IF pipe.term THEN [pipe EXCEPT !.pc = "leave"]
               ELSE [pipe EXCEPT !.pc = "tar", !.phase = "full"]
    /\ UNCHANGED <<disk, bucket, used>> /\ Inside

AfterFull ==
    /\ At("packed") /\ pipe.phase = "full"
    /\ arch.uploaded \/ ~launch.bucket \/ arch.light = None
    /\ arch' = [arch EXCEPT !.inBucket = @ \/ arch.uploaded]
    /\ To("leave")
    /\ UNCHANGED <<disk, bucket, used>> /\ Inside

\* The full archive did not reach the bucket: the light one again.
UploadAgain ==
    /\ At("packed") /\ pipe.phase = "full"
    /\ ~arch.uploaded /\ launch.bucket /\ arch.light # None
    /\ pipe' = [pipe EXCEPT !.pc = "copy", !.phase = "again"]
    /\ arch' = [arch EXCEPT !.item = arch.light, !.object = "final"]
    /\ UNCHANGED <<disk, bucket, used>> /\ Inside

AfterAgain ==
    /\ At("packed") /\ pipe.phase = "again"
    /\ arch' = [arch EXCEPT !.inBucket = @ \/ arch.uploaded]
    /\ To("leave")
    /\ UNCHANGED <<disk, bucket, used>> /\ Inside

-----------------------------------------------------------------------------
(* How an instance goes down.                                               *)

\* SIGTERM: a stage ends in the trap, the trap only notes it, a setup is cut.
Sigterm ==
    IF pipe.phase = "stages" /\ pipe.pc \notin {"setup", "dead"} THEN Finish(TRUE)
    ELSE /\ pipe' = [pipe EXCEPT !.pc = IF @ = "setup" THEN "dead" ELSE @, !.term = TRUE]
         /\ UNCHANGED arch

GoDown(end) ==
    /\ Up /\ going = "up"
    /\ going' = end /\ Sigterm
    /\ UNCHANGED <<launch, vm, off, disk, bucket>>

\* The stop window is over, whatever the trap was at; a deleted disk is gone.
GoesDown ==
    /\ Up /\ going # "up"
    /\ vm' = IF going = "stop" THEN "stopped" ELSE "deleted"
    /\ going' = "up" /\ off' = FALSE
    /\ IF pipe.pc = "left" THEN UNCHANGED pipe ELSE To("dead")
    /\ disk' = IF going = "stop" THEN disk ELSE Empty
    /\ UNCHANGED <<launch, arch, bucket, laptop, watcher, used>>

\* --max-run-duration: its clock runs while the instance does.
CapDeletes == GoDown("delete") /\ UNCHANGED <<laptop, watcher, used>>

\* The boot-time fallback cap, or an operator.
StoppedFromOutside == GoDown("stop") /\ Spend("stops") /\ UNCHANGED <<laptop, watcher>>

PowersOff == off /\ GoDown("stop") /\ UNCHANGED <<laptop, watcher, used>>

\* self_delete, in the trap; a stop under way becomes a delete.
SelfDeletes ==
    /\ At("leave") /\ launch.self
    /\ going' = "delete" /\ To("left")
    /\ UNCHANGED <<launch, vm, off, arch, disk, bucket, laptop, watcher, used>>

\* Mutant of SelfDeleteFails: the machine is powered off instead.
SelfDeleteFailsToPowerOff ==
    /\ At("leave") /\ launch.self /\ Spend("deletes")
    /\ To("left") /\ off' = TRUE
    /\ UNCHANGED <<launch, vm, going, arch, disk, bucket, laptop, watcher>>

\* NOT powering off: the idle guard or the cap deletes it.
SelfDeleteFails ==
    /\ At("leave") /\ launch.self /\ Spend("deletes")
    /\ To("left")
    /\ UNCHANGED <<launch, machine, arch, disk, bucket, laptop, watcher>>

\* Without --self-delete: shutdown -h +3.
TrapPowersOff ==
    /\ At("leave") /\ ~launch.self
    /\ To("left") /\ off' = TRUE
    /\ UNCHANGED <<launch, vm, going, arch, disk, bucket, laptop, watcher, used>>

\* idle_guard.sh: no pipeline runs on an instance past its grace.
Idle == Up /\ going = "up" /\ pipe.pc \in {"dead", "left"}

GuardDeletes ==
    /\ Idle /\ launch.self
    /\ GoDown("delete")
    /\ UNCHANGED <<laptop, watcher, used>>

\* A failed delete is retried at the next check.
GuardDeleteFails ==
    /\ Idle /\ launch.self /\ Spend("deletes")
    /\ UNCHANGED <<launch, machine, process, laptop, watcher>>

\* No delete grant without --self-delete.
GuardPowersOff ==
    /\ Idle /\ ~launch.self
    /\ GoDown("stop")
    /\ UNCHANGED <<laptop, watcher, used>>

-----------------------------------------------------------------------------
(* launch_i24_pipeline.sh and vm_setup.sh.                                  *)

UnitStarts ==
    /\ At("setup") /\ going = "up"
    /\ To("stage")
    /\ UNCHANGED <<launch, machine, arch, disk, bucket, laptop, watcher, used>>

SetupFails ==
    /\ At("setup")
    /\ To("dead")
    /\ UNCHANGED <<launch, machine, arch, disk, bucket, laptop, watcher, used>>

\* The unit is active, or the boot script said so.
Started == pipe.pc # "setup" /\ (pipe.pc = "dead" => pipe.phase # "stages")

\* LAUNCHED=1; the printed watcher is started.
Launched ==
    /\ watcher = "launch" /\ Started
    /\ watcher' = "poll"
    /\ UNCHANGED <<launch, machine, process, laptop, used>>

\* cleanup_on_failure: the setup failed, or no word of its start arrived.
LaunchFails ==
    /\ watcher = "launch"
    /\ watcher' = "cleanup"
    /\ UNCHANGED <<launch, machine, process, laptop, used>>

LaptopLost ==
    /\ watcher \notin Ended /\ Spend("losses")
    /\ watcher' = "lost"
    /\ UNCHANGED <<launch, machine, process, laptop>>

-----------------------------------------------------------------------------
(* watch_pipeline.sh.                                                       *)

Remote == UNCHANGED <<launch, machine, process>>

\* owner_ok: another instance's archive never replaces what was fetched.
Taken(theirs, mine) == IF theirs # None /\ theirs.own THEN theirs ELSE mine
Fetched(from) == [f \in Objects |-> Taken(from[f], laptop[f])]

\* A fetch succeeds, or a time-out or the network cuts it.
Fetches(from) ==
    \/ laptop' = Fetched(from) /\ UNCHANGED used
    \/ UNCHANGED laptop /\ Spend("fetches")

\* The fallback is fetched after the exit marker only.
FetchVm ==
    /\ watcher \in {"poll", "window"} /\ Up
    /\ laptop' = IF watcher = "window" THEN Fetched(disk)
                 ELSE [laptop EXCEPT !.final = Taken(disk.final, @)]
    /\ UNCHANGED <<watcher, used>> /\ Remote

\* The exit marker is there: FETCH_WINDOW spares a self-delete instance.
SeesExit ==
    /\ watcher = "poll" /\ Up /\ arch.exit
    /\ watcher' = "window" /\ off' = (off \/ ~launch.self)
    /\ UNCHANGED <<launch, vm, going, process, laptop, used>>

FetchedFinal ==
    /\ watcher = "window" /\ Complete(laptop.final)
    /\ watcher' = "delete"
    /\ UNCHANGED <<laptop, used>> /\ Remote

\* fetch_final gives up on an instance that has gone, or after its four tries.
FetchGivesUp ==
    /\ watcher = "window" /\ ~Complete(laptop.final)
    /\ watcher' = "delete"
    /\ IF Up THEN Spend("fetches") /\ laptop' = Fetched(bucket) ELSE Fetches(bucket)
    /\ Remote

\* Mutant of SeesGone: an instance no listing showed counts as deleted.
SeesGoneUnlisted ==
    /\ watcher = "poll" /\ vm # "running"
    /\ watcher' = "over" /\ Fetches(bucket)
    /\ Remote

\* Mutant of SeesGone: the archive in the bucket is not fetched.
SeesGoneUnfetched ==
    /\ watcher = "poll" /\ vm = "deleted"
    /\ watcher' = "over"
    /\ UNCHANGED <<laptop, used>> /\ Remote

\* VM_GONE: a listing that succeeded does not show the instance.
SeesGone ==
    /\ watcher = "poll" /\ vm = "deleted"
    /\ watcher' = "over" /\ Fetches(bucket)
    /\ Remote

SeesStopped ==
    /\ watcher = "poll" /\ vm = "stopped"
    /\ Fetches(bucket)
    /\ watcher' = IF Complete(laptop'.final) THEN "delete" ELSE "restart"
    /\ Remote

\* Two vCPUs, a cap of its own set while it is stopped.
Restarts ==
    /\ watcher = "restart" /\ vm = "stopped"
    /\ vm' = "running" /\ watcher' = "refetch"
    /\ UNCHANGED <<launch, going, off, process, laptop, used>>

RestartFails ==
    /\ watcher = "restart" /\ Spend("fetches")
    /\ watcher' = "delete"
    /\ UNCHANGED laptop /\ Remote

Refetch ==
    /\ watcher = "refetch"
    /\ watcher' = "delete"
    /\ IF Up THEN Fetches(disk) ELSE UNCHANGED <<laptop, used>>
    /\ Remote

\* delete_vm, and the launcher's own delete.
Deleting == watcher \in {"delete", "cleanup"}
End == watcher' = IF watcher = "delete" THEN "over" ELSE "failed"

Deletes ==
    /\ Deleting /\ going = "up" /\ GoDown("delete")
    /\ End
    /\ UNCHANGED <<laptop, used>>

\* What is stopping is deleted all the same.
DeletesGoingDown ==
    /\ Deleting /\ Up /\ going # "up"
    /\ going' = "delete" /\ End
    /\ UNCHANGED <<launch, vm, off, process, laptop, used>>

DeletesStopped ==
    /\ Deleting /\ ~Up
    /\ vm' = "deleted" /\ End
    /\ disk' = Empty
    /\ UNCHANGED <<launch, going, off, pipe, arch, bucket, laptop, used>>

DeleteFails ==
    /\ Deleting /\ vm # "deleted" /\ Spend("deletes")
    /\ End
    /\ UNCHANGED laptop /\ Remote

-----------------------------------------------------------------------------
Init ==
    /\ launch \in [self : BOOLEAN, bucket : BOOLEAN]
    /\ launch.self => launch.bucket
    /\ vm = "running" /\ going = "up" /\ off = FALSE
    /\ pipe = [pc |-> "setup", phase |-> "stages", left |-> Stages, ok |-> TRUE,
               term |-> FALSE]
    /\ arch = [n |-> 0, exit |-> FALSE, fresh |-> FALSE, uploaded |-> FALSE,
               item |-> None, object |-> "final", light |-> None, inBucket |-> FALSE]
    /\ disk = Empty
    /\ \E b \in {None, Foreign} :
         /\ b # None => launch.bucket
         /\ bucket = [Empty EXCEPT !.final = b]
    /\ laptop = Empty
    /\ watcher = "launch"
    /\ used = [f \in Faults |-> 0]

Packing == PackAll \/ TarFails \/ FallbackFails \/ PackFallback \/ PackFallbackUnlisted
Copying == CopyLands \/ CopyFails
Trap == AfterLight \/ AfterFull \/ UploadAgain \/ AfterAgain
Leaving == SelfDeletes \/ SelfDeleteFails \/ TrapPowersOff
Pipeline == StageEnds \/ Packing \/ Copying \/ NextStage \/ StagesEnd \/ Trap \/ Leaving
Guard == GuardDeletes \/ GuardDeleteFails \/ GuardPowersOff
Engine == CapDeletes \/ PowersOff \/ GoesDown
Setup == UnitStarts \/ SetupFails
Launcher == Launched \/ LaunchFails
Watches == SeesExit \/ FetchedFinal \/ FetchGivesUp \/ SeesGone \/ SeesStopped
Refetches == Restarts \/ RestartFails \/ Refetch
Ends == Deletes \/ DeletesGoingDown \/ DeletesStopped \/ DeleteFails

Next ==
    \/ Pipeline \/ Guard \/ Engine \/ Setup \/ Launcher
    \/ FetchVm \/ Watches \/ Refetches \/ Ends
    \/ StoppedFromOutside \/ LaptopLost

\* The scripts run while their machine does; Compute Engine's clock fires.
Fairness ==
    /\ WF_vars(Pipeline) /\ WF_vars(Guard) /\ WF_vars(Setup)
    /\ WF_vars(CapDeletes) /\ WF_vars(PowersOff) /\ WF_vars(GoesDown)
    /\ WF_vars(Launcher) /\ WF_vars(FetchVm) /\ WF_vars(Watches)
    /\ WF_vars(Refetches) /\ WF_vars(Ends)

Spec == Init /\ [][Next]_vars /\ Fairness

-----------------------------------------------------------------------------
(* Properties.                                                              *)

Pcs == {"setup", "stage", "tar", "fallback", "copy", "packed", "leave", "left", "dead"}

PipeState == [pc : Pcs, phase : {"stages", "light", "full", "again"}, left : 0..Stages,
              ok : BOOLEAN, term : BOOLEAN]
ArchState == [n : 0..Stages, exit : BOOLEAN, fresh : BOOLEAN, uploaded : BOOLEAN,
              item : Maybe, object : Objects, light : Maybe,
              inBucket : BOOLEAN]

\* Every variable keeps to its domain, and no stage is tried twice: what is done
\* and what is left never exceed the stages selected.
TypeOK ==
    /\ launch \in [self : BOOLEAN, bucket : BOOLEAN]
    /\ vm \in {"running", "stopped", "deleted"}
    /\ going \in {"up", "stop", "delete"} /\ off \in BOOLEAN
    /\ pipe \in PipeState /\ arch \in ArchState
    /\ disk \in Places /\ bucket \in Places /\ laptop \in Places
    /\ watcher \in {"launch", "poll", "window", "restart", "refetch", "delete",
                    "cleanup"} \cup Ended
    /\ used \in [Faults -> Nat]
    /\ arch.n + pipe.left <= Stages
    /\ pipe.pc \in {"setup", "stage"} => pipe.left > 0

\* Nothing of the launch powers a self-delete instance off: it is stopped only
\* when someone outside stopped it (idle_guard.sh, the trap, FETCH_WINDOW).
SelfDeletedNeverStopped == launch.self /\ used.stops = 0 => vm # "stopped"

\* When the trap says this run's archive is in the bucket, the bucket's
\* final.tgz is this launch's and carries the exit marker (finish).
ClaimIsTrue == arch.inBucket => Complete(bucket.final)

\* An archive that stands for no less than another.
NoLess(new, old) ==
    \/ old = None
    \/ new # None /\ ~old.own
    \/ /\ new # None /\ new.own
       /\ new.n >= old.n /\ (old.exit => new.exit) /\ (old.whole => new.whole)

\* While the listing works, the bucket's final.tgz is replaced only by one that
\* holds no less: no fallback over a complete archive, no earlier stage's over
\* a later one (make_archive, finish).
BucketOnlyGains ==
    [][used.listings = 0 => NoLess(bucket'.final, bucket.final)]_vars

\* When the trap ran to its end and its archive is in the bucket, a watcher that
\* ends, and whose fetches worked, has the complete archive (watch_pipeline.sh).
WatcherEndsWithResults ==
    pipe.pc = "left" /\ arch.inBucket /\ watcher = "over" /\ used.fetches = 0
        => Complete(laptop.final)

\* A stopped instance nothing will delete: the two risks the launcher names.
Stranded ==
    /\ vm = "stopped" /\ (~launch.self \/ used.stops > 0)
    /\ watcher = "lost" \/ (watcher \in {"over", "failed"} /\ used.deletes > 0)

\* Every instance ends deleted, or stopped with no laptop left to delete it:
\* without --self-delete, or stopped from outside (launch_i24_pipeline.sh).
AlwaysDeleted == <>(vm = "deleted" \/ Stranded)

\* The laptop's archive never loses a completed stage (watch_pipeline.sh's
\* header: "never the completed stages").
StagesNeverLost ==
    [][laptop.final # None => laptop'.final # None /\ laptop'.final.n >= laptop.final.n]_vars

=============================================================================
