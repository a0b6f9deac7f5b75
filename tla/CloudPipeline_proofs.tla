------------------------ MODULE CloudPipeline_proofs ------------------------
(***************************************************************************)
(* Theorems about CloudPipeline, for every number of stages and every      *)
(* bound on the faults.                                                    *)
(***************************************************************************)
EXTENDS CloudPipeline, TLAPS

USE StagesAssumption, NoneAssumption, MostAssumption

-----------------------------------------------------------------------------
(* The inductive invariants.                                              *)

\* Why a self-delete instance is never found stopped: no power-off is ever
\* scheduled on it.
NeverPoweredOff ==
    /\ used \in [Faults -> Nat]
    /\ launch.self => off = FALSE /\ (used.stops = 0 => going # "stop" /\ vm # "stopped")

\* Why the trap's claim is true: what it packs, keeps and copies carries the marker,
\* and what it noted as uploaded lies in the bucket.
Claims ==
    /\ pipe.phase = "stages" => ~arch.inBucket
    /\ pipe.phase # "stages" => arch.exit
    /\ arch.light # None => Complete(arch.light)
    /\ pipe.phase # "stages" /\ pipe.pc = "copy" => Complete(arch.item) /\ ~arch.uploaded
    /\ pipe.phase # "stages" /\ pipe.pc = "packed" /\ arch.uploaded => Complete(bucket.final)
    /\ pipe.phase = "light" /\ pipe.pc \in {"copy", "packed"} /\ arch.fresh =>
         Complete(disk.final)
    /\ Up \/ pipe.pc \in {"dead", "left"}

Vouched == Claims /\ ClaimIsTrue

\* Why the bucket only gains: what is copied, or kept to be copied again, holds all that
\* was done, and lacks the run trees only where the bucket has none to lose.
Own(a) == a # None /\ a.own
UpToDate(a) == Own(a) /\ a.n = arch.n /\ a.exit = arch.exit
MayReplace(new, old) == new.whole \/ (Own(old) => ~old.whole)

NothingBehind ==
    /\ pipe.pc \in {"setup", "stage"} => pipe.phase = "stages"
    /\ Own(bucket.final) =>
         disk.final # None /\ bucket.final.n <= arch.n /\ (bucket.final.exit => arch.exit)
    /\ pipe.pc = "copy" =>
         /\ UpToDate(arch.item) /\ disk.final # None
         /\ arch.object = "final" => MayReplace(arch.item, bucket.final)
    /\ pipe.phase = "light" /\ pipe.pc \in {"copy", "packed"} /\ arch.fresh =>
         /\ UpToDate(disk.final) /\ MayReplace(disk.final, bucket.final)
         /\ pipe.pc = "copy" => disk.final = arch.item
    /\ pipe.phase = "full" /\ arch.light # None =>
         /\ UpToDate(arch.light) /\ disk.final # None
         /\ MayReplace(arch.light, bucket.final) \/ (pipe.pc = "packed" /\ arch.uploaded)

Gains == used.listings = 0 /\ pipe.pc \notin {"leave", "left", "dead"} => NothingBehind

\* Why the results come home: a watcher done with fetching has the complete archive, unless
\* a fetch failed or the trap was cut off or made no claim; one that restarts the
\* instance has seen as much.  Only the trap leaves.
NoClaim == used.fetches > 0 \/ pipe.pc = "dead" \/ (pipe.pc = "left" /\ ~arch.inBucket)

Results ==
    /\ pipe.pc \in {"leave", "left"} => pipe.phase # "stages"
    /\ watcher \in {"restart", "refetch"} => NoClaim
    /\ watcher \in {"delete", "over"} => Complete(laptop.final) \/ NoClaim

-----------------------------------------------------------------------------
(* The steps the actions are made of.                                       *)

LEMMA SpendType ==
    ASSUME used \in [Faults -> Nat], NEW fault \in Faults, Spend(fault)
    PROVE  /\ used' \in [Faults -> Nat]
           /\ used'.stops = 0 => used.stops = 0 /\ fault # "stops"
BY DEF Spend, Faults

LEMMA ToMoves ==
    ASSUME pipe \in PipeState, NEW pc \in Pcs, To(pc)
    PROVE  /\ pipe' \in PipeState /\ pipe'.pc = pc
           /\ pipe'.phase = pipe.phase /\ pipe'.left = pipe.left
BY DEF To, PipeState

LEMMA PlacePut ==
    ASSUME NEW place \in Places, NEW object \in Objects, NEW a \in Maybe,
           NEW new, new = [place EXCEPT ![object] = a]
    PROVE  /\ new \in Places /\ new[object] = a
           /\ object # "final" => new.final = place.final
BY DEF Places, Objects

LEMMA EmptyPlace == Empty \in Places /\ Empty.final = None
BY DEF Empty, Places, Objects, Maybe

LEMMA PackedArchive ==
    ASSUME arch \in ArchState, NEW whole \in BOOLEAN
    PROVE  /\ Packed(whole) \in Maybe /\ Packed(whole).own
           /\ Packed(whole).exit = arch.exit /\ Packed(whole) # None
<1>1. Packed(whole) \in Archive /\ Packed(whole).own /\ Packed(whole).exit = arch.exit
  BY DEF Packed, ArchState, Archive
<1> HIDE DEF Packed
<1> QED BY <1>1 DEF Maybe

LEMMA BesideObject == \A a : Beside(a) \in Objects
BY DEF Beside, Objects

\* Written: the file holds the archive, and the copy, if any, is still to come.
LEMMA WrittenMoves ==
    ASSUME pipe \in PipeState, arch \in ArchState, disk \in Places,
           launch.bucket \in BOOLEAN,
           NEW file \in Objects, NEW a \in Maybe, NEW object \in Objects,
           Written(file, a, object)
    PROVE  /\ pipe' \in PipeState /\ pipe'.pc \in {"copy", "packed"}
           /\ pipe'.phase = pipe.phase /\ pipe'.left = pipe.left
           /\ arch' \in ArchState /\ arch'.n = arch.n /\ arch'.exit = arch.exit
           /\ arch'.light = arch.light /\ arch'.inBucket = arch.inBucket
           /\ arch'.item = a /\ arch'.uploaded = FALSE
           /\ disk' \in Places /\ bucket' = bucket
           /\ arch'.fresh => disk'.final = a
<1>1. PICK pc \in {"copy", "packed"} : To(pc)
  BY DEF Written
<1>2. /\ pipe' \in PipeState /\ pipe'.pc \in {"copy", "packed"}
      /\ pipe'.phase = pipe.phase /\ pipe'.left = pipe.left
  BY <1>1, ToMoves DEF Pcs
<1>3. /\ arch' \in ArchState /\ arch'.n = arch.n /\ arch'.exit = arch.exit
      /\ arch'.light = arch.light /\ arch'.inBucket = arch.inBucket
      /\ arch'.item = a /\ arch'.uploaded = FALSE /\ arch'.fresh = (file = "final")
  BY DEF Written, ArchState
<1>4. disk' = [disk EXCEPT ![file] = a]
  BY DEF Written
<1>5. disk' \in Places /\ disk'[file] = a
  BY <1>4 DEF Places
<1> QED BY <1>2, <1>3, <1>5 DEF Written

\* Finish: the trap begins.
LEMMA FinishMoves ==
    ASSUME pipe \in PipeState, arch \in ArchState, NEW term \in BOOLEAN, Finish(term)
    PROVE  /\ pipe' \in PipeState /\ pipe'.pc = "tar" /\ pipe'.phase = "light"
           /\ pipe'.left = pipe.left
           /\ arch' \in ArchState /\ arch'.n = arch.n /\ arch'.exit = TRUE
           /\ arch'.light = arch.light /\ arch'.inBucket = arch.inBucket
<1>1. /\ pipe' \in PipeState /\ pipe'.pc = "tar" /\ pipe'.phase = "light"
      /\ pipe'.left = pipe.left
  BY DEF Finish, PipeState, Pcs
<1>2. /\ arch' \in ArchState /\ arch'.n = arch.n /\ arch'.exit = TRUE
      /\ arch'.light = arch.light /\ arch'.inBucket = arch.inBucket
  BY DEF Finish, ArchState
<1> QED BY <1>1, <1>2

\* SIGTERM: the trap begins, or the process stays in its phase.
LEMMA SigtermMoves ==
    ASSUME pipe \in PipeState, arch \in ArchState, Sigterm
    PROVE  /\ pipe' \in PipeState /\ pipe'.left = pipe.left
           /\ arch' \in ArchState /\ arch'.n = arch.n
           /\ arch'.light = arch.light /\ arch'.inBucket = arch.inBucket
           /\ \/ /\ pipe.phase = "stages" /\ pipe.pc \notin {"setup", "dead"}
                 /\ pipe'.pc = "tar" /\ pipe'.phase = "light" /\ arch'.exit = TRUE
              \/ /\ pipe'.phase = pipe.phase /\ arch' = arch
                 /\ pipe'.pc = IF pipe.pc = "setup" THEN "dead" ELSE pipe.pc
<1>1. CASE pipe.phase = "stages" /\ pipe.pc \notin {"setup", "dead"}
  BY <1>1, FinishMoves DEF Sigterm
<1>2. CASE ~(pipe.phase = "stages" /\ pipe.pc \notin {"setup", "dead"})
  <2>1. arch' = arch
    BY <1>2 DEF Sigterm
  <2>2. /\ pipe' \in PipeState /\ pipe'.left = pipe.left /\ pipe'.phase = pipe.phase
        /\ pipe'.pc = IF pipe.pc = "setup" THEN "dead" ELSE pipe.pc
    BY <1>2 DEF Sigterm, PipeState, Pcs
  <2> QED BY <2>1, <2>2
<1> QED BY <1>1, <1>2

-----------------------------------------------------------------------------
(* A self-delete instance is never powered off by its own launch.           *)

\* Going down for a deletion schedules nothing.
LEMMA DownToDelete ==
    ASSUME NeverPoweredOff, GoDown("delete"), UNCHANGED used
    PROVE  NeverPoweredOff'
BY DEF NeverPoweredOff, GoDown

LEMMA NeverPoweredOffStep ==
    ASSUME NeverPoweredOff, [Next]_vars
    PROVE  NeverPoweredOff'
<1> USE DEF NeverPoweredOff
<1>1. CASE Pipeline
  <2>1. CASE SelfDeletes
    BY <2>1 DEF SelfDeletes
  <2>2. CASE SelfDeleteFails
    BY <2>2, SpendType DEF SelfDeleteFails, machine, Faults
  <2>3. CASE TrapPowersOff
    BY <2>3 DEF TrapPowersOff
  <2>4. CASE StageEnds \/ NextStage \/ StagesEnd \/ Trap
    BY <2>4 DEF StageEnds, NextStage, StagesEnd, Trap, AfterLight, AfterFull, UploadAgain,
               AfterAgain, Inside, machine
  <2>5. CASE Packing \/ Copying
    <3>1. UNCHANGED <<launch, machine>>
      BY <2>5 DEF Packing, PackAll, TarFails, FallbackFails, PackFallback,
         PackFallbackUnlisted, Copying, CopyLands, CopyFails, Inside
    <3>2. UNCHANGED used \/ \E fault \in Faults \ {"stops"} : Spend(fault)
      BY <2>5 DEF Packing, PackAll, TarFails, FallbackFails, PackFallback,
         PackFallbackUnlisted, Copying, CopyLands, CopyFails, Faults
    <3> QED BY <3>1, <3>2, SpendType DEF machine
  <2> QED BY <1>1, <2>1, <2>2, <2>3, <2>4, <2>5 DEF Pipeline, Leaving
<1>2. CASE Guard
  <2>1. CASE GuardDeletes
    BY <2>1, DownToDelete DEF GuardDeletes
  <2>2. CASE GuardDeleteFails
    BY <2>2, SpendType DEF GuardDeleteFails, machine, Faults
  <2>3. CASE GuardPowersOff
    BY <2>3 DEF GuardPowersOff, GoDown
  <2> QED BY <1>2, <2>1, <2>2, <2>3 DEF Guard
<1>3. CASE Engine
  <2>1. CASE CapDeletes
    BY <2>1, DownToDelete DEF CapDeletes
  <2>2. CASE PowersOff
    BY <2>2 DEF PowersOff, GoDown
  <2>3. CASE GoesDown
    BY <2>3 DEF GoesDown
  <2> QED BY <1>3, <2>1, <2>2, <2>3 DEF Engine
<1>4. CASE Setup \/ Launcher \/ FetchVm
  BY <1>4 DEF Setup, UnitStarts, SetupFails, Launcher, Launched, LaunchFails, FetchVm, Remote,
              machine
<1>5. CASE Watches
  <2>1. CASE SeesExit
    BY <2>1 DEF SeesExit
  <2>2. CASE FetchedFinal \/ FetchGivesUp \/ SeesGone \/ SeesStopped
    BY <2>2, SpendType DEF FetchedFinal, FetchGivesUp, SeesGone, SeesStopped, Fetches, Remote,
       machine, Faults
  <2> QED BY <1>5, <2>1, <2>2 DEF Watches
<1>6. CASE Refetches
  BY <1>6, SpendType DEF Refetches, Restarts, RestartFails, Refetch, Fetches, Remote, machine,
     Faults
<1>7. CASE Ends
  <2>1. CASE Deletes
    BY <2>1, DownToDelete DEF Deletes
  <2>2. CASE DeletesGoingDown \/ DeletesStopped
    BY <2>2 DEF DeletesGoingDown, DeletesStopped
  <2>3. CASE DeleteFails
    BY <2>3, SpendType DEF DeleteFails, Remote, machine, Faults
  <2> QED BY <1>7, <2>1, <2>2, <2>3 DEF Ends
<1>8. CASE StoppedFromOutside
  BY <1>8, SpendType DEF StoppedFromOutside, GoDown, Faults
<1>9. CASE LaptopLost
  BY <1>9, SpendType DEF LaptopLost, machine, Faults
<1>10. CASE UNCHANGED vars
  BY <1>10 DEF vars, machine
<1> QED BY <1>1, <1>2, <1>3, <1>4, <1>5, <1>6, <1>7, <1>8, <1>9, <1>10 DEF Next

\* A self-delete instance ends stopped only when someone outside stopped it.
THEOREM SelfDeleteIsKept == Spec => []SelfDeletedNeverStopped
<1>1. Init => NeverPoweredOff
  BY DEF Init, NeverPoweredOff, Faults
<1>2. NeverPoweredOff /\ [Next]_vars => NeverPoweredOff'
  BY NeverPoweredOffStep
<1>3. NeverPoweredOff => SelfDeletedNeverStopped
  BY DEF NeverPoweredOff, SelfDeletedNeverStopped
<1> QED BY <1>1, <1>2, <1>3, PTL DEF Spec

-----------------------------------------------------------------------------
(* Type correctness.                                                        *)

LEMMA InitType == Init => TypeOK
<1> SUFFICES ASSUME Init PROVE TypeOK
  OBVIOUS
<1>1. Foreign \in Maybe /\ None \in Maybe
  BY DEF Foreign, Maybe, Archive
<1>2. bucket \in Places /\ disk \in Places /\ laptop \in Places
  BY <1>1, EmptyPlace DEF Init, Places
<1>3. pipe \in PipeState /\ pipe.left = Stages
  BY DEF Init, PipeState, Pcs
<1>4. arch \in ArchState /\ arch.n = 0
  BY <1>1 DEF Init, ArchState, Objects
<1>5. used \in [Faults -> Nat]
  BY DEF Init
<1>6. arch.n + pipe.left <= Stages /\ pipe.left > 0
  BY <1>3, <1>4
<1>7. /\ launch \in [self : BOOLEAN, bucket : BOOLEAN] /\ vm = "running" /\ going = "up"
      /\ off \in BOOLEAN /\ watcher = "launch"
  BY DEF Init
<1> QED BY <1>2, <1>3, <1>4, <1>5, <1>6, <1>7 DEF TypeOK

\* What the steps of the process keep.
ProcessType ==
    /\ pipe \in PipeState /\ arch \in ArchState
    /\ disk \in Places /\ bucket \in Places
    /\ arch.n + pipe.left <= Stages
    /\ pipe.pc \in {"setup", "stage"} => pipe.left > 0

LEMMA FetchedType ==
    ASSUME laptop \in Places, NEW from \in Places
    PROVE  Fetched(from) \in Places /\ [laptop EXCEPT !.final = Taken(from.final, @)] \in Places
BY DEF Fetched, Taken, Places, Objects

LEMMA PipelineType ==
    ASSUME TypeOK, Pipeline
    PROVE  ProcessType' /\ used' \in [Faults -> Nat]
<1> USE DEF ProcessType
<1>1. /\ pipe \in PipeState /\ arch \in ArchState /\ disk \in Places /\ bucket \in Places
      /\ used \in [Faults -> Nat] /\ launch.bucket \in BOOLEAN
      /\ arch.n \in 0..Stages /\ pipe.left \in 0..Stages /\ arch.n + pipe.left <= Stages
      /\ pipe.pc \in {"setup", "stage"} => pipe.left > 0
  BY DEF TypeOK, PipeState, ArchState
<1>2. ASSUME NEW fault \in Faults, Spend(fault)
      PROVE  used' \in [Faults -> Nat]
  BY <1>1, <1>2, SpendType
<1>3. ASSUME NEW pc \in Pcs \ {"setup", "stage"}, To(pc), UNCHANGED <<arch, disk, bucket>>
      PROVE  ProcessType'
  BY <1>1, <1>3, ToMoves
<1>4. ASSUME NEW file \in Objects, NEW whole \in BOOLEAN, NEW object \in Objects,
             Written(file, Packed(whole), object)
      PROVE  ProcessType'
  BY <1>1, <1>4, WrittenMoves, PackedArchive
<1>5. CASE StageEnds
  <2>1. PICK ok \in BOOLEAN :
          /\ pipe' = [pipe EXCEPT !.pc = "tar", !.left = @ - 1, !.ok = ok]
          /\ arch' = IF ok THEN [arch EXCEPT !.n = @ + 1] ELSE arch
    BY <1>5 DEF StageEnds
  <2>2. pipe.left > 0
    BY <1>1, <1>5 DEF StageEnds, At
  <2>3. pipe' \in PipeState /\ pipe'.left = pipe.left - 1 /\ pipe'.pc = "tar"
    <3> DEFINE rest == pipe.left - 1
    <3>1. rest \in 0..Stages
      BY <1>1, <2>2
    <3>2. pipe' = [pipe EXCEPT !.pc = "tar", !.left = rest, !.ok = ok]
      BY <2>1
    <3> HIDE DEF rest
    <3>3. pipe' \in PipeState /\ pipe'.left = rest /\ pipe'.pc = "tar"
      BY <1>1, <3>1, <3>2 DEF PipeState, Pcs
    <3> QED BY <3>3 DEF rest
  <2>4. arch' \in ArchState /\ arch'.n <= arch.n + 1
    BY <1>1, <2>1, <2>2 DEF ArchState
  <2>5. arch'.n \in Nat
    BY <2>4 DEF ArchState
  <2> QED BY <1>1, <1>5, <2>2, <2>3, <2>4, <2>5 DEF StageEnds
<1>6. CASE Packing
  <2>1. CASE PackAll
    BY <1>1, <1>4, <2>1 DEF PackAll, Objects
  <2>2. CASE TarFails
    BY <1>2, <1>3, <2>2 DEF TarFails, Pcs, Faults
  <2>3. CASE FallbackFails
    <3>1. arch' \in ArchState /\ arch'.n = arch.n
      BY <1>1, <2>3 DEF FallbackFails, ArchState
    <3>2. To("packed") /\ UNCHANGED <<disk, bucket>> /\ Spend("tars")
      BY <2>3 DEF FallbackFails
    <3>3. used' \in [Faults -> Nat]
      BY <1>2, <3>2 DEF Faults
    <3> QED BY <1>1, <3>1, <3>2, <3>3, ToMoves DEF Pcs
  <2>4. CASE PackFallback
    BY <1>1, <1>4, <2>4, BesideObject DEF PackFallback
  <2>5. CASE PackFallbackUnlisted
    BY <1>2, <1>4, <2>5, BesideObject DEF PackFallbackUnlisted, Objects, Faults
  <2> QED BY <1>6, <2>1, <2>2, <2>3, <2>4, <2>5 DEF Packing
<1>7. CASE Copying
  <2>1. CASE CopyLands
    <3>1. arch.object \in Objects /\ arch.item \in Maybe
      BY <1>1 DEF ArchState
    <3>2. bucket' \in Places
      BY <1>1, <2>1, <3>1 DEF CopyLands, Places
    <3>3. arch' \in ArchState /\ arch'.n = arch.n
      BY <1>1, <2>1 DEF CopyLands, ArchState
    <3> QED BY <1>1, <2>1, <3>2, <3>3, ToMoves DEF CopyLands, Pcs
  <2>2. CASE CopyFails
    BY <1>2, <1>3, <2>2 DEF CopyFails, Pcs, Faults
  <2> QED BY <1>7, <2>1, <2>2 DEF Copying
<1>8. CASE NextStage
  BY <1>1, <1>8, ToMoves DEF NextStage, Pcs
<1>9. CASE StagesEnd
  BY <1>1, <1>9, FinishMoves DEF StagesEnd
<1>10. CASE Trap
  <2>1. arch' \in ArchState /\ arch'.n = arch.n
    <3>1. CASE AfterLight
      <4>1. LightCopy \in Maybe
        BY <1>1 DEF LightCopy, Places, Objects, Maybe
      <4> QED BY <1>1, <3>1, <4>1 DEF AfterLight, ArchState
    <3>2. CASE AfterFull \/ AfterAgain
      BY <1>1, <3>2 DEF AfterFull, AfterAgain, ArchState
    <3>3. CASE UploadAgain
      <4>1. arch.light \in Maybe /\ "final" \in Objects
        BY <1>1 DEF ArchState, Objects
      <4>2. arch' = [arch EXCEPT !.item = arch.light, !.object = "final"]
        BY <3>3 DEF UploadAgain
      <4> QED BY <1>1, <4>1, <4>2 DEF ArchState
    <3> QED BY <1>10, <3>1, <3>2, <3>3 DEF Trap
  <2>2. pipe' \in PipeState /\ pipe'.left = pipe.left /\ pipe'.pc \notin {"setup", "stage"}
    <3>1. CASE AfterLight
      <4>1. \/ pipe' = [pipe EXCEPT !.pc = "leave"]
            \/ pipe' = [pipe EXCEPT !.pc = "tar", !.phase = "full"]
        BY <3>1 DEF AfterLight
      <4> QED BY <1>1, <4>1 DEF PipeState, Pcs
    <3>2. CASE AfterFull \/ AfterAgain
      BY <1>1, <3>2, ToMoves DEF AfterFull, AfterAgain, Pcs
    <3>3. CASE UploadAgain
      <4>1. pipe' = [pipe EXCEPT !.pc = "copy", !.phase = "again"]
        BY <3>3 DEF UploadAgain
      <4> QED BY <1>1, <4>1 DEF PipeState, Pcs
    <3> QED BY <1>10, <3>1, <3>2, <3>3 DEF Trap
  <2>3. UNCHANGED <<disk, bucket, used>>
    BY <1>10 DEF Trap, AfterLight, AfterFull, AfterAgain, UploadAgain
  <2> QED BY <1>1, <2>1, <2>2, <2>3
<1>11. CASE Leaving
  BY <1>1, <1>2, <1>3, <1>11 DEF Leaving, SelfDeletes, SelfDeleteFails, TrapPowersOff, Pcs, Faults
<1> QED BY <1>5, <1>6, <1>7, <1>8, <1>9, <1>10, <1>11 DEF Pipeline

\* Whatever takes the instance down leaves its process well-formed.
LEMMA GoDownType ==
    ASSUME TypeOK, NEW end \in {"stop", "delete"}, GoDown(end)
    PROVE  /\ ProcessType' /\ launch' = launch /\ vm' = vm /\ off' = off /\ going' = end
<1>1. pipe \in PipeState /\ arch \in ArchState
  BY DEF TypeOK
<1> QED BY <1>1, SigtermMoves DEF TypeOK, GoDown, ProcessType

\* Where the watcher stands and what the instance is up to.
Watching ==
    /\ vm \in {"running", "stopped", "deleted"}
    /\ going \in {"up", "stop", "delete"} /\ off \in BOOLEAN
    /\ watcher \in {"launch", "poll", "window", "restart", "refetch", "delete",
                    "cleanup"} \cup Ended

\* TypeOK by its parts.
Typed ==
    /\ ProcessType /\ Watching
    /\ laptop \in Places /\ used \in [Faults -> Nat]
    /\ launch \in [self : BOOLEAN, bucket : BOOLEAN]

LEMMA FetchesType ==
    ASSUME TypeOK, NEW from \in Places, Fetches(from)
    PROVE  laptop' \in Places /\ used' \in [Faults -> Nat]
BY FetchedType, SpendType DEF Fetches, TypeOK, Faults

LEMMA TypeStep ==
    ASSUME TypeOK, [Next]_vars
    PROVE  TypeOK'
<1> USE DEF Ended
<1> SUFFICES Typed'
  BY DEF Typed, TypeOK, ProcessType, Watching
<1>0. /\ ProcessType /\ Watching /\ laptop \in Places /\ disk \in Places /\ bucket \in Places
      /\ used \in [Faults -> Nat] /\ launch \in [self : BOOLEAN, bucket : BOOLEAN]
  BY DEF TypeOK, ProcessType, Watching
<1>a. launch' = launch
  BY DEF Next, vars, Pipeline, StageEnds, Packing, PackAll, TarFails, FallbackFails, PackFallback,
     PackFallbackUnlisted, Copying, CopyLands, CopyFails, NextStage, StagesEnd, Trap, AfterLight,
     AfterFull, UploadAgain, AfterAgain, Leaving, SelfDeletes, SelfDeleteFails, TrapPowersOff,
     Inside, Guard, GuardDeletes, GuardDeleteFails, GuardPowersOff, GoDown, Engine, CapDeletes,
     PowersOff, GoesDown, Setup, UnitStarts, SetupFails, Launcher, Launched, LaunchFails, FetchVm,
     Remote, Watches, SeesExit, FetchedFinal, FetchGivesUp, SeesGone, SeesStopped, Refetches,
     Restarts, RestartFails, Refetch, Ends, Deletes, DeletesGoingDown, DeletesStopped,
     DeleteFails, StoppedFromOutside, LaptopLost
<1>b. ASSUME UNCHANGED process
      PROVE  ProcessType'
  BY <1>0, <1>b DEF ProcessType, process
<1>c. ASSUME UNCHANGED <<machine, watcher>>
      PROVE  Watching'
  BY <1>0, <1>c DEF Watching, machine
<1>1. CASE Pipeline
  <2>1. ProcessType' /\ used' \in [Faults -> Nat]
    BY <1>1, PipelineType
  <2>2. laptop' = laptop /\ watcher' = watcher
    BY <1>1 DEF Pipeline, StageEnds, Packing, PackAll, TarFails, FallbackFails, PackFallback,
       PackFallbackUnlisted, Copying, CopyLands, CopyFails, NextStage, StagesEnd, Trap, AfterLight,
       AfterFull, UploadAgain, AfterAgain, Leaving, SelfDeletes, SelfDeleteFails, TrapPowersOff,
       Inside
  <2>3. CASE Leaving
    <3>1. Watching'
      BY <1>0, <2>2, <2>3 DEF Watching, Leaving, SelfDeletes, SelfDeleteFails, TrapPowersOff, machine
    <3> QED BY <1>0, <1>a, <2>1, <2>2, <3>1 DEF Typed
  <2>4. CASE Packing \/ Copying \/ Trap
    <3>1. UNCHANGED machine
      BY <2>4 DEF Packing, PackAll, TarFails, FallbackFails, PackFallback, PackFallbackUnlisted,
         Copying, CopyLands, CopyFails, Trap, AfterLight, AfterFull, UploadAgain, AfterAgain, Inside
    <3> QED BY <1>0, <1>a, <1>c, <2>1, <2>2, <3>1 DEF Typed
  <2>5. CASE StageEnds \/ NextStage \/ StagesEnd
    <3>1. UNCHANGED machine
      BY <2>5 DEF StageEnds, NextStage, StagesEnd, Inside
    <3> QED BY <1>0, <1>a, <1>c, <2>1, <2>2, <3>1 DEF Typed
  <2> QED BY <1>1, <2>3, <2>4, <2>5 DEF Pipeline
<1>2. CASE Guard
  <2>1. CASE GuardDeletes \/ GuardPowersOff
    <3>1. PICK end \in {"stop", "delete"} : GoDown(end)
      BY <2>1 DEF GuardDeletes, GuardPowersOff
    <3> QED BY <1>0, <2>1, <3>1, GoDownType DEF Typed, GuardDeletes, GuardPowersOff, Watching
  <2>2. CASE GuardDeleteFails
    BY <1>0, <1>a, <1>b, <1>c, <2>2, SpendType DEF Typed, GuardDeleteFails, Faults
  <2> QED BY <1>2, <2>1, <2>2 DEF Guard
<1>3. CASE Engine
  <2>1. CASE CapDeletes \/ PowersOff
    <3>1. PICK end \in {"stop", "delete"} : GoDown(end)
      BY <2>1 DEF CapDeletes, PowersOff
    <3> QED BY <1>0, <2>1, <3>1, GoDownType DEF Typed, CapDeletes, PowersOff, Watching
  <2>2. CASE GoesDown
    <3>1. disk' \in Places /\ UNCHANGED <<arch, bucket>>
      BY <1>0, <2>2, EmptyPlace DEF GoesDown
    <3>2. pipe' = pipe \/ To("dead")
      BY <2>2 DEF GoesDown
    <3>3. ProcessType'
      BY <1>0, <3>1, <3>2, ToMoves DEF ProcessType, Pcs
    <3> QED BY <1>0, <2>2, <3>3 DEF Typed, GoesDown, Watching
  <2> QED BY <1>3, <2>1, <2>2 DEF Engine
<1>4. CASE Setup
  <2>1. PICK pc \in {"stage", "dead"} : To(pc) /\ pipe.pc = "setup"
    BY <1>4 DEF Setup, UnitStarts, SetupFails, At
  <2>2. UNCHANGED <<arch, disk, bucket, machine, watcher, laptop, used>>
    BY <1>4 DEF Setup, UnitStarts, SetupFails
  <2>3. ProcessType'
    BY <1>0, <2>1, <2>2, ToMoves DEF ProcessType, Pcs
  <2> QED BY <1>0, <1>a, <1>c, <2>2, <2>3 DEF Typed
<1>5. CASE Launcher
  BY <1>0, <1>a, <1>b, <1>5 DEF Typed, Launcher, Launched, LaunchFails, Watching, machine
<1>6. CASE FetchVm
  BY <1>0, <1>a, <1>b, <1>c, <1>6, FetchedType DEF Typed, FetchVm, Remote
<1>7. CASE Watches
  <2>1. CASE SeesExit
    BY <1>0, <1>a, <1>b, <2>1 DEF Typed, SeesExit, Watching
  <2>2. CASE FetchedFinal
    BY <1>0, <1>a, <1>b, <2>2 DEF Typed, FetchedFinal, Remote, Watching, machine
  <2>3. CASE FetchGivesUp \/ SeesGone \/ SeesStopped
    <3>1. laptop' \in Places /\ used' \in [Faults -> Nat]
      BY <1>0, <2>3, FetchesType, FetchedType, SpendType DEF FetchGivesUp, SeesGone, SeesStopped,
         Faults
    <3>2. Watching' /\ UNCHANGED process
      BY <1>0, <2>3 DEF FetchGivesUp, SeesGone, SeesStopped, Remote, Watching, machine
    <3> QED BY <1>0, <1>a, <1>b, <3>1, <3>2 DEF Typed
  <2> QED BY <1>7, <2>1, <2>2, <2>3 DEF Watches
<1>8. CASE Refetches
  <2>1. laptop' \in Places /\ used' \in [Faults -> Nat]
    BY <1>0, <1>8, FetchesType, SpendType DEF Refetches, Restarts, RestartFails, Refetch, Faults
  <2>2. Watching' /\ UNCHANGED process
    BY <1>0, <1>8 DEF Refetches, Restarts, RestartFails, Refetch, Remote, Watching, machine
  <2> QED BY <1>0, <1>a, <1>b, <2>1, <2>2 DEF Typed
<1>9. CASE Ends
  <2>1. watcher' \in Ended
    BY <1>9 DEF Ends, Deletes, DeletesGoingDown, DeletesStopped, DeleteFails, End
  <2>2. CASE Deletes
    BY <1>0, <2>1, <2>2, GoDownType DEF Typed, Deletes, Watching
  <2>3. CASE DeletesGoingDown
    BY <1>0, <1>a, <1>b, <2>1, <2>3 DEF Typed, DeletesGoingDown, Watching
  <2>4. CASE DeletesStopped
    <3>1. ProcessType'
      BY <1>0, <2>4, EmptyPlace DEF DeletesStopped, ProcessType
    <3> QED BY <1>0, <2>1, <2>4, <3>1 DEF Typed, DeletesStopped, Watching
  <2>5. CASE DeleteFails
    BY <1>0, <1>a, <1>b, <2>1, <2>5, SpendType DEF Typed, DeleteFails, Remote, Watching, machine,
       Faults
  <2> QED BY <1>9, <2>2, <2>3, <2>4, <2>5 DEF Ends
<1>10. CASE StoppedFromOutside
  BY <1>0, <1>10, GoDownType, SpendType DEF Typed, StoppedFromOutside, Watching, Faults
<1>11. CASE LaptopLost
  BY <1>0, <1>a, <1>b, <1>11, SpendType DEF Typed, LaptopLost, Watching, machine, Faults
<1>12. CASE UNCHANGED vars
  BY <1>0, <1>a, <1>b, <1>c, <1>12 DEF Typed, vars
<1> QED BY <1>1, <1>2, <1>3, <1>4, <1>5, <1>6, <1>7, <1>8, <1>9, <1>10, <1>11, <1>12 DEF Next

\* Every variable keeps to its domain, and no stage is tried twice.
THEOREM TypeCorrect == Spec => []TypeOK
<1>1. TypeOK /\ [Next]_vars => TypeOK'
  BY TypeStep
<1> QED BY <1>1, InitType, PTL DEF Spec

-----------------------------------------------------------------------------
(* What the trap claims of the bucket is true.                              *)

LEMMA PackedComplete ==
    ASSUME arch \in ArchState, NEW whole \in BOOLEAN, arch.exit
    PROVE  Complete(Packed(whole))
BY PackedArchive DEF Complete

\* Away from copies, only the notes that stay and the bucket matter.
LEMMA QuietStep ==
    ASSUME Vouched, UNCHANGED bucket,
           arch'.light = arch.light, arch'.inBucket = arch.inBucket,
           pipe'.pc \notin {"copy", "packed"},
           pipe'.phase = "stages" => pipe.phase = "stages",
           pipe'.phase # "stages" => arch'.exit,
           vm' = "running" \/ pipe'.pc \in {"dead", "left"}
    PROVE  Vouched'
<1> USE DEF Vouched, Claims, ClaimIsTrue, Up
<1>1. (arch.light # None => Complete(arch.light))'
  BY DEF Complete
<1>2. (arch.inBucket => Complete(bucket.final))'
  BY DEF Complete
<1> HIDE DEF Complete
<1> QED BY <1>1, <1>2

\* What does not touch the process keeps it, while the instance runs or is up again.
LEMMA OutsideStep ==
    ASSUME Vouched, UNCHANGED <<pipe, arch, bucket>>,
           vm' \in {vm, "running"},
           disk' = disk \/ ~Up
    PROVE  Vouched'
BY DEF Vouched, Claims, ClaimIsTrue, Up, Complete

\* Packing in the trap: the marker was written first.
LEMMA WrittenVouched ==
    ASSUME TypeOK, Vouched, UNCHANGED vm,
           NEW file \in Objects, NEW whole \in BOOLEAN, NEW object \in Objects,
           Up, Written(file, Packed(whole), object)
    PROVE  Vouched'
<1> DEFINE a == Packed(whole)
<1>1. /\ pipe \in PipeState /\ arch \in ArchState /\ disk \in Places
      /\ launch.bucket \in BOOLEAN /\ a \in Maybe
  BY PackedArchive DEF TypeOK
<1>2. pipe.phase # "stages" => Complete(a)
  BY <1>1, PackedComplete DEF Vouched, Claims
<1> HIDE DEF a
<1>3. /\ pipe'.phase = pipe.phase /\ pipe'.pc \in {"copy", "packed"}
      /\ arch'.exit = arch.exit /\ arch'.light = arch.light /\ arch'.inBucket = arch.inBucket
      /\ arch'.item = a /\ arch'.uploaded = FALSE /\ bucket' = bucket
      /\ arch'.fresh => disk'.final = a
  BY <1>1, WrittenMoves DEF a
<1>4. Complete(arch.light)' <=> Complete(arch.light)
  BY <1>3 DEF Complete
<1>5. Complete(bucket.final)' <=> Complete(bucket.final)
  BY <1>3 DEF Complete
<1>6. Complete(arch.item)' <=> Complete(a)
  BY <1>3 DEF Complete
<1>7. arch'.fresh => (Complete(disk.final)' <=> Complete(a))
  BY <1>3 DEF Complete
<1> QED BY <1>2, <1>3, <1>4, <1>5, <1>6, <1>7 DEF Vouched, Claims, ClaimIsTrue, Up

LEMMA PipelineVouched ==
    ASSUME TypeOK, Vouched, Pipeline
    PROVE  Vouched'
<1>1. /\ pipe \in PipeState /\ arch \in ArchState /\ disk \in Places /\ bucket \in Places
      /\ arch.item \in Maybe /\ arch.object \in Objects
      /\ pipe.phase # "stages" => arch.exit
  BY DEF TypeOK, ArchState, Vouched, Claims
<1>2. Up /\ vm' = vm
  BY DEF Pipeline, StageEnds, Packing, PackAll, TarFails, FallbackFails, PackFallback,
     PackFallbackUnlisted, Copying, CopyLands, CopyFails, NextStage, StagesEnd, Trap, AfterLight,
     AfterFull, UploadAgain, AfterAgain, Leaving, SelfDeletes, SelfDeleteFails, TrapPowersOff,
     Inside, machine, At
<1>3. ASSUME NEW pc \in Pcs \ {"copy", "packed"}, To(pc), UNCHANGED <<arch, bucket>>
      PROVE  Vouched'
  BY <1>1, <1>2, <1>3, ToMoves, QuietStep DEF Up
<1>4. CASE StageEnds
  <2>1. /\ arch'.light = arch.light /\ arch'.inBucket = arch.inBucket /\ arch'.exit = arch.exit
        /\ pipe'.phase = pipe.phase /\ pipe'.pc = "tar" /\ UNCHANGED bucket
    BY <1>1, <1>4 DEF StageEnds, ArchState, PipeState
  <2> QED BY <1>1, <1>2, <2>1, QuietStep DEF Up
<1>5. CASE PackAll \/ PackFallback \/ PackFallbackUnlisted
  <2>1. PICK file \in Objects, whole \in BOOLEAN, object \in Objects :
          Written(file, Packed(whole), object)
    <3>1. CASE PackAll
      BY <3>1 DEF PackAll, Objects
    <3>2. CASE PackFallback
      BY <3>2, BesideObject DEF PackFallback
    <3>3. CASE PackFallbackUnlisted
      BY <3>3, BesideObject DEF PackFallbackUnlisted, Objects
    <3> QED BY <1>5, <3>1, <3>2, <3>3
  <2> QED BY <1>2, <2>1, WrittenVouched
<1>6. CASE TarFails
  BY <1>3, <1>6 DEF TarFails, Pcs
<1>7. CASE FallbackFails
  <2>1. /\ arch'.light = arch.light /\ arch'.inBucket = arch.inBucket /\ arch'.exit = arch.exit
        /\ arch'.uploaded = FALSE /\ arch'.fresh = FALSE /\ UNCHANGED bucket
    BY <1>1, <1>7 DEF FallbackFails, ArchState
  <2>2. pipe'.phase = pipe.phase /\ pipe'.pc = "packed"
    BY <1>1, <1>7, ToMoves DEF FallbackFails, Pcs
  <2>3. Complete(arch.light)' <=> Complete(arch.light)
    BY <2>1 DEF Complete
  <2>4. Complete(bucket.final)' <=> Complete(bucket.final)
    BY <2>1 DEF Complete
  <2> QED BY <1>2, <2>1, <2>2, <2>3, <2>4 DEF Vouched, Claims, ClaimIsTrue, Up
<1>8. CASE CopyLands
  <2>1. /\ arch'.light = arch.light /\ arch'.inBucket = arch.inBucket /\ arch'.exit = arch.exit
        /\ arch'.uploaded = (arch.object = "final") /\ arch'.fresh = arch.fresh
    BY <1>1, <1>8 DEF CopyLands, ArchState
  <2>2. pipe'.phase = pipe.phase /\ pipe'.pc = "packed" /\ pipe.pc = "copy"
    BY <1>1, <1>8, ToMoves DEF CopyLands, Pcs, At
  <2>3. /\ arch.object = "final" => bucket'.final = arch.item
        /\ arch.object # "final" => bucket'.final = bucket.final
        /\ disk' = disk
    BY <1>1, <1>8 DEF CopyLands, Places
  <2>4. Complete(arch.light)' <=> Complete(arch.light)
    BY <2>1 DEF Complete
  <2>5. /\ arch.object = "final" => (Complete(bucket.final)' <=> Complete(arch.item))
        /\ arch.object # "final" => (Complete(bucket.final)' <=> Complete(bucket.final))
    BY <2>3 DEF Complete
  <2>6. Complete(disk.final)' <=> Complete(disk.final)
    BY <2>3 DEF Complete
  <2> QED BY <1>2, <2>1, <2>2, <2>4, <2>5, <2>6 DEF Vouched, Claims, ClaimIsTrue, Up
<1>9. CASE CopyFails
  <2>1. UNCHANGED <<arch, disk, bucket>> /\ pipe.pc = "copy"
    BY <1>9 DEF CopyFails, At
  <2>2. pipe'.phase = pipe.phase /\ pipe'.pc = "packed"
    BY <1>1, <1>9, ToMoves DEF CopyFails, Pcs
  <2> QED BY <1>2, <2>1, <2>2 DEF Vouched, Claims, ClaimIsTrue, Up, Complete
<1>10. CASE NextStage
  BY <1>3, <1>10 DEF NextStage, Pcs
<1>11. CASE StagesEnd
  BY <1>1, <1>2, <1>11, FinishMoves, QuietStep DEF StagesEnd, Up
<1>12. CASE AfterLight
  <2>1. /\ arch' = [arch EXCEPT !.light = LightCopy, !.inBucket = arch.uploaded]
        /\ pipe.phase = "light" /\ pipe.pc = "packed" /\ UNCHANGED bucket
    BY <1>12 DEF AfterLight, At
  <2>2. arch'.light = LightCopy /\ arch'.inBucket = arch.uploaded /\ arch'.exit = arch.exit
    BY <1>1, <2>1 DEF ArchState
  <2>3. pipe'.pc \in {"leave", "tar"} /\ pipe'.phase # "stages"
    <3>1. \/ pipe' = [pipe EXCEPT !.pc = "leave"]
          \/ pipe' = [pipe EXCEPT !.pc = "tar", !.phase = "full"]
      BY <1>12 DEF AfterLight
    <3> QED BY <1>1, <2>1, <3>1 DEF PipeState
  <2>4. LightCopy # None => arch.fresh /\ LightCopy = disk.final
    BY DEF LightCopy
  <2>5. Complete(arch.light)' <=> Complete(LightCopy)
    BY <2>2 DEF Complete
  <2>6. Complete(bucket.final)' <=> Complete(bucket.final)
    BY <2>1 DEF Complete
  <2>7. LightCopy # None => Complete(LightCopy)
    BY <2>1, <2>4 DEF Vouched, Claims
  <2>8. arch.uploaded => Complete(bucket.final)
    BY <2>1 DEF Vouched, Claims
  <2> QED BY <1>1, <1>2, <2>1, <2>2, <2>3, <2>5, <2>6, <2>7, <2>8 DEF Vouched, Claims, ClaimIsTrue,
             Up
<1>13. CASE AfterFull \/ AfterAgain
  <2>1. /\ arch' = [arch EXCEPT !.inBucket = @ \/ arch.uploaded] /\ UNCHANGED bucket
        /\ pipe.phase # "stages" /\ pipe.pc = "packed" /\ To("leave")
    BY <1>13 DEF AfterFull, AfterAgain, At
  <2>2. /\ arch'.light = arch.light /\ arch'.exit = arch.exit
        /\ arch'.inBucket => arch.inBucket \/ arch.uploaded
    BY <1>1, <2>1 DEF ArchState
  <2>3. pipe'.pc = "leave" /\ pipe'.phase = pipe.phase
    BY <1>1, <2>1, ToMoves DEF Pcs
  <2>4. Complete(arch.light)' <=> Complete(arch.light)
    BY <2>2 DEF Complete
  <2>5. Complete(bucket.final)' <=> Complete(bucket.final)
    BY <2>1 DEF Complete
  <2> QED BY <1>1, <1>2, <2>1, <2>2, <2>3, <2>4, <2>5 DEF Vouched, Claims, ClaimIsTrue, Up
<1>14. CASE UploadAgain
  <2>1. /\ arch' = [arch EXCEPT !.item = arch.light, !.object = "final"] /\ UNCHANGED bucket
        /\ pipe' = [pipe EXCEPT !.pc = "copy", !.phase = "again"]
        /\ ~arch.uploaded /\ arch.light # None /\ pipe.phase = "full"
    BY <1>14 DEF UploadAgain
  <2>2. /\ arch'.light = arch.light /\ arch'.exit = arch.exit /\ arch'.inBucket = arch.inBucket
        /\ arch'.item = arch.light /\ arch'.uploaded = arch.uploaded
    BY <1>1, <2>1 DEF ArchState
  <2>3. pipe'.pc = "copy" /\ pipe'.phase = "again"
    BY <1>1, <2>1 DEF PipeState
  <2>4. (Complete(arch.light)' <=> Complete(arch.light)) /\ (Complete(arch.item)' <=> Complete(arch.light))
    BY <2>2 DEF Complete
  <2>5. Complete(bucket.final)' <=> Complete(bucket.final)
    BY <2>1 DEF Complete
  <2>6. ~arch.uploaded'
    BY <2>1, <2>2
  <2> QED BY <1>1, <1>2, <2>1, <2>2, <2>3, <2>4, <2>5, <2>6 DEF Vouched, Claims, ClaimIsTrue, Up
<1>15. CASE Leaving
  BY <1>3, <1>15 DEF Leaving, SelfDeletes, SelfDeleteFails, TrapPowersOff, Pcs
<1> QED BY <1>4, <1>5, <1>6, <1>7, <1>8, <1>9, <1>10, <1>11, <1>12, <1>13, <1>14, <1>15
        DEF Pipeline, Packing, Copying, Trap

\* A SIGTERM begins the trap, or leaves its notes alone.
LEMMA GoDownVouched ==
    ASSUME TypeOK, Vouched, NEW end \in {"stop", "delete"}, GoDown(end)
    PROVE  Vouched'
<1>1. /\ pipe \in PipeState /\ arch \in ArchState /\ Sigterm /\ Up
      /\ UNCHANGED <<vm, disk, bucket>>
  BY DEF TypeOK, GoDown
<1>2. CASE pipe.phase = "stages" /\ pipe'.phase = "light"
  BY <1>1, <1>2, SigtermMoves, QuietStep DEF Up
<1>3. CASE ~(pipe.phase = "stages" /\ pipe'.phase = "light")
  <2>1. /\ pipe'.phase = pipe.phase /\ arch' = arch
        /\ pipe'.pc = IF pipe.pc = "setup" THEN "dead" ELSE pipe.pc
    BY <1>1, <1>3, SigtermMoves
  <2> QED BY <1>1, <2>1 DEF Vouched, Claims, ClaimIsTrue, Up, Complete
<1> QED BY <1>2, <1>3

LEMMA VouchedStep ==
    ASSUME TypeOK, Vouched, [Next]_vars
    PROVE  Vouched'
<1>1. CASE Pipeline
  BY <1>1, PipelineVouched
<1>2. CASE \E end \in {"stop", "delete"} : GoDown(end)
  BY <1>2, GoDownVouched
<1>3. CASE GoesDown
  <2>1. pipe \in PipeState /\ UNCHANGED <<arch, bucket>>
    BY <1>3 DEF TypeOK, GoesDown
  <2>2. pipe'.phase = pipe.phase /\ pipe'.pc \in {"dead", "left"}
    BY <1>3, <2>1, ToMoves DEF GoesDown, Pcs
  <2>3. pipe.phase # "stages" => arch.exit
    BY DEF Vouched, Claims
  <2> QED BY <2>1, <2>2, <2>3, QuietStep
<1>4. CASE Setup
  <2>1. pipe \in PipeState /\ UNCHANGED <<vm, arch, bucket>> /\ Up
    BY <1>4 DEF TypeOK, Setup, UnitStarts, SetupFails, At, machine
  <2>2. pipe'.phase = pipe.phase /\ pipe'.pc \in {"stage", "dead"}
    BY <1>4, <2>1, ToMoves DEF Setup, UnitStarts, SetupFails, Pcs
  <2>3. pipe.phase # "stages" => arch.exit
    BY DEF Vouched, Claims
  <2> QED BY <2>1, <2>2, <2>3, QuietStep DEF Up
<1>5. CASE GuardDeleteFails \/ Launcher \/ FetchVm \/ LaptopLost \/ UNCHANGED vars
  BY <1>5, OutsideStep DEF GuardDeleteFails, Launcher, Launched, LaunchFails, FetchVm, LaptopLost,
     Remote, process, machine, vars
<1>6. CASE Watches \/ RestartFails \/ Refetch \/ Restarts \/ DeleteFails
  BY <1>6, OutsideStep DEF Watches, SeesExit, FetchedFinal, FetchGivesUp, SeesGone, SeesStopped,
     RestartFails, Refetch, Restarts, DeleteFails, Remote, process, machine
<1>7. CASE DeletesGoingDown
  BY <1>7, OutsideStep DEF DeletesGoingDown, process
<1>8. CASE DeletesStopped
  BY <1>8 DEF DeletesStopped, Vouched, Claims, ClaimIsTrue, Up, Complete
<1> QED BY <1>1, <1>2, <1>3, <1>4, <1>5, <1>6, <1>7, <1>8
        DEF Next, Guard, GuardDeletes, GuardPowersOff, Engine, CapDeletes, PowersOff, Refetches,
            Ends, Deletes, StoppedFromOutside

\* "This run's archive is in the bucket": it is there, with the exit marker.
THEOREM ClaimsHold == Spec => []ClaimIsTrue
<1>1. Init => Vouched
  BY DEF Init, Vouched, Claims, ClaimIsTrue, Up
<1>2. TypeOK /\ Vouched /\ [Next]_vars => Vouched'
  BY VouchedStep
<1>3. Vouched => ClaimIsTrue
  BY DEF Vouched
<1> QED BY <1>1, <1>2, <1>3, TypeCorrect, PTL DEF Spec

-----------------------------------------------------------------------------
(* A watcher that ends has the results.                                     *)

\* A fault that has happened stays on the record.
LEMMA UsedStays ==
    ASSUME TypeOK, [Next]_vars
    PROVE  \A fault \in Faults : used[fault] > 0 => used'[fault] > 0
<1>1. used \in [Faults -> Nat]
  BY DEF TypeOK
<1>2. used' = used \/ \E fault \in Faults : Spend(fault)
  <2>1. CASE Packing \/ Copying
    BY <2>1 DEF Packing, PackAll, TarFails, FallbackFails, PackFallback, PackFallbackUnlisted,
       Copying, CopyLands, CopyFails, Faults
  <2>2. CASE StageEnds \/ NextStage \/ StagesEnd \/ Trap
    BY <2>2 DEF StageEnds, NextStage, StagesEnd, Trap, AfterLight, AfterFull, UploadAgain, AfterAgain
  <2>3. CASE Leaving
    BY <2>3 DEF Leaving, SelfDeletes, SelfDeleteFails, TrapPowersOff, Faults
  <2>4. CASE Guard \/ Engine
    BY <2>4 DEF Guard, GuardDeletes, GuardDeleteFails, GuardPowersOff, Engine, CapDeletes,
       PowersOff, GoesDown, Faults
  <2>5. CASE Setup \/ Launcher \/ FetchVm
    BY <2>5 DEF Setup, UnitStarts, SetupFails, Launcher, Launched, LaunchFails, FetchVm
  <2>6. CASE Watches
    BY <2>6 DEF Watches, SeesExit, FetchedFinal, FetchGivesUp, SeesGone, SeesStopped, Fetches, Faults
  <2>7. CASE Refetches
    BY <2>7 DEF Refetches, Restarts, RestartFails, Refetch, Fetches, Faults
  <2>8. CASE Ends
    BY <2>8 DEF Ends, Deletes, DeletesGoingDown, DeletesStopped, DeleteFails, Faults
  <2>9. CASE StoppedFromOutside \/ LaptopLost
    BY <2>9 DEF StoppedFromOutside, LaptopLost, Faults
  <2>10. CASE UNCHANGED vars
    BY <2>10 DEF vars
  <2> QED BY <2>1, <2>2, <2>3, <2>4, <2>5, <2>6, <2>7, <2>8, <2>9, <2>10 DEF Next, Pipeline
<1>3. ASSUME NEW fault \in Faults, Spend(fault)
      PROVE  \A f \in Faults : used[f] > 0 => used'[f] > 0
  BY <1>1, <1>3 DEF Spend
<1> QED BY <1>2, <1>3

\* A process that has ended stays as it ended, with what it claimed.
LEMMA EndedStays ==
    ASSUME TypeOK, Results, pipe.pc \in {"dead", "left"}, [Next]_vars
    PROVE  pipe'.pc = pipe.pc /\ arch'.inBucket = arch.inBucket
<1>1. /\ pipe \in PipeState /\ arch \in ArchState
      /\ pipe.pc = "left" => pipe.phase # "stages"
  BY DEF TypeOK, Results
<1>2. ~Pipeline /\ ~Setup
  BY DEF Pipeline, StageEnds, Packing, PackAll, TarFails, FallbackFails, PackFallback,
     PackFallbackUnlisted, Copying, CopyLands, CopyFails, NextStage, StagesEnd, Trap, AfterLight,
     AfterFull, UploadAgain, AfterAgain, Leaving, SelfDeletes, SelfDeleteFails, TrapPowersOff,
     Setup, UnitStarts, SetupFails, At
<1>3. ASSUME NEW end \in {"stop", "delete"}, GoDown(end)
      PROVE  pipe'.pc = pipe.pc /\ arch'.inBucket = arch.inBucket
  BY <1>1, <1>3, SigtermMoves DEF GoDown
<1>4. CASE Guard \/ Engine \/ Deletes \/ StoppedFromOutside
  <2>1. CASE GoesDown
    BY <1>1, <2>1, ToMoves DEF GoesDown, Pcs
  <2>2. CASE GuardDeleteFails
    BY <2>2 DEF GuardDeleteFails, process
  <2> QED BY <1>3, <1>4, <2>1, <2>2 DEF Guard, GuardDeletes, GuardPowersOff, Engine, CapDeletes,
             PowersOff, Deletes, StoppedFromOutside
<1>5. CASE Launcher \/ FetchVm \/ Watches \/ Refetches \/ LaptopLost \/ UNCHANGED vars
  BY <1>5 DEF Launcher, Launched, LaunchFails, FetchVm, Watches, SeesExit, FetchedFinal,
     FetchGivesUp, SeesGone, SeesStopped, Refetches, Restarts, RestartFails, Refetch, LaptopLost,
     Remote, process, vars
<1>6. CASE DeletesGoingDown \/ DeletesStopped \/ DeleteFails
  BY <1>6 DEF DeletesGoingDown, DeletesStopped, DeleteFails, Remote, process
<1> QED BY <1>2, <1>4, <1>5, <1>6 DEF Next, Ends

\* What excuses the watcher is for good.
LEMMA NoClaimStays ==
    ASSUME TypeOK, Results, NoClaim, [Next]_vars
    PROVE  NoClaim'
<1>1. CASE used.fetches > 0
  <2>1. used'.fetches > 0
    BY <1>1, UsedStays DEF Faults
  <2> QED BY <2>1 DEF NoClaim
<1>2. CASE pipe.pc = "dead" \/ (pipe.pc = "left" /\ ~arch.inBucket)
  BY <1>2, EndedStays DEF NoClaim
<1> QED BY <1>1, <1>2 DEF NoClaim

\* A fetch from the bucket brings what the trap claimed of it.
LEMMA FetchBrings ==
    ASSUME TypeOK, Vouched, Fetches(bucket)
    PROVE  used'.fetches > 0 \/ (arch.inBucket => Complete(laptop'.final))
<1>1. used \in [Faults -> Nat] /\ laptop \in Places /\ bucket \in Places
  BY DEF TypeOK
<1>2. CASE Spend("fetches")
  BY <1>1, <1>2 DEF Spend, Faults
<1>3. CASE laptop' = Fetched(bucket)
  <2>1. laptop'.final = Taken(bucket.final, laptop.final)
    BY <1>1, <1>3 DEF Fetched, Objects
  <2>2. arch.inBucket => Complete(bucket.final)
    BY DEF Vouched, ClaimIsTrue
  <2> QED BY <2>1, <2>2 DEF Taken, Complete
<1> QED BY <1>2, <1>3 DEF Fetches

\* The trap leaves once it has begun.
LEMMA OnlyTrapLeaves ==
    ASSUME TypeOK, Results, [Next]_vars
    PROVE  pipe'.pc \in {"leave", "left"} => pipe'.phase # "stages"
<1>1. /\ pipe \in PipeState /\ arch \in ArchState /\ disk \in Places /\ launch.bucket \in BOOLEAN
      /\ pipe.pc \in {"leave", "left"} => pipe.phase # "stages"
  BY DEF TypeOK, Results
<1>2. ASSUME NEW pc \in Pcs, To(pc), pc \in {"leave", "left"} => pipe.phase # "stages"
      PROVE  pipe'.pc \in {"leave", "left"} => pipe'.phase # "stages"
  BY <1>1, <1>2, ToMoves
<1>3. ASSUME NEW end \in {"stop", "delete"}, GoDown(end)
      PROVE  pipe'.pc \in {"leave", "left"} => pipe'.phase # "stages"
  BY <1>1, <1>3, SigtermMoves DEF GoDown
<1>4. CASE StageEnds \/ StagesEnd
  <2>1. pipe'.pc = "tar"
    BY <1>1, <1>4, FinishMoves DEF StageEnds, StagesEnd, PipeState
  <2> QED BY <2>1
<1>5. CASE Packing \/ Copying \/ NextStage
  <2>1. \E pc \in {"fallback", "copy", "packed", "stage"} : To(pc)
    BY <1>5 DEF Packing, PackAll, TarFails, FallbackFails, PackFallback, PackFallbackUnlisted,
       Written, Copying, CopyLands, CopyFails, NextStage
  <2> QED BY <1>2, <2>1 DEF Pcs
<1>6. CASE Trap
  <2>1. CASE AfterLight
    <3>1. \/ pipe' = [pipe EXCEPT !.pc = "leave"]
          \/ pipe' = [pipe EXCEPT !.pc = "tar", !.phase = "full"]
      BY <2>1 DEF AfterLight
    <3>2. pipe.phase = "light"
      BY <2>1 DEF AfterLight
    <3> QED BY <1>1, <3>1, <3>2 DEF PipeState
  <2>2. CASE AfterFull \/ AfterAgain
    BY <1>2, <2>2 DEF AfterFull, AfterAgain, Pcs
  <2>3. CASE UploadAgain
    <3>1. pipe' = [pipe EXCEPT !.pc = "copy", !.phase = "again"]
      BY <2>3 DEF UploadAgain
    <3> QED BY <1>1, <3>1 DEF PipeState
  <2> QED BY <1>6, <2>1, <2>2, <2>3 DEF Trap
<1>7. CASE Leaving
  BY <1>1, <1>2, <1>7 DEF Leaving, SelfDeletes, SelfDeleteFails, TrapPowersOff, At, Pcs
<1>8. CASE Guard \/ Engine \/ Deletes \/ StoppedFromOutside
  <2>1. CASE GoesDown
    <3>1. pipe' = pipe \/ To("dead")
      BY <2>1 DEF GoesDown
    <3> QED BY <1>1, <1>2, <3>1 DEF Pcs
  <2>2. CASE GuardDeleteFails
    BY <1>1, <2>2 DEF GuardDeleteFails, process
  <2> QED BY <1>3, <1>8, <2>1, <2>2 DEF Guard, GuardDeletes, GuardPowersOff, Engine, CapDeletes,
             PowersOff, Deletes, StoppedFromOutside
<1>9. CASE Setup
  BY <1>2, <1>9 DEF Setup, UnitStarts, SetupFails, Pcs
<1>10. CASE Launcher \/ FetchVm \/ Watches \/ Refetches \/ LaptopLost \/ UNCHANGED vars
  BY <1>1, <1>10 DEF Launcher, Launched, LaunchFails, FetchVm, Watches, SeesExit, FetchedFinal,
     FetchGivesUp, SeesGone, SeesStopped, Refetches, Restarts, RestartFails, Refetch, LaptopLost,
     Remote, process, vars
<1>11. CASE DeletesGoingDown \/ DeletesStopped \/ DeleteFails
  BY <1>1, <1>11 DEF DeletesGoingDown, DeletesStopped, DeleteFails, Remote, process
<1> QED BY <1>4, <1>5, <1>6, <1>7, <1>8, <1>9, <1>10, <1>11 DEF Next, Pipeline, Ends

LEMMA ResultsStep ==
    ASSUME TypeOK, Vouched, Results, [Next]_vars
    PROVE  Results'
<1> DEFINE Fetching == watcher' \in {"restart", "refetch"} => NoClaim'
           Done == watcher' \in {"delete", "over"} => Complete(laptop'.final) \/ NoClaim'
<1>1. SUFFICES Fetching /\ Done
  BY OnlyTrapLeaves DEF Results, Complete
<1>2. NoClaim => NoClaim'
  BY NoClaimStays
<1>3. /\ watcher \in {"restart", "refetch"} => NoClaim
      /\ watcher \in {"delete", "over"} => Complete(laptop.final) \/ NoClaim
  BY DEF Results
<1>4. CASE UNCHANGED <<watcher, laptop>>
  BY <1>2, <1>3, <1>4
<1>5. CASE FetchVm \/ SeesExit \/ Launcher \/ LaptopLost
  BY <1>5 DEF FetchVm, SeesExit, Launcher, Launched, LaunchFails, LaptopLost
<1>6. CASE FetchedFinal
  BY <1>6 DEF FetchedFinal
<1>7. CASE FetchGivesUp
  <2>1. watcher' = "delete" /\ UNCHANGED process
    BY <1>7 DEF FetchGivesUp, Remote
  <2>2. CASE Up
    <3>1. used'.fetches > 0
      BY <1>7, <2>2 DEF FetchGivesUp, Spend, TypeOK, Faults
    <3> QED BY <2>1, <3>1 DEF NoClaim
  <2>3. CASE ~Up
    <3>1. pipe.pc \in {"dead", "left"}
      BY <2>3 DEF Vouched, Claims
    <3>2. Fetches(bucket)
      BY <1>7, <2>3 DEF FetchGivesUp
    <3> QED BY <2>1, <3>1, <3>2, FetchBrings DEF NoClaim, process
  <2> QED BY <2>2, <2>3
<1>8. CASE SeesGone \/ SeesStopped
  <2>1. Fetches(bucket) /\ ~Up /\ UNCHANGED process
    BY <1>8 DEF SeesGone, SeesStopped, Remote, Up
  <2>2. pipe.pc \in {"dead", "left"}
    BY <2>1 DEF Vouched, Claims
  <2>3. NoClaim' \/ Complete(laptop'.final)
    BY <2>1, <2>2, FetchBrings DEF NoClaim, process
  <2>4. watcher' \in {"over", "delete"} \/ (watcher' = "restart" /\ ~Complete(laptop'.final))
    <3>1. CASE SeesGone
      BY <3>1 DEF SeesGone
    <3>2. CASE SeesStopped
      <4>1. watcher' = IF Complete(laptop'.final) THEN "delete" ELSE "restart"
        BY <3>2 DEF SeesStopped, Complete
      <4> QED BY <4>1
    <3> QED BY <1>8, <3>1, <3>2
  <2> QED BY <2>3, <2>4
<1>9. CASE Refetches
  BY <1>2, <1>3, <1>9 DEF Refetches, Restarts, RestartFails, Refetch
<1>10. CASE Ends
  <2>1. watcher' = "over" => watcher = "delete"
    BY <1>10 DEF Ends, Deletes, DeletesGoingDown, DeletesStopped, DeleteFails, End
  <2>2. watcher' \in Ended /\ laptop' = laptop
    BY <1>10 DEF Ends, Deletes, DeletesGoingDown, DeletesStopped, DeleteFails, End, Ended
  <2> QED BY <1>2, <1>3, <2>1, <2>2 DEF Ended
<1>11. CASE Pipeline
  BY <1>4, <1>11 DEF Pipeline, StageEnds, Packing, PackAll, TarFails, FallbackFails, PackFallback,
     PackFallbackUnlisted, Copying, CopyLands, CopyFails, NextStage, StagesEnd, Trap, AfterLight,
     AfterFull, UploadAgain, AfterAgain, Leaving, SelfDeletes, SelfDeleteFails, TrapPowersOff,
     Inside
<1>12. CASE Guard \/ Engine \/ Setup \/ StoppedFromOutside \/ UNCHANGED vars
  BY <1>4, <1>12 DEF Guard, GuardDeletes, GuardDeleteFails, GuardPowersOff, Engine, CapDeletes,
     PowersOff, GoesDown, Setup, UnitStarts, SetupFails, StoppedFromOutside, vars
<1> QED BY <1>5, <1>6, <1>7, <1>8, <1>9, <1>10, <1>11, <1>12 DEF Next, Watches

\* A watcher that ends has the complete archive of a trap that ran to its end and
\* has it in the bucket, unless a fetch failed.
THEOREM ResultsComeHome == Spec => []WatcherEndsWithResults
<1>1. Init => Vouched /\ Results
  BY DEF Init, Vouched, Claims, ClaimIsTrue, Up, Results
<1>2. TypeOK /\ Vouched /\ Results /\ [Next]_vars => Vouched' /\ Results'
  BY VouchedStep, ResultsStep
<1>3. TypeOK /\ Results => WatcherEndsWithResults
  BY DEF Results, NoClaim, WatcherEndsWithResults, TypeOK, Faults
<1> QED BY <1>1, <1>2, <1>3, TypeCorrect, PTL DEF Spec

-----------------------------------------------------------------------------
(* What lies in the bucket is replaced by no less.                          *)

LEMMA PackedHolds ==
    ASSUME arch \in ArchState, NEW whole \in BOOLEAN
    PROVE  /\ Own(Packed(whole)) /\ Packed(whole).n = arch.n
           /\ Packed(whole).exit = arch.exit /\ Packed(whole).whole = whole
<1>1. Own(Packed(whole))
  BY PackedArchive DEF Own
<1> QED BY <1>1 DEF Packed

\* What Written notes besides.
LEMMA WrittenNotes ==
    ASSUME arch \in ArchState, disk \in Places, NEW file \in Objects, NEW a \in Maybe,
           NEW object \in Objects, Written(file, a, object)
    PROVE  /\ arch'.fresh = (file = "final") /\ arch'.object = object
           /\ disk'.final = IF file = "final" THEN a ELSE disk.final
<1>1. arch' = [arch EXCEPT !.fresh = (file = "final"), !.uploaded = FALSE,
                           !.item = a, !.object = object]
  BY DEF Written
<1>2. disk' = [disk EXCEPT ![file] = a]
  BY DEF Written
<1>3. arch'.fresh = (file = "final") /\ arch'.object = object
  BY <1>1 DEF ArchState
<1>4. disk'.final = IF file = "final" THEN a ELSE disk.final
  BY <1>2 DEF Places, Objects
<1> QED BY <1>3, <1>4

\* The whole list, or a fallback that goes beside what is there.
LEMMA WrittenGains ==
    ASSUME TypeOK, NothingBehind, pipe.pc \in {"tar", "fallback"},
           NEW file \in Objects, NEW whole \in BOOLEAN, NEW object \in Objects,
           Written(file, Packed(whole), object),
           file = IF whole THEN "final" ELSE Beside(disk.final),
           whole \/ object = Beside(bucket.final)
    PROVE  NothingBehind'
<1> DEFINE a == Packed(whole)
<1>1. /\ pipe \in PipeState /\ arch \in ArchState /\ disk \in Places
      /\ launch.bucket \in BOOLEAN /\ a \in Maybe
  BY PackedArchive DEF TypeOK
<1>2. Own(a) /\ a.n = arch.n /\ a.exit = arch.exit /\ a.whole = whole
  BY <1>1, PackedHolds
<1>3. /\ file = "final" => whole \/ disk.final = None
      /\ file # "final" => disk.final # None
      /\ object = "final" => whole \/ bucket.final = None
  BY DEF Beside
<1> HIDE DEF a
<1>4. /\ pipe'.phase = pipe.phase /\ pipe'.pc \in {"copy", "packed"}
      /\ arch'.n = arch.n /\ arch'.exit = arch.exit /\ arch'.light = arch.light
      /\ arch'.item = a /\ arch'.uploaded = FALSE /\ bucket' = bucket
  BY <1>1, WrittenMoves DEF a
<1>5. /\ arch'.fresh = (file = "final") /\ arch'.object = object
      /\ disk'.final = IF file = "final" THEN a ELSE disk.final
  BY <1>1, WrittenNotes DEF a
<1>6. disk'.final # None
  BY <1>2, <1>3, <1>5 DEF Own
<1>7. (Own(bucket.final) =>
         disk.final # None /\ bucket.final.n <= arch.n /\ (bucket.final.exit => arch.exit))'
  BY <1>4, <1>6 DEF NothingBehind, Own
<1>8. (pipe.pc = "copy" =>
         /\ UpToDate(arch.item) /\ disk.final # None
         /\ arch.object = "final" => MayReplace(arch.item, bucket.final))'
  BY <1>2, <1>3, <1>4, <1>5, <1>6 DEF UpToDate, MayReplace, Own
<1>9. (pipe.phase = "light" /\ pipe.pc \in {"copy", "packed"} /\ arch.fresh =>
          /\ UpToDate(disk.final) /\ MayReplace(disk.final, bucket.final)
          /\ pipe.pc = "copy" => disk.final = arch.item)'
  BY <1>2, <1>3, <1>4, <1>5 DEF NothingBehind, UpToDate, MayReplace, Own
<1>10. (pipe.phase = "full" /\ arch.light # None =>
          /\ UpToDate(arch.light) /\ disk.final # None
          /\ MayReplace(arch.light, bucket.final) \/ (pipe.pc = "packed" /\ arch.uploaded))'
  BY <1>4, <1>6 DEF NothingBehind, UpToDate, MayReplace, Own
<1>11. (pipe.pc \in {"setup", "stage"} => pipe.phase = "stages")'
  BY <1>4
<1> QED BY <1>7, <1>8, <1>9, <1>10, <1>11 DEF NothingBehind

\* A step to where nothing is copied and nothing kept.
LEMMA QuietGains ==
    ASSUME TypeOK, NothingBehind, UNCHANGED bucket,
           disk'.final = disk.final \/ ~Own(bucket.final),
           arch'.n \in Nat, arch'.n >= arch.n, arch.exit => arch'.exit,
           pipe'.pc \notin {"copy", "packed"}, pipe'.phase # "full",
           pipe'.pc \in {"setup", "stage"} => pipe'.phase = "stages"
    PROVE  NothingBehind'
<1>1. arch.n \in Nat /\ (Own(bucket.final) => bucket.final.n \in Nat)
  BY DEF TypeOK, ArchState, Places, Objects, Maybe, Archive, Own
<1>2. (Own(bucket.final) =>
         disk.final # None /\ bucket.final.n <= arch.n /\ (bucket.final.exit => arch.exit))'
  BY <1>1 DEF NothingBehind, Own
<1> QED BY <1>2 DEF NothingBehind

\* A step that moves the process only, in the phase it was in.
LEMMA MoveGains ==
    ASSUME pipe \in PipeState, NothingBehind, UNCHANGED <<arch, disk, bucket>>,
           NEW pc \in Pcs \ {"setup", "copy"}, To(pc),
           pc = "stage" => pipe.phase = "stages",
           pc = "packed" => pipe.pc = "copy", pipe.pc # "packed" \/ pc = "stage"
    PROVE  NothingBehind'
<1>1. pipe'.phase = pipe.phase /\ pipe'.pc = pc
  BY ToMoves
<1> QED BY <1>1 DEF NothingBehind, UpToDate, MayReplace, Own

LEMMA PipelineGains ==
    ASSUME TypeOK, NothingBehind, Pipeline, used'.listings = 0, pipe'.pc \notin {"leave", "left"}
    PROVE  NothingBehind'
<1>1. /\ pipe \in PipeState /\ arch \in ArchState /\ disk \in Places /\ bucket \in Places
      /\ arch.item \in Maybe /\ arch.object \in Objects /\ arch.n \in Nat
      /\ used \in [Faults -> Nat]
  BY DEF TypeOK, ArchState
<1>2. CASE StageEnds
  <2>1. PICK ok \in BOOLEAN :
          /\ pipe' = [pipe EXCEPT !.pc = "tar", !.left = @ - 1, !.ok = ok]
          /\ arch' = IF ok THEN [arch EXCEPT !.n = @ + 1] ELSE arch
    BY <1>2 DEF StageEnds
  <2>2. pipe'.pc = "tar" /\ pipe'.phase = pipe.phase /\ pipe.phase = "stages"
    BY <1>1, <1>2, <2>1 DEF PipeState, StageEnds, At, NothingBehind
  <2>3. arch'.n \in Nat /\ arch'.n >= arch.n /\ arch'.exit = arch.exit
    BY <1>1, <2>1 DEF ArchState
  <2> QED BY <1>2, <2>2, <2>3, QuietGains DEF StageEnds
<1>3. CASE PackAll
  BY <1>3, WrittenGains DEF PackAll, At, Objects
<1>4. CASE TarFails
  BY <1>1, <1>4, MoveGains DEF TarFails, At, Pcs
<1>5. CASE FallbackFails
  <2>1. /\ arch'.n = arch.n /\ arch'.exit = arch.exit /\ arch'.light = arch.light
        /\ arch'.fresh = FALSE
    BY <1>1, <1>5 DEF FallbackFails, ArchState
  <2>2. pipe'.phase = pipe.phase /\ pipe'.pc = "packed" /\ pipe.pc = "fallback"
    BY <1>1, <1>5, ToMoves DEF FallbackFails, At, Pcs
  <2>3. UNCHANGED <<disk, bucket>>
    BY <1>5 DEF FallbackFails
  <2> QED BY <2>1, <2>2, <2>3 DEF NothingBehind, UpToDate, MayReplace, Own
<1>6. CASE PackFallback
  BY <1>6, BesideObject, WrittenGains DEF PackFallback, At
<1>7. CASE PackFallbackUnlisted
  BY <1>1, <1>7 DEF PackFallbackUnlisted, Spend, Faults
<1>8. CASE CopyLands
  <2>1. /\ arch'.n = arch.n /\ arch'.exit = arch.exit /\ arch'.light = arch.light
        /\ arch'.fresh = arch.fresh /\ arch'.uploaded = (arch.object = "final")
    BY <1>1, <1>8 DEF CopyLands, ArchState
  <2>2. pipe'.phase = pipe.phase /\ pipe'.pc = "packed" /\ pipe.pc = "copy"
    BY <1>1, <1>8, ToMoves DEF CopyLands, At, Pcs
  <2>3. /\ arch.object = "final" => bucket'.final = arch.item
        /\ arch.object # "final" => bucket'.final = bucket.final
        /\ disk' = disk
    BY <1>1, <1>8 DEF CopyLands, Places
  <2>4. CASE arch.object = "final"
    <3>1. UpToDate(arch.item) /\ disk.final # None /\ bucket'.final = arch.item
      BY <2>2, <2>3, <2>4 DEF NothingBehind
    <3>2. arch'.uploaded /\ arch.item.n <= arch.n /\ (arch.item.exit => arch.exit)
      <4>1. arch'.uploaded
        BY <2>1, <2>4
      <4>2. arch.item.n <= arch.n
        BY <1>1, <3>1 DEF UpToDate
      <4>3. arch.item.exit => arch.exit
        BY <3>1 DEF UpToDate
      <4> QED BY <4>1, <4>2, <4>3
    <3>3. (Own(bucket.final) =>
             disk.final # None /\ bucket.final.n <= arch.n /\ (bucket.final.exit => arch.exit))'
      BY <2>1, <2>3, <3>1, <3>2
    <3>4. (pipe.phase = "light" /\ pipe.pc \in {"copy", "packed"} /\ arch.fresh =>
             /\ UpToDate(disk.final) /\ MayReplace(disk.final, bucket.final)
             /\ pipe.pc = "copy" => disk.final = arch.item)'
      BY <2>1, <2>2, <2>3, <3>1 DEF NothingBehind, UpToDate, MayReplace, Own
    <3>5. (pipe.phase = "full" /\ arch.light # None =>
             /\ UpToDate(arch.light) /\ disk.final # None
             /\ MayReplace(arch.light, bucket.final) \/ (pipe.pc = "packed" /\ arch.uploaded))'
      BY <2>1, <2>2, <2>3, <3>2 DEF NothingBehind, UpToDate, Own
    <3> QED BY <2>2, <3>3, <3>4, <3>5 DEF NothingBehind
  <2>5. CASE arch.object # "final"
    BY <2>1, <2>2, <2>3, <2>5 DEF NothingBehind, UpToDate, MayReplace, Own
  <2> QED BY <2>4, <2>5
<1>9. CASE CopyFails
  BY <1>1, <1>9, MoveGains DEF CopyFails, At, Pcs
<1>10. CASE NextStage
  BY <1>1, <1>10, MoveGains DEF NextStage, At, Pcs
<1>11. CASE StagesEnd
  <2>1. Finish(FALSE) /\ UNCHANGED <<disk, bucket>>
    BY <1>11 DEF StagesEnd
  <2>2. pipe'.pc = "tar" /\ pipe'.phase = "light" /\ arch'.n = arch.n /\ arch'.exit = TRUE
    BY <1>1, <2>1, FinishMoves
  <2> QED BY <1>1, <2>1, <2>2, QuietGains
<1>12. CASE AfterLight
  <2>1. /\ arch' = [arch EXCEPT !.light = LightCopy, !.inBucket = arch.uploaded]
        /\ pipe.phase = "light" /\ pipe.pc = "packed" /\ UNCHANGED <<disk, bucket>>
    BY <1>12 DEF AfterLight, At
  <2>2. /\ arch'.n = arch.n /\ arch'.exit = arch.exit
        /\ arch'.light = IF arch.fresh THEN disk.final ELSE None
    BY <1>1, <2>1 DEF ArchState, LightCopy
  <2>3. pipe'.pc = "tar" /\ pipe'.phase = "full"
    <3>1. \/ pipe' = [pipe EXCEPT !.pc = "leave"]
          \/ pipe' = [pipe EXCEPT !.pc = "tar", !.phase = "full"]
      BY <1>12 DEF AfterLight
    <3> QED BY <1>1, <3>1 DEF PipeState
  <2> QED BY <2>1, <2>2, <2>3 DEF NothingBehind, UpToDate, MayReplace, Own
<1>13. CASE UploadAgain
  <2>1. /\ arch' = [arch EXCEPT !.item = arch.light, !.object = "final"]
        /\ pipe' = [pipe EXCEPT !.pc = "copy", !.phase = "again"]
        /\ ~arch.uploaded /\ arch.light # None /\ pipe.phase = "full"
        /\ UNCHANGED <<disk, bucket>>
    BY <1>13 DEF UploadAgain
  <2>2. arch'.n = arch.n /\ arch'.exit = arch.exit /\ arch'.item = arch.light
    BY <1>1, <2>1 DEF ArchState
  <2>3. pipe'.pc = "copy" /\ pipe'.phase = "again"
    BY <1>1, <2>1 DEF PipeState
  <2> QED BY <2>1, <2>2, <2>3 DEF NothingBehind, UpToDate, MayReplace, Own
<1>14. CASE AfterFull \/ AfterAgain
  BY <1>1, <1>14, ToMoves DEF AfterFull, AfterAgain, Pcs
<1>15. CASE Leaving
  BY <1>1, <1>15, ToMoves DEF Leaving, SelfDeletes, SelfDeleteFails, TrapPowersOff, Pcs
<1> QED BY <1>2, <1>3, <1>4, <1>5, <1>6, <1>7, <1>8, <1>9, <1>10, <1>11, <1>12, <1>13, <1>14, <1>15
        DEF Pipeline, Packing, Copying, Trap

\* A SIGTERM begins the trap, or leaves everything alone.
LEMMA GoDownGains ==
    ASSUME TypeOK, NothingBehind, NEW end \in {"stop", "delete"}, GoDown(end),
           pipe'.pc # "dead"
    PROVE  NothingBehind'
<1>1. /\ pipe \in PipeState /\ arch \in ArchState /\ arch.n \in Nat /\ Sigterm
      /\ UNCHANGED <<disk, bucket>>
  BY DEF TypeOK, ArchState, GoDown
<1>2. CASE pipe'.pc = "tar" /\ pipe'.phase = "light" /\ arch'.exit = TRUE
  BY <1>1, <1>2, SigtermMoves, QuietGains
<1>3. CASE pipe'.pc = pipe.pc /\ pipe'.phase = pipe.phase /\ arch' = arch
  BY <1>1, <1>3 DEF NothingBehind, UpToDate
<1> QED BY <1>1, <1>2, <1>3, SigtermMoves

LEMMA GainsStep ==
    ASSUME TypeOK, Vouched, Results, Gains, [Next]_vars
    PROVE  Gains'
<1>1. SUFFICES ASSUME used'.listings = 0, pipe'.pc \notin {"leave", "left", "dead"}
               PROVE  NothingBehind'
  BY DEF Gains
<1>2. used.listings = 0
  BY <1>1, UsedStays DEF TypeOK, Faults
<1>3. pipe.pc \notin {"left", "dead"}
  BY <1>1, EndedStays
<1>4. /\ pipe \in PipeState /\ arch \in ArchState
      /\ pipe.pc = "leave" => pipe.phase # "stages"
      /\ pipe.pc # "leave" => NothingBehind
  BY <1>2, <1>3 DEF TypeOK, Results, Gains
<1>5. CASE Pipeline
  <2>1. pipe.pc # "leave"
    <3>1. pipe.pc = "leave" => Leaving
      BY <1>5 DEF Pipeline, StageEnds, Packing, PackAll, TarFails, FallbackFails, PackFallback,
         PackFallbackUnlisted, Copying, CopyLands, CopyFails, NextStage, StagesEnd, Trap,
         AfterLight, AfterFull, UploadAgain, AfterAgain, At
    <3>2. Leaving => pipe'.pc = "left"
      BY <1>4, ToMoves DEF Leaving, SelfDeletes, SelfDeleteFails, TrapPowersOff, Pcs
    <3> QED BY <1>1, <3>1, <3>2
  <2> QED BY <1>1, <1>4, <1>5, <2>1, PipelineGains
<1>6. CASE \E end \in {"stop", "delete"} : GoDown(end)
  <2>1. PICK end \in {"stop", "delete"} : GoDown(end)
    BY <1>6
  <2>2. pipe.pc # "leave"
    BY <1>1, <1>4, <2>1, SigtermMoves DEF GoDown
  <2> QED BY <1>1, <1>4, <2>1, <2>2, GoDownGains
<1>7. CASE GoesDown
  BY <1>1, <1>3, <1>4, <1>7, ToMoves DEF GoesDown, Pcs
<1>8. CASE Setup
  <2>1. pipe.pc = "setup" /\ To("stage") /\ UNCHANGED <<arch, disk, bucket>>
    <3>1. To("dead") => pipe'.pc = "dead"
      BY <1>4, ToMoves DEF Pcs
    <3> QED BY <1>1, <1>8, <3>1 DEF Setup, UnitStarts, SetupFails, At
  <2>2. NothingBehind /\ pipe.phase = "stages"
    BY <1>4, <2>1 DEF NothingBehind
  <2> QED BY <1>4, <2>1, <2>2, MoveGains DEF Pcs
<1>9. CASE DeletesStopped
  BY <1>3, <1>9 DEF DeletesStopped, Vouched, Claims
<1>10. CASE UNCHANGED process
  BY <1>1, <1>4, <1>10 DEF process, NothingBehind, UpToDate
<1>11. CASE GuardDeleteFails \/ Launcher \/ FetchVm \/ LaptopLost \/ UNCHANGED vars
  BY <1>10, <1>11 DEF GuardDeleteFails, Launcher, Launched, LaunchFails, FetchVm, LaptopLost,
     Remote, vars
<1>12. CASE Watches \/ Refetches \/ DeleteFails \/ DeletesGoingDown
  BY <1>10, <1>12 DEF Watches, SeesExit, FetchedFinal, FetchGivesUp, SeesGone, SeesStopped,
     Refetches, RestartFails, Refetch, Restarts, DeleteFails, DeletesGoingDown, Remote
<1> QED BY <1>5, <1>6, <1>7, <1>8, <1>9, <1>11, <1>12
        DEF Next, Guard, GuardDeletes, GuardPowersOff, Engine, CapDeletes, PowersOff,
            Ends, Deletes, StoppedFromOutside

\* Only a copy that lands changes the bucket, and what it brings holds no less.
LEMMA BucketStep ==
    ASSUME TypeOK, Gains, [Next]_vars, used.listings = 0
    PROVE  NoLess(bucket'.final, bucket.final)
<1>1. bucket \in Places /\ arch \in ArchState /\ arch.item \in Maybe /\ arch.object \in Objects
  BY DEF TypeOK, ArchState
<1>2. bucket.final = None \/ (bucket.final \in Archive /\ bucket.final.n \in Nat)
  BY <1>1 DEF Places, Objects, Maybe, Archive
<1>3. CASE UNCHANGED bucket
  BY <1>2, <1>3 DEF NoLess
<1>4. CASE CopyLands
  <2>1. NothingBehind /\ pipe.pc = "copy" /\ bucket' = [bucket EXCEPT ![arch.object] = arch.item]
    BY <1>4 DEF CopyLands, At, Gains
  <2>2. CASE arch.object = "final"
    <3>1. bucket'.final = arch.item
      BY <1>1, <2>1, <2>2 DEF Places
    <3>2. UpToDate(arch.item) /\ MayReplace(arch.item, bucket.final)
      BY <2>1, <2>2 DEF NothingBehind
    <3>3. Own(bucket.final) => bucket.final.n <= arch.n /\ (bucket.final.exit => arch.exit)
      BY <2>1 DEF NothingBehind
    <3> QED BY <1>2, <3>1, <3>2, <3>3 DEF NoLess, UpToDate, MayReplace, Own
  <2>3. CASE arch.object # "final"
    BY <1>1, <1>2, <2>1, <2>3 DEF Places, NoLess
  <2> QED BY <2>2, <2>3
<1>5. CASE Pipeline /\ ~CopyLands
  BY <1>3, <1>5 DEF Pipeline, StageEnds, Packing, PackAll, TarFails, FallbackFails, PackFallback,
     PackFallbackUnlisted, Written, Copying, CopyFails, NextStage, StagesEnd, Trap, AfterLight,
     AfterFull, UploadAgain, AfterAgain, Leaving, SelfDeletes, SelfDeleteFails, TrapPowersOff
<1>6. CASE Guard \/ Engine \/ Setup \/ Launcher \/ FetchVm \/ StoppedFromOutside \/ LaptopLost
  BY <1>3, <1>6 DEF Guard, GuardDeletes, GuardDeleteFails, GuardPowersOff, Engine, CapDeletes,
     PowersOff, GoesDown, GoDown, Setup, UnitStarts, SetupFails, Launcher, Launched, LaunchFails,
     FetchVm, StoppedFromOutside, LaptopLost, Remote, process
<1>7. CASE Watches \/ Refetches \/ Ends \/ UNCHANGED vars
  BY <1>3, <1>7 DEF Watches, SeesExit, FetchedFinal, FetchGivesUp, SeesGone, SeesStopped,
     Refetches, RestartFails, Refetch, Restarts, Ends, Deletes, DeletesGoingDown, DeletesStopped,
     DeleteFails, GoDown, Remote, process, vars
<1> QED BY <1>4, <1>5, <1>6, <1>7 DEF Next

\* While the listing works, the bucket's archive is replaced only by one that holds
\* no less.
THEOREM TheBucketGains == Spec => BucketOnlyGains
<1>1. Init => Vouched /\ Results /\ Gains
  <2>1. Init => Vouched /\ Results
    BY DEF Init, Vouched, Claims, ClaimIsTrue, Up, Results
  <2>2. ASSUME Init PROVE NothingBehind
    <3>1. pipe.pc = "setup" /\ pipe.phase = "stages" /\ ~Own(bucket.final)
      BY <2>2 DEF Init, Own, Foreign, Empty, Objects
    <3> QED BY <3>1 DEF NothingBehind
  <2> QED BY <2>1, <2>2 DEF Gains
<1>2. TypeOK /\ Vouched /\ Results /\ Gains /\ [Next]_vars => Vouched' /\ Results' /\ Gains'
  BY VouchedStep, ResultsStep, GainsStep
<1>3. TypeOK /\ Gains /\ [Next]_vars =>
        [used.listings = 0 => NoLess(bucket'.final, bucket.final)]_vars
  BY BucketStep
<1> QED BY <1>1, <1>2, <1>3, TypeCorrect, PTL DEF Spec, BucketOnlyGains
=============================================================================
