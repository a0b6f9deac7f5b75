----------------------------- MODULE NameRegistry -----------------------------
(***************************************************************************)
(* What POST /corridors promises about one corridor name, whatever happens *)
(* to the jobs: one onboarding holds it at a time, the holder installs its *)
(* corridor or gives the name up, and an installed corridor is never       *)
(* replaced.                                                               *)
(***************************************************************************)
CONSTANTS Jobs

VARIABLES
    holding,    \* onboardings that hold the name
    installed   \* onboardings whose corridor is the name's

Init == holding = {} /\ installed = {}

\* The name may be asked for again while a corridor is installed: the files are
\* looked at before the row is inserted, and once more by the job.
Acquire(j) == holding = {} /\ holding' = {j} /\ UNCHANGED installed

Install(j) == holding = {j} /\ installed = {} /\ holding' = {} /\ installed' = {j}

GiveUp(j) == holding = {j} /\ holding' = {} /\ UNCHANGED installed

Next == \E j \in Jobs : Acquire(j) \/ Install(j) \/ GiveUp(j)

Spec == Init /\ [][Next]_<<holding, installed>>

=============================================================================
