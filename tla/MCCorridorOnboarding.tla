------------------------- MODULE MCCorridorOnboarding -------------------------
(* CorridorOnboarding on small instances: requests and executions are        *)
(* interchangeable where no liveness property is checked.                    *)
EXTENDS CorridorOnboarding, TLC

JobSymmetry == Permutations(Jobs) \cup Permutations(Execs)

=============================================================================
