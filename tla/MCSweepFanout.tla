---------------------------- MODULE MCSweepFanout ----------------------------
(* SweepFanout on small instances: run ids and executions are             *)
(* interchangeable where no liveness property is checked.               *)
EXTENDS SweepFanout, TLC

IdSymmetry == Permutations(RunIds) \cup Permutations(Execs)

=============================================================================
