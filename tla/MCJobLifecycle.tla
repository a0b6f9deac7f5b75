--------------------------- MODULE MCJobLifecycle ---------------------------
(* JobLifecycle on small instances.  Worker slots and passes are            *)
(* interchangeable; symmetry is used by the safety runs only.               *)
EXTENDS JobLifecycle, TLC

SlotSymmetry == Permutations(Workers) \cup Permutations(Passes)

=============================================================================
