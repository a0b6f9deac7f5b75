--------------------------- MODULE MCRunArtifacts ---------------------------
(* RunArtifacts on small instances.                                         *)
EXTENDS RunArtifacts, TLC

\* The threads of one API process.
Threads == [q \in Requests |-> "api"]

Symmetry == Permutations(Execs) \cup Permutations(Requests)

=============================================================================
