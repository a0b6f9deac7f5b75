--------------------------- MODULE MCReplicatePool ---------------------------
(* ReplicatePool on small instances.                                         *)
EXTENDS ReplicatePool

=============================================================================
