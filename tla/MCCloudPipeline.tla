-------------------------- MODULE MCCloudPipeline --------------------------
(* CloudPipeline on small instances: each fault at most once, a tar twice:  *)
(* the whole list's and the fallback's.                                     *)
EXTENDS CloudPipeline

Few == [f \in Faults |-> IF f = "tars" THEN 2 ELSE 1]

\* Only the copies to the bucket fail.
Copies == [f \in Faults |-> IF f = "copies" THEN 1 ELSE 0]

=============================================================================
