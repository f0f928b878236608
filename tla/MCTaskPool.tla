----------------------------- MODULE MCTaskPool -----------------------------
(* Instances of TaskPool for TLC: jobs and workers are numbers, and the     *)
(* NextID handler, where there is one, counts.                             *)
EXTENDS TaskPool

MCHandlerID == [j \in Jobs |-> j]
=============================================================================
