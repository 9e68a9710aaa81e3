-------------------------- MODULE MCTaskScheduler --------------------------
(***************************************************************************)
(* An instance of TaskScheduler in the shape build_tool_nodes and          *)
(* run_p0_scan give the graph: passive tools, an active tool after them, a *)
(* tool of another category that nobody but the stage waits for, a stage   *)
(* after all tools.  The passive tools share a key, so that its semaphore  *)
(* is contended; with the other tool the global semaphore is, too.         *)
(***************************************************************************)
EXTENDS TaskScheduler, TLC

CONSTANTS passive1, passive2, other, active, stage, shared, own

ScanTasks  == {passive1, passive2, other, active, stage}
ScanDeps   == passive1 :> <<>> @@ passive2 :> <<>> @@ other :> <<>>
              @@ active :> <<passive1, passive2>>
              @@ stage :> <<passive1, passive2, other, active>>
ScanOrder  == <<passive1, passive2, other, active, stage>>
ToolKeys   == {shared, own}
ScanToolOf == passive1 :> shared @@ passive2 :> shared @@ other :> own
              @@ active :> own @@ stage :> own
ScanWeight == passive1 :> 1 @@ passive2 :> 2 @@ other :> 4 @@ active :> 3 @@ stage :> 1
OneEach    == shared :> 1 @@ own :> 1

\* Who tolerates a failed dependency, who may not obey a cancellation.
StageOnly == {stage}
OtherAndStage == {other, stage}
=============================================================================
