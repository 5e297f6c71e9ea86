------------------------ MODULE MC_WorkbenchPipeline ------------------------
(* One session: no action reads the row of another one.                     *)
EXTENDS WorkbenchPipeline
=============================================================================
