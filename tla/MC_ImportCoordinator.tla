------------------------ MODULE MC_ImportCoordinator ------------------------
(* Small instances of ImportCoordinator for TLC. *)
EXTENDS ImportCoordinator
=============================================================================
