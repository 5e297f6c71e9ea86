------------------------- MODULE MC_FixedPacksLoop -------------------------
(* fixedPacks with the shipped limits 5 and 12, for selections that need up *)
(* to six packs.  The loop ends, so the runs allow termination.             *)
EXTENDS FixedPacksLoop
=============================================================================
