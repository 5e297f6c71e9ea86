-------------------------- MODULE MC_ImportWorkUnits --------------------------
(* Small instances of ImportWorkUnits for TLC. *)
EXTENDS ImportWorkUnits
CONSTANTS f1, f2

\* one file holds a line no adapter reads, and a later one of an excluded session
OneMalformed == {<<f1, 2>>}
LastExcluded == {<<f1, 3>>}
=============================================================================
