------------------------- MODULE MC_PagesPublication -------------------------
(* One lineage; two handlers, because the review can be closed and opened    *)
(* again while a handler runs.                                               *)
EXTENDS PagesPublication, TLC
CONSTANTS f1, f2
Handlers == Permutations({f1, f2})
=============================================================================
