--------------------------- MODULE MC_LiveIngest ---------------------------
(* Three events in batches of two and two overlapping destructive mutations.*)
EXTENDS LiveIngest

CONSTANTS e1, e2, e3, m1, m2
=============================================================================
