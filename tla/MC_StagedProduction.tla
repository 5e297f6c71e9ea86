------------------------ MODULE MC_StagedProduction ------------------------
\* Two receipts: one to activate, and one beside it or after it.
EXTENDS StagedProduction
=============================================================================
