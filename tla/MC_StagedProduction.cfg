SPECIFICATION FairSpec
CONSTANTS
  Receipts = {r1, r2}
  Baseline = base
  None = none
INVARIANTS
  OneVersion
  CurrentIsWhole
  RollbackKept
PROPERTIES
  FinalizedStays
  CommandsEnd
