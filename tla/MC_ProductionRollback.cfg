SPECIFICATION Spec
CONSTANTS
  Receipts = {r1, r2}
  Baseline = base
  None = none
INVARIANT
  OnlyWholeIsCurrent
