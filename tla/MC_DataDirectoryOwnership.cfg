SPECIFICATION FairSpec
CONSTANTS
  Daemons = {p1, p2}
  Old = old
  Parent = parent
  d1 = d1
  d2 = d2
  Databases = {d1, d2}
  Configurations <- TwoConfigurations
  MaxStarts = 3
  MaxAttempts = 2
  MaxTimeouts = 1
  None = none
INVARIANTS
  OneWriter
  SentinelInPlace
PROPERTIES
  MistakesReturn
  StartsEnd
CHECK_DEADLOCK FALSE
