CONSTANTS
  f1 = f1
  f2 = f2
  Unit = {f1, f2}
  MaxLines = 3
  Malformed <- OneMalformed
  Excluded <- LastExcluded
  Permitted = {f1}
  CheckpointInterval = 2
  MaxJobs = 2
  MaxRetries = 1
  MaxCrashes = 1
SPECIFICATION FairSpec
CHECK_DEADLOCK FALSE
INVARIANT CheckpointsAddUp CleanReceipt
PROPERTY CheckpointsOnlyAdvance JobEnds
