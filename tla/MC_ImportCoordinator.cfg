CONSTANTS
  Job = {j1, j2, j3}
  MaxActive = 2
  MaxRetries = 1
  MaxCrashes = 1
SPECIFICATION FairSpec
CHECK_DEADLOCK FALSE
INVARIANT OneRunPerJob SlotsUsed NoJobForgotten
PROPERTY CancelledNeverSucceeds QueuedJobsStart CancellationEnds
