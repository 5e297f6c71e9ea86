SPECIFICATION Spec
CONSTANTS
  f1 = f1
  f2 = f2
  Flows = {f1, f2}
  MaxRequests = 3
PROPERTY RetryableFailureKeepsPending
