SPECIFICATION Spec
CONSTANTS
  e1 = e1
  e2 = e2
  e3 = e3
  m1 = m1
  m2 = m2
  MaxBatchSize = 2
  MaxFailures = 1
  Event = {e1, e2, e3}
  Immediate = {e3}
  Mutation = {m1, m2}
INVARIANT DeletedIsNotRepopulated
CHECK_DEADLOCK FALSE
