SPECIFICATION FairSpec
CONSTANTS
  e1 = e1
  e2 = e2
  e3 = e3
  m1 = m1
  m2 = m2
  MaxBatchSize = 2
  MaxFailures = 2
  Event = {e1, e2, e3}
  Immediate = {e3}
  Mutation = {m1, m2}
INVARIANTS
  DeferredStayDeleted
  MutationsExclude
PROPERTIES
  OnlyLastFlushStrands
  NothingDropped
  IngestSettles
CHECK_DEADLOCK FALSE
