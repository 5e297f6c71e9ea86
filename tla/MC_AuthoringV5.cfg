SPECIFICATION FairSpec
CONSTANTS
  s1 = s1
  s2 = s2
  s3 = s3
  r1 = r1
  Session = {s1, s2, s3}
  Request = {r1}
  Selection <- OneSelection
  ReEnrich = {r1}
  EvidencePages <- ThreePages
  Usable = {s1, s2, s3}
  StartingRow <- MixedRows
  MaximumPackSize = 2
  MinimumPackSize = 1
  PreparationBatch = 2
  MemberChunk = 2
  MaxDraftRevision = 2
  MaxFailures = 1
  MaxCrashes = 1
INVARIANTS
  QueueIsPreparing
  StagedUntilReady
  PacksFollowPlan
  EligibleStayStored
  AccountsAgree
PROPERTIES
  OutcomesAreStable
  ReceiptsAreFinal
  ImplementsCampaign
  PreparationSettles
CHECK_DEADLOCK FALSE
