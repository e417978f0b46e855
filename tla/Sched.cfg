SPECIFICATION FairSchedulerSpec
CONSTANTS
  Ids <- TwoIds
  Matches <- Prefix
  Specs <- AllSpecs
  Policies <- AllPolicies
  Runs <- RunPerSecond
  StepCount = 2
  MaxTime = 1
  MaxLoads = 2
  MaxEdits = 2
  MaxFailures = 1
INVARIANTS
  SchedulerTypeOK
  StartsDistinct
  OverlapDecided
PROPERTIES
  IntervalRespected
  DueEntriesServed
CHECK_DEADLOCK FALSE
