SPECIFICATION FairSchedulerSpec
CONSTANTS
  Ids <- OneId
  Matches <- OnlyOwn
  Specs <- ShortInterval
  Policies <- Skip
  Runs <- RunPerSecond
  StepCount = 1
  MaxTime = 2
  MaxLoads = 2
  MaxEdits = 1
  MaxFailures = 0
PROPERTIES
  FiredSchedulesRearm
CHECK_DEADLOCK FALSE
