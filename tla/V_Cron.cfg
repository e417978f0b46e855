SPECIFICATION SchedulerSpec
CONSTANTS
  Ids <- OneId
  Matches <- OnlyOwn
  Specs <- SlowCron
  Policies <- Skip
  Runs <- RunPerSecond
  StepCount = 1
  MaxTime = 4
  MaxLoads = 2
  MaxEdits = 1
  MaxFailures = 0
PROPERTIES
  CronFiresWhenDue
CHECK_DEADLOCK FALSE
