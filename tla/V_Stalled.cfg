SPECIFICATION FairTimersSpec
CONSTANTS
  Workflows <- MCWorkflows
  Steps <- MCSteps
  RunOf <- MCRunOf
  StepIndex <- MCIndex
  MaximumAttempts <- MCAttempts
  Apis <- KhronosApi
  ChannelCapacity = 2
  MaxLostTasks = 1
  MaxRestarts = 0
  MaxScheduleEdits = 1
  Monitored <- MCSteps
  StampsParse = FALSE
PROPERTY
  StalledStepsEnd
CHECK_DEADLOCK FALSE
