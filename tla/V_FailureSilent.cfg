SPECIFICATION FairSpec
CONSTANTS
  Workflows <- SmallWorkflows
  Steps <- SmallSteps
  RunOf <- SmallRunOf
  StepIndex <- SmallIndex
  MaximumAttempts <- SmallAttempts
  Apis <- KhronosApi
  ChannelCapacity = 4
  MaxLostTasks = 0
  MaxRestarts = 0
  MaxScheduleEdits = 0
PROPERTY
  SettledRunsFinish
CHECK_DEADLOCK FALSE
