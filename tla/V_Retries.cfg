SPECIFICATION Spec
CONSTANTS
  Workflows <- SmallWorkflows
  Steps <- SmallSteps
  RunOf <- SmallRunOf
  StepIndex <- SmallIndex
  MaximumAttempts <- SmallAttempts
  Apis <- KhronosApi
  ChannelCapacity = 2
  MaxLostTasks = 0
  MaxRestarts = 0
  MaxScheduleEdits = 0
INVARIANT
  RetriesExhausted
CHECK_DEADLOCK FALSE
