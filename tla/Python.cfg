SPECIFICATION FairDeploymentSpec
CONSTANTS
  Workflows <- MCWorkflows
  Steps <- MCSteps
  RunOf <- MCRunOf
  StepIndex <- MCIndex
  MaximumAttempts <- MCAttempts
  Apis <- KhronosApi
  ChannelCapacity = 2
  MaxLostTasks = 1
  MaxRestarts = 1
  MaxScheduleEdits = 1
  Workers <- MCWorkers
  ActivityOf <- MCActivityOf
  Knows <- MCKnows
INVARIANTS
  DeploymentTypeOK
  OneWorkerPerStep
PROPERTIES
  EveryStepServed
  CompletedRunsClose
CHECK_DEADLOCK FALSE
