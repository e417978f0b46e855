SPECIFICATION FairSpec
CONSTANTS
  Workflows <- MCWorkflows
  Steps <- MCSteps
  RunOf <- MCRunOf
  StepIndex <- MCIndex
  MaximumAttempts <- MCAttempts
  ChannelCapacity = 2
  MaxFaults = 1
INVARIANTS
  StatementTypeOK
  OneExecution
  StatementWakeups
PROPERTIES
  LeaseStatementwise
  LifecycleStatementwise
  StartedRunsFinish
CHECK_DEADLOCK FALSE
