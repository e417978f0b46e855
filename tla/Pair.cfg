SPECIFICATION Spec
CONSTANTS
  Workflows <- PairWorkflows
  Steps <- PairSteps
  RunOf <- PairRunOf
  StepIndex <- PairIndex
  MaximumAttempts <- PairAttempts
  Apis <- BothApis
  ChannelCapacity = 2
  MaxLostTasks = 1
  MaxRestarts = 1
  MaxScheduleEdits = 1
INVARIANTS
  TypeOK
  TasksAreCurrent
  StepsMatchActivities
  AttemptsWithinPolicy
  LeaseInvariant
  OutcomeJustified
  NoLostWakeup
PROPERTIES
  SettledStepIsFinal
  AttemptLogGrows
  ImplementsLease
  ImplementsLifecycle
CHECK_DEADLOCK FALSE
