SPECIFICATION FairSpec
CONSTANTS
  Tasks <- SixTasks
  Registered <- FourOfSix
  Requested <- SixTasks
  MaxConcurrent = 2
  ChannelCapacity = 1
  BackoffInitial = 10
  BackoffMax = 50
  MaxFaults = 2
INVARIANTS
  WorkerTypeOK
  PermitsConserved
  SingleCustody
  LossesAccounted
PROPERTIES
  ImplementsContract
  OutageBacksOff
  OutagesEnd
  HeldTasksEnd
  SignalsHonoured
CHECK_DEADLOCK FALSE
