SPECIFICATION FairSpec
CONSTANTS
  Tasks <- SixTasks
  Registered <- FourOfSix
  Requested = {}
  MaxConcurrent = 2
  ChannelCapacity = 1
  BackoffInitial = 10
  BackoffMax = 50
  MaxFaults = 0
PROPERTY
  ReadyTasksTaken
CHECK_DEADLOCK FALSE
