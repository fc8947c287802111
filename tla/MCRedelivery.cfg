SPECIFICATION FairSpec
CONSTANTS
  Messages = {m1}
  FirstCounts <- SomeCounts
  Stacks <- SomeStacks
  NoMessage = none
  ProcessorWorkers = {v1, v2}
  AckStrategy = "exponential"
  Capacity = 1
  MaxDeliveries = 2
CHECK_DEADLOCK FALSE
INVARIANTS
  TypeOK
  SettledByOutcome
  OverlapHasCause
  RecoverKeepsProcess
  RejectsSpaceOut
PROPERTIES
  LimitFreesWorker
