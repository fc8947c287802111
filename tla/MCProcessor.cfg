SPECIFICATION FairSpec
CONSTANTS
  ProcessorWorkers = {v1, v2}
  AckStrategy = "immediate"
  Capacity = 2
  MaxDeliveries = 3
INVARIANTS
  TypeOK
  SettledAsHandled
  NoneAbandoned
  NilMeansDrained
PROPERTIES
  HandledAtMostOnce
  CloseEndsProcess
  ContextEndsProcess
